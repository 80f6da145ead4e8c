---------------------------- MODULE RepoLifecycle ----------------------------
(***************************************************************************)
(* app.py: creating, deleting and configuring one repository.  Every       *)
(* request runs in a thread of its own (ThreadingHTTPServer) and nothing   *)
(* but the store of the managed variables locks, so the calls to the file  *)
(* system of different requests interleave.                                *)
(*                                                                         *)
(* The repository <name>.git is a directory with the Entries that git init *)
(* makes, numbered as listed by the file system; HooksDir is one of them   *)
(* and holds the link to the canonical hook.  git init is one step, and so *)
(* is a call of the variable store (see VariableStore); rmtree is not.     *)
(* A generation counts how often the directory came into being, which      *)
(* tells a repository from an earlier one of the same name.                *)
(***************************************************************************)
EXTENDS Integers, FiniteSets, FiniteSetsExt

CONSTANTS
  Requests,
  Entries,    \* what git init creates, as numbers in listing order
  HooksDir,
  MaxFaults,  \* bound: failing system calls
  MaxStops,   \* bound: stops of the service
  None

ASSUME EntriesAssumption ==
  Entries \subseteq Nat /\ IsFiniteSet(Entries) /\ HooksDir \in Entries
ASSUME BoundsAssumption == MaxFaults \in Nat /\ MaxStops \in Nat

Kinds == {"create", "delete", "patch"}

ASSUME NoneAssumption == None \notin Kinds

VARIABLES
  dir,     \* the directory exists
  tree,    \* its entries
  linked,  \* hooks/post-receive exists
  born,    \* generation of the directory, or of the last one
  unhooked, \* history: it was answered 201 without a hook
  cut,     \* history: a stop or a failing call cut work on it short
  vals,    \* generation the variable file was written for, 0 without a file
  kind,    \* what each request asks for
  pc,
  seen,    \* the generation a request found
  todo,    \* what an rmtree has listed and not yet removed
  reply,   \* the status, Raised for an exception, 0 without an answer
  met,     \* which kinds of requests have overlapped (history)
  faults,
  stops

content == <<dir, tree, linked, born, unhooked>>
repo == <<content, cut>>
vars == <<repo, vals, kind, pc, seen, todo, reply, met, faults, stops>>

Pcs == {"idle", "called", "free", "inited", "dropping", "patching", "listing",
        "removing", "dropped", "done"}

Raised == 1

\* Past its first check and not yet answered.
Active(r) == pc[r] \notin {"idle", "called", "done"}

\* All that create_bare_repo makes: without a canonical hook there is no link.
Complete == dir /\ tree = Entries /\ (linked \/ unhooked)

Init ==
  /\ \/ dir = FALSE /\ tree = {} /\ linked = FALSE /\ born = 0 /\ vals = 0
     \/ /\ dir = TRUE /\ tree = Entries /\ linked = TRUE /\ born = 1
        /\ vals \in {0, 1}
  /\ unhooked = FALSE /\ cut = FALSE
  /\ kind = [r \in Requests |-> None]
  /\ pc = [r \in Requests |-> "idle"]
  /\ seen = [r \in Requests |-> 0]
  /\ todo = [r \in Requests |-> {}]
  /\ reply = [r \in Requests |-> 0]
  /\ met = {}
  /\ faults = 0
  /\ stops = 0

Goto(r, p) == pc' = [pc EXCEPT ![r] = p] /\ UNCHANGED reply

Answer(r, status) ==
  /\ pc' = [pc EXCEPT ![r] = "done"]
  /\ reply' = [reply EXCEPT ![r] = status]

Fault == faults < MaxFaults /\ faults' = faults + 1 /\ UNCHANGED stops
NoFault == UNCHANGED <<faults, stops>>

\* The check is passed while these other requests are active.
Meet(r) ==
  met' = met \cup {{kind[r], kind[s]} : s \in {q \in Requests : Active(q) /\ q # r}}

(***************************************************************************)
(* Faulty variants of definitions below; no specification uses them.       *)
(***************************************************************************)
\* create_bare_repo relies on git init to refuse a name that is taken.
CheckFreeNever(r) ==
  /\ kind[r] = "create"
  /\ pc[r] = "called"
  /\ Goto(r, "free")
  /\ Meet(r)
  /\ UNCHANGED <<repo, vals, kind, seen, todo>> /\ NoFault

\* A failed cleanup of the variables does not stop the deletion.
DropFailsUnnoticed(r) ==
  /\ pc[r] = "dropping"
  /\ Fault
  /\ Goto(r, "listing")
  /\ UNCHANGED <<repo, vals, kind, seen, todo, met>>

\* The variables are left to whoever creates the name again.
DropVariablesNever(r) ==
  /\ pc[r] = "dropping"
  /\ Goto(r, "listing")
  /\ UNCHANGED <<repo, vals, kind, seen, todo, met>> /\ NoFault

\* shutil.rmtree(path, ignore_errors=True)
RemoveDirQuietly(r) ==
  /\ pc[r] = "removing" /\ todo[r] = {}
  /\ dir' = (dir /\ tree # {})
  /\ UNCHANGED <<tree, linked, born, unhooked, cut, vals, kind, seen, todo, met>> /\ NoFault
  /\ IF kind[r] = "create" THEN Answer(r, 400) ELSE Goto(r, "dropped")

\* rmtree removes what it lists in an order of its own.
RemoveEntryUnordered(r) ==
  /\ pc[r] = "removing" /\ todo[r] # {}
  /\ \E e \in todo[r] \cap tree :
       /\ tree' = tree \ {e}
       /\ linked' = (linked /\ e # HooksDir)
       /\ todo' = [todo EXCEPT ![r] = @ \ {e}]
  /\ UNCHANGED <<dir, born, unhooked, cut, vals, kind, pc, seen, reply, met>> /\ NoFault

------------------------------------------------------------------------------
Begin(r, k) ==
  /\ pc[r] = "idle"
  /\ kind' = [kind EXCEPT ![r] = k]
  /\ Goto(r, "called")
  /\ UNCHANGED <<repo, vals, seen, todo, met>> /\ NoFault

(***************************************************************************)
(* POST /create                                                            *)
(***************************************************************************)
CheckFree(r) ==
  /\ kind[r] = "create"
  /\ pc[r] = "called"
  /\ \/ dir /\ Answer(r, 409) /\ UNCHANGED met
     \/ ~dir /\ Goto(r, "free") /\ Meet(r)
  /\ UNCHANGED <<repo, vals, kind, seen, todo>> /\ NoFault

\* git init creates the directory, or completes the one that is there.
Initialize ==
  /\ dir' = TRUE
  /\ born' = IF dir THEN born ELSE born + 1
  /\ unhooked' = (unhooked /\ dir)
  /\ UNCHANGED linked

GitInit(r) ==
  /\ pc[r] = "free"
  /\ Initialize
  /\ tree' = Entries
  /\ cut' = (cut /\ dir)
  /\ seen' = [seen EXCEPT ![r] = born']
  /\ Goto(r, "inited")
  /\ UNCHANGED <<vals, kind, todo, met>> /\ NoFault

\* git init fails, with or without having begun the directory.
GitInitFails(r) ==
  /\ pc[r] = "free"
  /\ Fault
  /\ \/ UNCHANGED repo
     \/ Initialize /\ cut' = TRUE /\ UNCHANGED tree
  /\ Answer(r, 400)
  /\ UNCHANGED <<vals, kind, seen, todo, met>>

\* With a canonical hook: os.path.isfile.
LinkHook(r) ==
  /\ pc[r] = "inited"
  /\ HooksDir \in tree
  /\ ~linked
  /\ linked' = TRUE
  /\ Answer(r, 201)
  /\ UNCHANGED <<dir, tree, born, unhooked, cut, vals, kind, seen, todo, met>> /\ NoFault

\* Without a canonical hook the creation succeeds all the same, although README
\* "HTTP API and browser" says that it installs it.
SkipHook(r) ==
  /\ pc[r] = "inited"
  /\ unhooked' = (unhooked \/ (dir /\ seen[r] = born))
  /\ Answer(r, 201)
  /\ UNCHANGED <<dir, tree, linked, born, cut, vals, kind, seen, todo, met>> /\ NoFault

\* The link exists, hooks/ has gone, or the call fails: back out by rmtree.
LinkRaises(r) ==
  /\ pc[r] = "inited"
  /\ \/ (linked \/ HooksDir \notin tree) /\ NoFault /\ UNCHANGED cut
     \/ Fault /\ cut' = TRUE
  /\ Goto(r, "listing")
  /\ UNCHANGED <<content, vals, kind, seen, todo, met>>

(***************************************************************************)
(* shutil.rmtree, for delete_bare_repo and for backing out of a creation.  *)
(***************************************************************************)
Raises(r) ==
  /\ todo' = [todo EXCEPT ![r] = {}]
  /\ Answer(r, Raised)
  /\ UNCHANGED <<content, vals, kind, seen, met>>

ListTree(r) ==
  /\ pc[r] = "listing"
  /\ dir
  /\ todo' = [todo EXCEPT ![r] = tree]
  /\ Goto(r, "removing")
  /\ UNCHANGED <<repo, vals, kind, seen, met>> /\ NoFault

RemoveEntry(r) ==
  /\ pc[r] = "removing" /\ todo[r] # {}
  /\ LET e == Min(todo[r]) IN
       /\ e \in tree
       /\ tree' = tree \ {e}
       /\ linked' = (linked /\ e # HooksDir)
       /\ todo' = [todo EXCEPT ![r] = @ \ {e}]
  /\ UNCHANGED <<dir, born, unhooked, cut, vals, kind, pc, seen, reply, met>> /\ NoFault

\* What was listed, or the directory itself, is no longer there; or the
\* directory has been filled again.
RemoveRaises(r) ==
  /\ \/ pc[r] = "listing" /\ ~dir
     \/ pc[r] = "removing" /\ todo[r] # {} /\ Min(todo[r]) \notin tree
     \/ pc[r] = "removing" /\ todo[r] = {} /\ (~dir \/ tree # {})
  /\ Raises(r) /\ NoFault /\ UNCHANGED cut

RemoveFails(r) ==
  /\ pc[r] \in {"listing", "removing"}
  /\ Raises(r) /\ Fault
  /\ cut' = (cut \/ pc[r] = "removing")

RemoveDir(r) ==
  /\ pc[r] = "removing" /\ todo[r] = {}
  /\ dir /\ tree = {}
  /\ dir' = FALSE
  /\ IF kind[r] = "create" THEN Answer(r, 400) ELSE Goto(r, "dropped")
  /\ UNCHANGED <<tree, linked, born, unhooked, cut, vals, kind, seen, todo, met>>
  /\ NoFault

(***************************************************************************)
(* DELETE /repo/<name>                                                     *)
(***************************************************************************)
CheckExists(r) ==
  /\ kind[r] \in {"delete", "patch"}
  /\ pc[r] = "called"
  /\ \/ ~dir /\ Answer(r, 404) /\ UNCHANGED <<seen, met>>
     \/ /\ dir /\ Meet(r)
        /\ Goto(r, IF kind[r] = "delete" THEN "dropping" ELSE "patching")
        /\ seen' = [seen EXCEPT ![r] = born]
  /\ UNCHANGED <<repo, vals, kind, todo>> /\ NoFault

DropVariables(r) ==
  /\ pc[r] = "dropping"
  /\ vals' = 0
  /\ Goto(r, "listing")
  /\ UNCHANGED <<repo, kind, seen, todo, met>> /\ NoFault

\* With or without effect; the repository stays.
DropFails(r) ==
  /\ pc[r] = "dropping"
  /\ Fault
  /\ vals' \in {0, vals}
  /\ Answer(r, 400)
  /\ UNCHANGED <<repo, kind, seen, todo, met>>

\* The logs are deleted as well, which may fail, also because one is written
\* meanwhile; RepoJobs has the steps of it.
DeleteLogs(r) ==
  /\ pc[r] = "dropped"
  /\ \/ Answer(r, 200) /\ NoFault
     \/ Answer(r, Raised) /\ (NoFault \/ Fault)
  /\ UNCHANGED <<repo, vals, kind, seen, todo, met>>

(***************************************************************************)
(* PATCH /api/repo/<name>/variables, after its CheckExists                 *)
(***************************************************************************)
PatchVariables(r) ==
  /\ pc[r] = "patching"
  /\ vals' = seen[r]
  /\ Answer(r, 200)
  /\ UNCHANGED <<repo, kind, seen, todo, met>> /\ NoFault

PatchFails(r) ==
  /\ pc[r] = "patching"
  /\ Fault
  /\ vals' \in {vals, seen[r]}
  /\ Answer(r, 500)
  /\ UNCHANGED <<repo, kind, seen, todo, met>>

\* The service is stopped and started again: its threads are gone.
ServiceStop ==
  /\ stops < MaxStops
  /\ stops' = stops + 1
  /\ pc' = [r \in Requests |-> IF pc[r] = "idle" THEN "idle" ELSE "done"]
  /\ todo' = [r \in Requests |-> {}]
  /\ cut' = (cut \/ \E r \in Requests : pc[r] \in {"inited", "removing"})
  /\ UNCHANGED <<content, vals, kind, seen, reply, met, faults>>

Creation(r) ==
  \/ CheckFree(r) \/ GitInit(r) \/ GitInitFails(r)
  \/ LinkHook(r) \/ SkipHook(r) \/ LinkRaises(r)

Removal(r) ==
  \/ ListTree(r) \/ RemoveEntry(r) \/ RemoveRaises(r) \/ RemoveFails(r)
  \/ RemoveDir(r)

Deletion(r) ==
  \/ CheckExists(r) \/ DropVariables(r) \/ DropFails(r) \/ DeleteLogs(r)

Patching(r) == PatchVariables(r) \/ PatchFails(r)

Next ==
  \/ \E r \in Requests :
       \/ \E k \in Kinds : Begin(r, k)
       \/ Creation(r)
       \/ Removal(r)
       \/ Deletion(r)
       \/ Patching(r)
  \/ ServiceStop

Spec == Init /\ [][Next]_vars

------------------------------------------------------------------------------
\* Types; and what is inside a directory is there only while it is.
TypeOK ==
  /\ dir \in BOOLEAN /\ linked \in BOOLEAN
  /\ unhooked \in BOOLEAN /\ cut \in BOOLEAN
  /\ tree \subseteq Entries
  /\ tree # {} => dir
  /\ linked => HooksDir \in tree
  /\ born \in Nat /\ vals \in Nat
  /\ kind \in [Requests -> Kinds \cup {None}]
  /\ pc \in [Requests -> Pcs]
  /\ seen \in [Requests -> Nat]
  /\ todo \in [Requests -> SUBSET Entries]
  /\ reply \in [Requests -> {0, Raised, 200, 201, 400, 404, 409, 500}]
  /\ met \subseteq SUBSET Kinds
  /\ faults \in Nat /\ stops \in Nat

\* No creation has overlapped another or a deletion, and neither a stop nor a
\* failing call has cut a creation or a removal of this repository short.
Undisturbed ==
  /\ ~cut
  /\ {"create"} \notin met
  /\ {"create", "delete"} \notin met

\* An undisturbed repository that nobody is working on has all of its entries,
\* and its hook unless there was none to link.  Deletions may overlap: one of
\* them gets to the end.  Stops and failures at any other point, or before the
\* repository was created anew, do no harm (app.py 394-437).
CreatedIsComplete ==
  (/\ Undisturbed
   /\ dir
   /\ \A r \in Requests : Active(r) => kind[r] = "patch")
  => Complete

\* A repository never finds the variables of an earlier one of its name, nor
\* do they outlive it, whatever fails and wherever the service is stopped;
\* unless a patch overlapped a deletion or a creation, which may back out.
VariablesFollowRepo ==
  vals # 0 =>
    \/ dir /\ vals = born
    \/ {"patch", "delete"} \in met
    \/ {"patch", "create"} \in met

\* A deletion answered 200 is final: that repository is gone, even if the
\* same name was created again meanwhile.
DeletedIsGone ==
  \A r \in Requests :
    kind[r] = "delete" /\ reply[r] = 200 => ~(dir /\ born = seen[r])

\* What a creation has answered 201 stays whatever else happens, as long as
\* nobody deletes and no two creations overlap: a later creation never touches
\* it.  It has its hook unless there was none to link (app.py 413).
Kept(r) ==
  kind[r] = "create" /\ reply[r] = 201 /\ (\A s \in Requests : kind[s] # "delete")
    => Complete

CreatedStays == {"create"} \notin met => \A r \in Requests : Kept(r)

\* README "Hook logs": "Deleting a repository also deletes its logs and
\* managed variable file."
DeleteRemovesVariables ==
  \A r \in Requests :
    (/\ kind[r] = "delete" /\ reply[r] = 200
     /\ \A s \in Requests : pc[s] \in {"idle", "done"} /\ kind[s] # "create")
    => vals = 0

==============================================================================
