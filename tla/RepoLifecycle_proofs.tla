------------------------- MODULE RepoLifecycle_proofs -------------------------
(***************************************************************************)
(* Proofs about RepoLifecycle for any number of requests, entries of a     *)
(* repository, failing calls and stops.                                    *)
(***************************************************************************)
EXTENDS RepoLifecycle, WellFoundedInduction, TLAPS

\* The overlaps that VariablesFollowRepo excepts.
PatchOverlapped == {"patch", "delete"} \in met \/ {"patch", "create"} \in met

\* Which kind of request is where; an answer comes last.
Places ==
  \A r \in Requests :
    /\ pc[r] \in {"free", "inited"} => kind[r] = "create"
    /\ pc[r] \in {"dropping", "dropped"} => kind[r] = "delete"
    /\ pc[r] = "patching" => kind[r] = "patch"
    /\ pc[r] \in {"listing", "removing"} => kind[r] \in {"create", "delete"}
    /\ pc[r] # "done" => reply[r] = 0
    /\ kind[r] = "patch" => pc[r] \in {"called", "patching", "done"}
    /\ pc[r] # "idle" => kind[r] \in Kinds
    /\ pc[r] = "idle" => kind[r] = None

\* met records every overlap of active requests.
Overlaps ==
  \A r, s \in Requests :
    r # s /\ Active(r) /\ Active(s) => {kind[r], kind[s]} \in met

\* There are no variables when a creation, or a deletion past its cleanup,
\* is under way; so there are none when it removes the directory.
Cleared ==
  \A r \in Requests :
    \/ pc[r] \in {"free", "inited", "listing", "removing", "dropped"} =>
         vals = 0
    \/ PatchOverlapped

\* A patch writes for the repository it found.
PatchesCurrent ==
  \A r \in Requests :
    pc[r] = "patching" => (dir /\ seen[r] = born) \/ PatchOverlapped

\* A request has not seen a later generation, and the one whose removal is
\* finished does not come back.
Generations ==
  \A r \in Requests :
    /\ seen[r] <= born
    /\ pc[r] = "dropped" => ~(dir /\ born = seen[r])

\* S is what is left of the entries when the first ones are removed.
Rest(S) == \A e \in S : \A f \in Entries : e < f => f \in S

\* As long as a repository is undisturbed, the one creation under way has it
\* for itself, and made it; what deletions have left of it is the rest of the listing, and
\* the deletion that removed an entry last is not behind: it removes what is
\* left.
Intact ==
  Undisturbed =>
    /\ \A r \in Requests :
         /\ pc[r] = "free" => ~dir
         /\ pc[r] = "inited" => dir /\ tree = Entries /\ ~linked /\ seen[r] = born
         /\ pc[r] \in {"listing", "removing"} => kind[r] = "delete"
         /\ pc[r] = "removing" => tree \subseteq todo[r] /\ Rest(todo[r])
    /\ Rest(tree)
    /\ dir /\ (\A r \in Requests : pc[r] # "inited") =>
         /\ HooksDir \in tree => linked \/ unhooked
         /\ \/ tree = Entries
            \/ \E r \in Requests : pc[r] = "removing" /\ todo[r] = tree

\* As long as creations have not overlapped and nothing is deleted, what git
\* init has made is complete, and nobody begins behind a creation answered 201.
Lasting ==
  {"create"} \notin met /\ (\A s \in Requests : kind[s] # "delete") =>
    \A r \in Requests : kind[r] = "create" =>
      /\ pc[r] = "inited" => dir /\ tree = Entries /\ seen[r] = born
      /\ reply[r] = 201 =>
           /\ Complete
           /\ \A s \in Requests : Active(s) => kind[s] # "create"

IInv ==
  /\ TypeOK
  /\ Places
  /\ Overlaps
  /\ Cleared
  /\ PatchesCurrent
  /\ VariablesFollowRepo
  /\ Generations
  /\ DeletedIsGone
  /\ Intact
  /\ Lasting

------------------------------------------------------------------------------
\* The order of a pair does not matter.
LEMMA Pairs == \A a, b : {a, b} = {b, a}
  OBVIOUS

LEMMA InitInv == Init => IInv
  <1> SUFFICES ASSUME Init PROVE IInv
    OBVIOUS
  <1>1. TypeOK
    <2>1. dir \in BOOLEAN /\ linked \in BOOLEAN
      BY Zenon DEF Init
    <2>3. tree \subseteq Entries /\ born \in Nat /\ vals \in Nat
      BY DEF Init
    <2>4. (tree # {} => dir) /\ (linked => HooksDir \in tree)
      BY EntriesAssumption DEF Init
    <2>2. pc \in [Requests -> Pcs] /\ kind \in [Requests -> Kinds \cup {None}]
      BY DEF Init, Pcs
    <2> QED
      BY <2>1, <2>2, <2>3, <2>4 DEF Init, TypeOK
  <1>2. Places /\ Overlaps
    BY NoneAssumption DEF Init, Places, Overlaps, Active, Kinds
  <1>3. Cleared /\ PatchesCurrent
    BY DEF Init, Cleared, PatchesCurrent
  <1>4. VariablesFollowRepo /\ Generations /\ DeletedIsGone
    BY DEF Init, VariablesFollowRepo, Generations, DeletedIsGone
  <1>5. Intact
    <2>1. tree = {} \/ tree = Entries
      BY DEF Init
    <2>2. Rest(tree)
      BY <2>1 DEF Rest
    <2>3. dir => tree = Entries /\ linked
      BY DEF Init
    <2>4. \A r \in Requests : pc[r] = "idle"
      BY DEF Init
    <2> QED
      BY <2>2, <2>3, <2>4, EntriesAssumption DEF Intact
  <1>6. Lasting
    BY NoneAssumption DEF Init, Lasting, Kinds
  <1> QED
    BY <1>1, <1>2, <1>3, <1>4, <1>5, <1>6 DEF IInv

LEMMA HistoryTypes ==
  TypeOK /\ [Next]_vars => unhooked' \in BOOLEAN /\ cut' \in BOOLEAN
  <1> SUFFICES ASSUME TypeOK, [Next]_vars
               PROVE  unhooked' \in BOOLEAN /\ cut' \in BOOLEAN
    OBVIOUS
  <1>0. unhooked \in BOOLEAN /\ cut \in BOOLEAN
    BY DEF TypeOK
  <1>1. ASSUME NEW r \in Requests, GitInit(r)
        PROVE  unhooked' \in BOOLEAN /\ cut' \in BOOLEAN
    BY <1>1 DEF GitInit, Initialize
  <1>2. ASSUME NEW r \in Requests, GitInitFails(r)
        PROVE  unhooked' \in BOOLEAN /\ cut' \in BOOLEAN
    BY <1>0, <1>2 DEF GitInitFails, Initialize, repo, content
  <1>3. ASSUME NEW r \in Requests, SkipHook(r) \/ RemoveFails(r)
        PROVE  unhooked' \in BOOLEAN /\ cut' \in BOOLEAN
    BY <1>0, <1>3 DEF SkipHook, RemoveFails, Raises, content
  <1>4. CASE ServiceStop
    BY <1>0, <1>4 DEF ServiceStop, content
  <1>5. ASSUME NEW r \in Requests,
               \/ \E k \in Kinds : Begin(r, k)
               \/ CheckFree(r) \/ LinkHook(r) \/ LinkRaises(r) \/ ListTree(r)
               \/ RemoveEntry(r) \/ RemoveRaises(r) \/ RemoveDir(r)
               \/ Deletion(r) \/ Patching(r)
        PROVE  unhooked' = unhooked /\ (cut' = cut \/ cut' = TRUE)
    BY <1>5 DEF Begin, CheckFree, LinkHook, LinkRaises, ListTree, RemoveEntry,
                RemoveRaises, RemoveDir, Raises, Deletion, CheckExists, DropVariables,
                DropFails, DeleteLogs, Patching, PatchVariables, PatchFails, repo, content
  <1>6. CASE UNCHANGED vars
    BY <1>0, <1>6 DEF vars, repo, content
  <1> QED
    BY <1>0, <1>1, <1>2, <1>3, <1>4, <1>5, <1>6 DEF Next, Creation, Removal

\* met only grows.
LEMMA MetGrows == [Next]_vars => met \subseteq met'
  BY DEF Next, vars, repo, content, Begin, Creation, CheckFree, GitInit,
         GitInitFails, LinkHook, SkipHook, LinkRaises, Removal, ListTree, RemoveEntry, RemoveRaises, RemoveFails,
         RemoveDir, Raises, Deletion, CheckExists, DropVariables, DropFails,
         DeleteLogs, Patching, PatchVariables, PatchFails, ServiceStop, Meet

LEMMA TypeStep == TypeOK /\ Places /\ [Next]_vars => TypeOK'
  <1> SUFFICES ASSUME TypeOK, Places, [Next]_vars PROVE TypeOK'
    OBVIOUS
  <1>0. unhooked' \in BOOLEAN /\ cut' \in BOOLEAN
    BY HistoryTypes
  <1> USE DEF TypeOK, Pcs, Goto, Answer, Raised, Fault, NoFault, repo, content
  <1>1. ASSUME NEW r \in Requests, NEW k \in Kinds, Begin(r, k) PROVE TypeOK'
    BY <1>1 DEF Begin
  <1>2. ASSUME NEW r \in Requests, CheckFree(r) \/ CheckExists(r) PROVE TypeOK'
    <2>1. met' \subseteq SUBSET Kinds
      <3>1. ASSUME Meet(r), pc[r] = "called" PROVE met' \subseteq SUBSET Kinds
        BY <3>1 DEF Meet, Places, Active
      <3> QED
        BY <1>2, <3>1 DEF CheckFree, CheckExists
    <2>2. CASE CheckFree(r)
      BY <2>1, <2>2 DEF CheckFree
    <2>3. CASE CheckExists(r)
      BY <2>1, <2>3 DEF CheckExists
    <2> QED
      BY <1>2, <2>2, <2>3
  <1>3. ASSUME NEW r \in Requests, GitInit(r) PROVE TypeOK'
    <2>1. born' \in Nat /\ dir' = TRUE
      BY <1>3 DEF GitInit, Initialize
    <2> QED
      BY <1>3, <2>1, EntriesAssumption DEF GitInit, Initialize
  <1>4. ASSUME NEW r \in Requests, GitInitFails(r) PROVE TypeOK'
    <2>1. born' \in Nat /\ (dir' = TRUE \/ dir' = dir)
      BY <1>4 DEF GitInitFails, Initialize
    <2>2. UNCHANGED <<tree, linked>>
      BY <1>4 DEF GitInitFails, Initialize
    <2>3. reply' \in [Requests -> {0, Raised, 200, 201, 400, 404, 409, 500}]
      BY <1>4 DEF GitInitFails
    <2>4. /\ pc' \in [Requests -> Pcs]
          /\ faults' \in Nat
          /\ UNCHANGED <<vals, kind, seen, todo, met, stops>>
      BY <1>4 DEF GitInitFails
    <2>5. CASE dir' = TRUE
      BY <1>0, <2>1, <2>2, <2>3, <2>4, <2>5
    <2>6. CASE dir' = dir
      BY <1>0, <2>1, <2>2, <2>3, <2>4, <2>6
    <2> QED
      BY <2>1, <2>5, <2>6
  <1>5. ASSUME NEW r \in Requests, LinkHook(r) PROVE TypeOK'
    BY <1>5 DEF LinkHook
  <1>6. ASSUME NEW r \in Requests, SkipHook(r) \/ LinkRaises(r) PROVE TypeOK'
    BY <1>0, <1>6 DEF SkipHook, LinkRaises
  <1>7. ASSUME NEW r \in Requests, ListTree(r) PROVE TypeOK'
    BY <1>7 DEF ListTree
  <1>8. ASSUME NEW r \in Requests, RemoveEntry(r) PROVE TypeOK'
    <2> DEFINE e == Min(todo[r])
    <2>1. /\ tree' = tree \ {e}
          /\ linked' = (linked /\ e # HooksDir)
          /\ todo' = [todo EXCEPT ![r] = todo[r] \ {e}]
          /\ UNCHANGED <<dir, born, vals, kind, pc, seen, reply, met, faults, stops>>
      BY <1>8 DEF RemoveEntry
    <2> HIDE DEF e
    <2>2. todo' \in [Requests -> SUBSET Entries]
      BY <2>1
    <2>3. linked' \in BOOLEAN /\ (linked' => HooksDir \in tree')
      BY <2>1
    <2>4. tree' \subseteq Entries /\ (tree' # {} => dir')
      BY <2>1
    <2> QED
      BY <1>0, <2>1, <2>2, <2>3, <2>4
  <1>9. ASSUME NEW r \in Requests, RemoveRaises(r) \/ RemoveFails(r) PROVE TypeOK'
    BY <1>0, <1>9 DEF RemoveRaises, RemoveFails, Raises
  <1>10. ASSUME NEW r \in Requests, RemoveDir(r) PROVE TypeOK'
    <2>1. /\ tree = {} /\ dir' = FALSE
          /\ UNCHANGED <<tree, linked, born, vals, kind, seen, todo, met, faults,
                         stops>>
      BY <1>10 DEF RemoveDir
    <2>2. /\ pc' \in [Requests -> Pcs]
          /\ reply' \in [Requests -> {0, Raised, 200, 201, 400, 404, 409, 500}]
      BY <1>10 DEF RemoveDir
    <2> QED
      BY <1>0, <2>1, <2>2
  <1>11. ASSUME NEW r \in Requests, DropVariables(r) \/ DropFails(r) PROVE TypeOK'
    BY <1>11 DEF DropVariables, DropFails
  <1>12. ASSUME NEW r \in Requests, DeleteLogs(r) PROVE TypeOK'
    BY <1>12 DEF DeleteLogs
  <1>13. ASSUME NEW r \in Requests, Patching(r) PROVE TypeOK'
    BY <1>13 DEF Patching, PatchVariables, PatchFails
  <1>14. CASE ServiceStop
    BY <1>14 DEF ServiceStop
  <1>15. CASE UNCHANGED vars
    BY <1>15 DEF vars, repo, content
  <1> QED
    BY <1>1, <1>2, <1>3, <1>4, <1>5, <1>6, <1>7, <1>8, <1>9, <1>10, <1>11, <1>12,
       <1>13, <1>14, <1>15
       DEF Next, Creation, Removal, Deletion

LEMMA PlacesStep == TypeOK /\ Places /\ [Next]_vars => Places'
  <1> SUFFICES ASSUME TypeOK, Places, [Next]_vars PROVE Places'
    OBVIOUS
  <1> USE DEF TypeOK, Places, Goto, Answer
  <1>1. ASSUME NEW r \in Requests, NEW k \in Kinds, Begin(r, k) PROVE Places'
    BY <1>1 DEF Begin, Kinds
  <1>2. ASSUME NEW r \in Requests, CheckFree(r) PROVE Places'
    BY <1>2 DEF CheckFree, Kinds
  <1>3. ASSUME NEW r \in Requests, CheckExists(r) PROVE Places'
    BY <1>3 DEF CheckExists, Kinds
  <1>4. ASSUME NEW r \in Requests,
               \/ GitInit(r) \/ GitInitFails(r)
               \/ LinkHook(r) \/ SkipHook(r) \/ LinkRaises(r)
        PROVE  Places'
    BY <1>4 DEF GitInit, GitInitFails, LinkHook, SkipHook, LinkRaises, Kinds
  <1>5. ASSUME NEW r \in Requests, Removal(r) PROVE Places'
    BY <1>5 DEF Removal, ListTree, RemoveEntry, RemoveRaises, RemoveFails,
                RemoveDir, Raises, Kinds
  <1>6. ASSUME NEW r \in Requests, DropVariables(r) \/ DropFails(r) \/ DeleteLogs(r)
        PROVE  Places'
    BY <1>6 DEF DropVariables, DropFails, DeleteLogs, Kinds
  <1>7. ASSUME NEW r \in Requests, Patching(r) PROVE Places'
    BY <1>7 DEF Patching, PatchVariables, PatchFails, Kinds
  <1>8. CASE ServiceStop
    BY <1>8 DEF ServiceStop
  <1>9. CASE UNCHANGED vars
    BY <1>9 DEF vars, repo, content
  <1> QED
    BY <1>1, <1>2, <1>3, <1>4, <1>5, <1>6, <1>7, <1>8, <1>9
       DEF Next, Creation, Deletion

\* A request becomes active only by a check, which records whom it meets.
LEMMA ActiveStep ==
  ASSUME TypeOK, Places, [Next]_vars, NEW r \in Requests, Active(r)'
  PROVE  /\ kind'[r] = kind[r]
         /\ Active(r) \/ Meet(r)
         /\ \A s \in Requests \ {r} : ~Active(r) => (Active(s)' <=> Active(s))
  <1> USE DEF TypeOK, Places, Goto, Answer, Active
  <1>1. ASSUME NEW s \in Requests, NEW k \in Kinds, Begin(s, k)
        PROVE  kind'[r] = kind[r] /\ Active(r)
    BY <1>1 DEF Begin
  <1>2. ASSUME NEW s \in Requests, CheckFree(s) \/ CheckExists(s)
        PROVE  /\ kind' = kind
               /\ Active(r) \/ (s = r /\ Meet(r))
               /\ \A q \in Requests \ {s} : pc'[q] = pc[q]
    BY <1>2 DEF CheckFree, CheckExists
  <1>3. ASSUME NEW s \in Requests, GitInit(s) \/ GitInitFails(s) \/ LinkHook(s)
                                   \/ SkipHook(s) \/ LinkRaises(s)
        PROVE  kind' = kind /\ Active(r)
    BY <1>3 DEF GitInit, GitInitFails, LinkHook, SkipHook, LinkRaises
  <1>4. ASSUME NEW s \in Requests, Removal(s) PROVE kind' = kind /\ Active(r)
    BY <1>4 DEF Removal, ListTree, RemoveEntry, RemoveRaises, RemoveFails,
                RemoveDir, Raises
  <1>5. ASSUME NEW s \in Requests, DropVariables(s) \/ DropFails(s) \/ DeleteLogs(s)
        PROVE  kind' = kind /\ Active(r)
    BY <1>5 DEF DropVariables, DropFails, DeleteLogs
  <1>6. ASSUME NEW s \in Requests, Patching(s) PROVE kind' = kind /\ Active(r)
    BY <1>6 DEF Patching, PatchVariables, PatchFails
  <1>7. CASE ServiceStop
    BY <1>7 DEF ServiceStop
  <1>8. CASE UNCHANGED vars
    BY <1>8 DEF vars, repo, content
  <1> QED
    BY <1>1, <1>2, <1>3, <1>4, <1>5, <1>6, <1>7, <1>8
       DEF Next, Creation, Deletion

LEMMA OverlapsStep == TypeOK /\ Places /\ Overlaps /\ [Next]_vars => Overlaps'
  <1> SUFFICES ASSUME TypeOK, Places, Overlaps, [Next]_vars,
                      NEW r \in Requests, NEW s \in Requests,
                      r # s, Active(r)', Active(s)'
               PROVE  {kind'[r], kind'[s]} \in met'
    BY DEF Overlaps
  <1>1. /\ kind'[r] = kind[r] /\ kind'[s] = kind[s]
        /\ Active(r) \/ (Meet(r) /\ Active(s))
        /\ Active(s) \/ (Meet(s) /\ Active(r))
    BY ActiveStep
  <1>2. CASE Active(r) /\ Active(s)
    BY <1>1, <1>2, MetGrows DEF Overlaps
  <1>3. CASE Meet(r) /\ Active(s)
    BY <1>1, <1>3 DEF Meet
  <1>4. CASE Meet(s) /\ Active(r)
    <2>1. {kind[s], kind[r]} \in met'
      BY <1>4 DEF Meet
    <2> QED
      BY <1>1, <2>1, Pairs
  <1> QED
    BY <1>1, <1>2, <1>3, <1>4

\* Without an overlap that met would show, a patch has the repository for
\* itself; what is left is to see that each step keeps the variables with it.
LEMMA VariablesStep ==
  IInv /\ [Next]_vars => Cleared' /\ PatchesCurrent' /\ VariablesFollowRepo'
  <1> SUFFICES ASSUME IInv, [Next]_vars, ~PatchOverlapped'
               PROVE  Cleared' /\ PatchesCurrent' /\ VariablesFollowRepo'
    BY DEF Cleared, PatchesCurrent, VariablesFollowRepo, PatchOverlapped
  <1> DEFINE Clearing(r) ==
               pc[r] \in {"free", "inited", "listing", "removing", "dropped"}
             C == \A r \in Requests : Clearing(r) => vals = 0
             P == \A r \in Requests : pc[r] = "patching" => dir /\ seen[r] = born
             F == vals # 0 => dir /\ vals = born
  <1>0. SUFFICES C' /\ P' /\ F'
    BY DEF Cleared, PatchesCurrent, VariablesFollowRepo
  <1>1. TypeOK /\ Places /\ C /\ P /\ F /\ Overlaps' /\ Places'
    <2>1. ~PatchOverlapped
      BY MetGrows DEF PatchOverlapped
    <2> QED
      BY <2>1, OverlapsStep, PlacesStep
         DEF IInv, Cleared, PatchesCurrent, VariablesFollowRepo, PatchOverlapped
  <1>2. ~\E p, r \in Requests : pc'[p] = "patching" /\ Clearing(r)'
    <2> SUFFICES ASSUME NEW p \in Requests, NEW r \in Requests,
                        pc'[p] = "patching", Clearing(r)'
                 PROVE  FALSE
      OBVIOUS
    <2>1. kind'[p] = "patch" /\ kind'[r] \in {"create", "delete"} /\ p # r
      BY <1>1 DEF Places
    <2>2. {kind'[p], kind'[r]} \in met'
      BY <1>1, <2>1 DEF Overlaps, Active
    <2> QED
      BY <2>1, <2>2 DEF PatchOverlapped
  <1>3. ~\E p, r \in Requests : pc[p] = "patching" /\ Clearing(r)
    <2> SUFFICES ASSUME NEW p \in Requests, NEW r \in Requests,
                        pc[p] = "patching", Clearing(r)
                 PROVE  FALSE
      OBVIOUS
    <2>1. kind[p] = "patch" /\ kind[r] \in {"create", "delete"} /\ p # r
      BY <1>1 DEF Places
    <2>2. {kind[p], kind[r]} \in met'
      BY <2>1, MetGrows DEF IInv, Overlaps, Active
    <2> QED
      BY <2>1, <2>2 DEF PatchOverlapped
  <1> USE DEF TypeOK, Goto, Answer
  <1>4. ASSUME NEW r \in Requests, NEW k \in Kinds, Begin(r, k)
        PROVE  C' /\ P' /\ F'
    BY <1>1, <1>4 DEF Begin, repo, content
  <1>5. ASSUME NEW r \in Requests, CheckFree(r) PROVE C' /\ P' /\ F'
    BY <1>1, <1>5 DEF CheckFree, repo, content
  <1>6. ASSUME NEW r \in Requests, CheckExists(r) PROVE C' /\ P' /\ F'
    BY <1>1, <1>6 DEF CheckExists, repo, content
  <1>7. ASSUME NEW r \in Requests, GitInit(r) \/ GitInitFails(r)
        PROVE  C' /\ P' /\ F'
    <2>1. vals = 0 /\ vals' = 0
      BY <1>1, <1>7 DEF GitInit, GitInitFails
    <2>2. C' /\ F'
      BY <2>1
    <2>3. \A p \in Requests : pc'[p] = "patching" => pc[p] = "patching"
      BY <1>1, <1>7 DEF GitInit, GitInitFails
    <2>4. ~\E p \in Requests : pc[p] = "patching"
      BY <1>3, <1>7 DEF GitInit, GitInitFails
    <2> QED
      BY <2>2, <2>3, <2>4
  <1>8. ASSUME NEW r \in Requests, LinkHook(r) \/ SkipHook(r) \/ LinkRaises(r)
        PROVE  C' /\ P' /\ F'
    BY <1>1, <1>8 DEF LinkHook, SkipHook, LinkRaises, repo, content
  <1>9. ASSUME NEW r \in Requests, ListTree(r) \/ RemoveEntry(r)
        PROVE  C' /\ P' /\ F'
    BY <1>1, <1>9 DEF ListTree, RemoveEntry, repo, content
  <1>10. ASSUME NEW r \in Requests, RemoveRaises(r) \/ RemoveFails(r)
         PROVE  C' /\ P' /\ F'
    BY <1>1, <1>10 DEF RemoveRaises, RemoveFails, Raises, repo, content
  <1>11. ASSUME NEW r \in Requests, RemoveDir(r) PROVE C' /\ P' /\ F'
    <2>1. vals = 0 /\ vals' = 0
      BY <1>1, <1>11 DEF RemoveDir
    <2>2. C' /\ F'
      BY <2>1
    <2>3. \A p \in Requests : pc'[p] = "patching" => pc[p] = "patching"
      BY <1>1, <1>11 DEF RemoveDir
    <2>4. ~\E p \in Requests : pc[p] = "patching"
      BY <1>3, <1>11 DEF RemoveDir
    <2> QED
      BY <2>2, <2>3, <2>4
  <1>12. ASSUME NEW r \in Requests, DropVariables(r) PROVE C' /\ P' /\ F'
    BY <1>1, <1>12 DEF DropVariables, repo, content
  <1>13. ASSUME NEW r \in Requests, DropFails(r) PROVE C' /\ P' /\ F'
    BY <1>1, <1>13 DEF DropFails, repo, content
  <1>14. ASSUME NEW r \in Requests, DeleteLogs(r) PROVE C' /\ P' /\ F'
    BY <1>1, <1>14 DEF DeleteLogs, repo, content
  <1>15. ASSUME NEW r \in Requests, PatchVariables(r) \/ PatchFails(r)
         PROVE  C' /\ P' /\ F'
    <2>1. /\ dir /\ seen[r] = born
          /\ vals' \in {vals, seen[r]}
          /\ UNCHANGED <<dir, born, seen>>
          /\ \A s \in Requests \ {r} : pc'[s] = pc[s]
          /\ pc'[r] = "done"
      BY <1>1, <1>15 DEF PatchVariables, PatchFails, repo, content
    <2>2. ~\E s \in Requests : Clearing(s)'
      BY <1>3, <1>15, <2>1 DEF PatchVariables, PatchFails
    <2>3. C'
      BY <2>2
    <2>4. P' /\ F'
      BY <1>1, <2>1
    <2> QED
      BY <2>3, <2>4
  <1>16. CASE ServiceStop
    BY <1>1, <1>16 DEF ServiceStop, repo, content
  <1>17. CASE UNCHANGED vars
    BY <1>1, <1>17 DEF vars, repo, content
  <1> QED
    BY <1>4, <1>5, <1>6, <1>7, <1>8, <1>9, <1>10, <1>11, <1>12, <1>13, <1>14,
       <1>15, <1>16, <1>17
       DEF Next, Creation, Removal, Deletion, Patching

LEMMA GenerationsStep == IInv /\ [Next]_vars => Generations' /\ DeletedIsGone'
  <1> SUFFICES ASSUME IInv, [Next]_vars PROVE Generations' /\ DeletedIsGone'
    OBVIOUS
  <1>0. TypeOK /\ Places /\ Generations /\ DeletedIsGone
    BY DEF IInv
  <1> USE DEF TypeOK, Generations, DeletedIsGone, Goto, Answer, repo, content, Raised
  <1>1. ASSUME NEW r \in Requests, NEW k \in Kinds, Begin(r, k)
        PROVE  Generations' /\ DeletedIsGone'
    BY <1>0, <1>1 DEF Begin, Places
  <1>2. ASSUME NEW r \in Requests, CheckFree(r) PROVE Generations' /\ DeletedIsGone'
    BY <1>0, <1>2 DEF CheckFree
  <1>3. ASSUME NEW r \in Requests, CheckExists(r)
        PROVE  Generations' /\ DeletedIsGone'
    BY <1>0, <1>3 DEF CheckExists, Places
  <1>4. ASSUME NEW r \in Requests, GitInit(r)
        PROVE  Generations' /\ DeletedIsGone'
    <2>1. /\ born' \in Nat
          /\ born <= born'
          /\ \A g \in Nat : g <= born /\ ~(dir /\ born = g) => born' # g
      BY <1>0, <1>4 DEF GitInit, Initialize
    <2>2. /\ seen' = [seen EXCEPT ![r] = born']
          /\ pc' = [pc EXCEPT ![r] = "inited"]
          /\ UNCHANGED <<kind, reply>>
          /\ kind[r] = "create"
      BY <1>0, <1>4 DEF GitInit, Places
    <2> QED
      BY <1>0, <2>1, <2>2
  <1>5. ASSUME NEW r \in Requests, GitInitFails(r)
        PROVE  Generations' /\ DeletedIsGone'
    <2>1. /\ born' \in Nat
          /\ born <= born'
          /\ \A g \in Nat : g <= born /\ ~(dir /\ born = g) => ~(dir' /\ born' = g)
      BY <1>0, <1>5 DEF GitInitFails, Initialize
    <2>2. /\ UNCHANGED <<kind, seen>>
          /\ pc' = [pc EXCEPT ![r] = "done"]
          /\ reply' = [reply EXCEPT ![r] = 400]
      BY <1>5 DEF GitInitFails
    <2> QED
      BY <1>0, <2>1, <2>2
  <1>6. ASSUME NEW r \in Requests, LinkHook(r) \/ SkipHook(r) \/ LinkRaises(r)
        PROVE  Generations' /\ DeletedIsGone'
    BY <1>0, <1>6 DEF LinkHook, SkipHook, LinkRaises
  <1>7. ASSUME NEW r \in Requests, ListTree(r) \/ RemoveEntry(r)
        PROVE  Generations' /\ DeletedIsGone'
    BY <1>0, <1>7 DEF ListTree, RemoveEntry
  <1>8. ASSUME NEW r \in Requests, RemoveRaises(r) \/ RemoveFails(r)
        PROVE  Generations' /\ DeletedIsGone'
    BY <1>0, <1>8 DEF RemoveRaises, RemoveFails, Raises
  <1>9. ASSUME NEW r \in Requests, RemoveDir(r)
        PROVE  Generations' /\ DeletedIsGone'
    BY <1>0, <1>9 DEF RemoveDir
  <1>10. ASSUME NEW r \in Requests, DropVariables(r) \/ DropFails(r)
         PROVE  Generations' /\ DeletedIsGone'
    BY <1>0, <1>10 DEF DropVariables, DropFails
  <1>11. ASSUME NEW r \in Requests, DeleteLogs(r)
         PROVE  Generations' /\ DeletedIsGone'
    BY <1>0, <1>11 DEF DeleteLogs
  <1>12. ASSUME NEW r \in Requests, PatchVariables(r) \/ PatchFails(r)
         PROVE  Generations' /\ DeletedIsGone'
    BY <1>0, <1>12 DEF PatchVariables, PatchFails, Places
  <1>13. CASE ServiceStop
    BY <1>0, <1>13 DEF ServiceStop
  <1>14. CASE UNCHANGED vars
    BY <1>0, <1>14 DEF vars, repo, content
  <1> QED
    BY <1>1, <1>2, <1>3, <1>4, <1>5, <1>6, <1>7, <1>8, <1>9, <1>10, <1>11, <1>12,
       <1>13, <1>14
       DEF Next, Creation, Removal, Deletion, Patching

------------------------------------------------------------------------------
(***************************************************************************)
(* What a creation has made.                                               *)
(***************************************************************************)

\* The library has the well-founded order of the natural numbers; it gives
\* every set of them a least element.
LEMMA LeastNatural ==
  ASSUME NEW S, S \subseteq Nat, S # {}
  PROVE  \E n \in S : \A m \in S : n <= m
  <1> DEFINE R == {ss \in Nat \X Nat : ss[1] < ss[2]}
  <1>1. OpToRel(<, Nat) = R
    BY DEF OpToRel
  <1>2. IsWellFoundedOn(R, Nat)
    BY <1>1, NatLessThanWellFounded
  <1>3. \A x, y \in Nat : <<y, x>> \in R <=> y < x
    OBVIOUS
  <1> HIDE DEF R
  <1>4. PICK n \in S : \A m \in S : ~ (<<m, n>> \in R)
    BY <1>2, WFMin
  <1>5. ASSUME NEW m \in S PROVE n <= m
    <2>1. m \in Nat /\ n \in Nat /\ ~ (<<m, n>> \in R)
      BY <1>4
    <2> QED
      BY <2>1, <1>3
  <1> QED
    BY <1>5

LEMMA MinIsLeast ==
  ASSUME NEW S, S \subseteq Nat, S # {}
  PROVE  Min(S) \in S /\ \A m \in S : Min(S) <= m
  BY LeastNatural DEF Min

\* What was cut short stays so until the name is created anew.
LEMMA CutStays ==
  [Next]_vars /\ ~cut' => ~cut \/ \E r \in Requests : GitInit(r)
  BY DEF Next, vars, Begin, Creation, CheckFree, GitInitFails, LinkHook, SkipHook,
         LinkRaises, Removal, ListTree, RemoveEntry, RemoveRaises, RemoveFails,
         RemoveDir, Raises, Deletion, CheckExists, DropVariables, DropFails,
         DeleteLogs, Patching, PatchVariables, PatchFails, ServiceStop, repo, content

\* Without the overlaps that Undisturbed names, only patches overlap with a
\* creation.
LEMMA CreatesAlone ==
  ASSUME Places, Overlaps, {"create"} \notin met, {"create", "delete"} \notin met,
         NEW r \in Requests, pc[r] \in {"free", "inited"},
         NEW s \in Requests \ {r}
  PROVE  pc[s] \in {"idle", "called", "patching", "done"}
  <1> SUFFICES ASSUME pc[s] \notin {"idle", "called", "patching", "done"}
               PROVE  FALSE
    OBVIOUS
  <1>1. kind[r] = "create" /\ kind[s] \in {"create", "delete"}
    BY DEF Places, Kinds
  <1>2. {kind[r], kind[s]} \in met
    BY DEF Overlaps, Active
  <1>3. {kind[r], kind[s]} \in {{"create"}, {"create", "delete"}}
    BY <1>1
  <1> QED
    BY <1>2, <1>3

LEMMA IntactStep == IInv /\ [Next]_vars => Intact'
  <1> SUFFICES ASSUME IInv, [Next]_vars, Undisturbed' PROVE Intact'
    BY DEF Intact
  <1>0. /\ TypeOK /\ TypeOK' /\ Places /\ Places' /\ Overlaps /\ Overlaps'
        /\ {"create"} \notin met /\ {"create", "delete"} \notin met /\ Intact
        /\ ~cut'
    BY TypeStep, PlacesStep, OverlapsStep, MetGrows DEF IInv, Undisturbed
  <1> DEFINE Alone(r) == \A s \in Requests \ {r} :
                           pc[s] \in {"idle", "called", "patching", "done"}
  <1>1. \A r \in Requests : pc[r] \in {"free", "inited"} => Alone(r)
    BY <1>0, CreatesAlone
  <1> USE DEF Goto, Answer, repo, content
  <1> HIDE DEF Alone
  <1>7. ASSUME NEW r \in Requests, GitInit(r) PROVE Intact'
    <2>1. Alone(r) /\ pc[r] = "free"
      BY <1>1, <1>7 DEF GitInit
    <2>2. ~dir
      <3>1. cut' = (cut /\ dir)
        BY <1>7 DEF GitInit
      <3>2. dir => ~cut
        BY <1>0, <3>1 DEF TypeOK
      <3> QED
        BY <1>0, <2>1, <3>2 DEF Intact, Undisturbed
    <2>3. ~linked
      BY <1>0, <2>2 DEF TypeOK
    <2>4. /\ dir' /\ tree' = Entries /\ ~linked' /\ UNCHANGED <<kind, todo>>
          /\ pc' = [pc EXCEPT ![r] = "inited"]
          /\ seen' = [seen EXCEPT ![r] = born']
      BY <1>7, <2>3 DEF GitInit, Initialize
    <2>5. \A s \in Requests \ {r} : pc'[s] \in {"idle", "called", "patching", "done"}
      BY <1>0, <2>1, <2>4 DEF TypeOK, Alone
    <2>6. pc'[r] = "inited" /\ seen'[r] = born'
      BY <1>0, <2>4 DEF TypeOK
    <2> QED
      BY <2>4, <2>5, <2>6 DEF Intact, Rest
  <1>3. SUFFICES ASSUME ~cut PROVE Intact'
    BY <1>0, <1>7, CutStays
  <1>2. /\ \A r \in Requests :
             /\ pc[r] = "free" => ~dir
             /\ pc[r] = "inited" => dir /\ tree = Entries /\ ~linked /\ seen[r] = born
             /\ pc[r] \in {"listing", "removing"} => kind[r] = "delete"
             /\ pc[r] = "removing" => tree \subseteq todo[r] /\ Rest(todo[r])
        /\ Rest(tree)
        /\ dir /\ (\A r \in Requests : pc[r] # "inited") =>
             /\ HooksDir \in tree => linked \/ unhooked
             /\ \/ tree = Entries
                \/ \E r \in Requests : pc[r] = "removing" /\ todo[r] = tree
    BY <1>0, <1>3 DEF Intact, Undisturbed
  <1>4. ASSUME NEW r \in Requests, NEW k \in Kinds, Begin(r, k) PROVE Intact'
    BY <1>0, <1>2, <1>4 DEF Begin, Intact, Rest, TypeOK
  <1>5. ASSUME NEW r \in Requests, CheckFree(r) PROVE Intact'
    BY <1>0, <1>2, <1>5 DEF CheckFree, Intact, Rest, TypeOK
  <1>6. ASSUME NEW r \in Requests, CheckExists(r) PROVE Intact'
    BY <1>0, <1>2, <1>6 DEF CheckExists, Intact, Rest, TypeOK
  <1>8. ASSUME NEW r \in Requests, GitInitFails(r) PROVE Intact'
    <2>1. UNCHANGED <<dir, tree, linked, unhooked, born, kind, todo, seen>>
      BY <1>0, <1>8 DEF GitInitFails
    <2>2. pc' = [pc EXCEPT ![r] = "done"] /\ pc[r] = "free" /\ ~dir
      BY <1>2, <1>8 DEF GitInitFails
    <2> QED
      BY <1>0, <1>2, <2>1, <2>2 DEF Intact, Rest, TypeOK
  <1>9. ASSUME NEW r \in Requests, LinkHook(r) \/ SkipHook(r) PROVE Intact'
    <2>1. Alone(r) /\ dir /\ tree = Entries /\ seen[r] = born
      BY <1>1, <1>2, <1>9 DEF LinkHook, SkipHook
    <2>2. dir' /\ tree' = Entries /\ (linked' \/ unhooked')
      BY <1>9, <2>1 DEF LinkHook, SkipHook
    <2>3. \A s \in Requests : pc'[s] \in {"idle", "called", "patching", "done"}
      <3>1. pc' = [pc EXCEPT ![r] = "done"]
        BY <1>9 DEF LinkHook, SkipHook
      <3> QED
        BY <1>0, <2>1, <3>1 DEF TypeOK, Alone
    <2> QED
      BY <2>2, <2>3 DEF Intact, Rest
  <1>10. ASSUME NEW r \in Requests, LinkRaises(r) PROVE Intact'
    <2>1. ~linked /\ HooksDir \in tree
      BY <1>2, <1>10, EntriesAssumption DEF LinkRaises
    <2> QED
      BY <1>0, <1>10, <2>1 DEF LinkRaises
  <1>11. ASSUME NEW r \in Requests, ListTree(r) PROVE Intact'
    BY <1>0, <1>2, <1>11 DEF ListTree, Intact, Rest, TypeOK
  <1>12. ASSUME NEW r \in Requests, RemoveEntry(r) PROVE Intact'
    <2> DEFINE e == Min(todo[r])
    <2>1. /\ e \in tree /\ tree' = tree \ {e}
          /\ linked' = (linked /\ e # HooksDir)
          /\ todo' = [todo EXCEPT ![r] = todo[r] \ {e}]
          /\ UNCHANGED <<dir, unhooked, kind, pc>>
          /\ pc[r] = "removing" /\ todo[r] # {}
      BY <1>12 DEF RemoveEntry
    <2>2. todo[r] \subseteq Entries /\ Entries \subseteq Nat
      BY <1>0, EntriesAssumption DEF TypeOK
    <2>3. e \in todo[r] /\ \A x \in todo[r] : e <= x
      BY <2>1, <2>2, MinIsLeast
    <2> HIDE DEF e
    <2>4. tree = todo[r]
      <3>1. tree \subseteq todo[r] /\ \A f \in Entries : e < f => f \in tree
        BY <1>2, <2>1 DEF Rest
      <3>2. ASSUME NEW x \in todo[r] PROVE x = e \/ e < x
        <4>1. x \in Nat /\ e \in Nat /\ e <= x
          BY <2>2, <2>3
        <4> QED
          BY <4>1
      <3> QED
        BY <2>1, <2>2, <3>1, <3>2
    <2>5. Rest(tree')
      <3> SUFFICES ASSUME NEW x \in tree, x # e, NEW f \in Entries, x < f
                   PROVE  f \in tree \ {e}
        BY <2>1 DEF Rest
      <3>1. f \in tree
        BY <1>2 DEF Rest
      <3>2. e <= x /\ e \in Nat /\ x \in Nat /\ f \in Nat
        BY <2>2, <2>3, <2>4
      <3>3. e # f
        BY <3>2
      <3> QED
        BY <3>1, <3>3
    <2>6. todo'[r] = tree' /\ pc'[r] = "removing"
      BY <1>0, <2>1, <2>4 DEF TypeOK
    <2>7. \A s \in Requests : pc[s] \notin {"free", "inited"}
      BY <1>1, <2>1 DEF Alone
    <2>8. HooksDir \in tree' => linked' \/ unhooked'
      BY <1>0, <1>2, <2>1, <2>7 DEF TypeOK
    <2>9. ASSUME NEW s \in Requests, pc'[s] = "removing"
          PROVE  tree' \subseteq todo'[s] /\ Rest(todo'[s])
      <3>1. CASE s = r
        BY <2>5, <2>6, <3>1
      <3>2. CASE s # r
        BY <1>0, <1>2, <2>1, <2>9, <3>2 DEF TypeOK
      <3> QED
        BY <3>1, <3>2
    <2> QED
      BY <1>2, <2>1, <2>5, <2>6, <2>7, <2>8, <2>9 DEF Intact
  <1>13. ASSUME NEW r \in Requests, RemoveRaises(r) PROVE Intact'
    <2>1. /\ UNCHANGED <<dir, tree, linked, unhooked, born, seen, kind>>
          /\ todo' = [todo EXCEPT ![r] = {}]
          /\ pc' = [pc EXCEPT ![r] = "done"]
          /\ pc[r] \in {"listing", "removing"}
      BY <1>13 DEF RemoveRaises, Raises
    <2>2. todo[r] # {} => Min(todo[r]) \in todo[r]
      <3>1. todo[r] \subseteq Entries
        BY <1>0 DEF TypeOK
      <3>2. todo[r] \subseteq Nat
        BY <3>1, EntriesAssumption
      <3> QED
        BY <3>2, MinIsLeast
    <2>3. ~ (dir /\ pc[r] = "removing" /\ todo[r] = tree)
      BY <1>13, <2>2 DEF RemoveRaises
    <2>4. \A s \in Requests : s # r => pc'[s] = pc[s] /\ todo'[s] = todo[s]
      BY <1>0, <2>1 DEF TypeOK
    <2>5. pc'[r] = "done"
      BY <1>0, <2>1 DEF TypeOK
    <2>6. \A s \in Requests :
            /\ pc'[s] = "free" => ~dir
            /\ pc'[s] = "inited" => dir /\ tree = Entries /\ ~linked /\ seen[s] = born
            /\ pc'[s] \in {"listing", "removing"} => kind[s] = "delete"
            /\ pc'[s] = "removing" => tree \subseteq todo'[s] /\ Rest(todo'[s])
      BY <1>2, <2>4, <2>5
    <2>7. dir /\ (\A s \in Requests : pc'[s] # "inited") =>
            /\ HooksDir \in tree => linked \/ unhooked
            /\ \/ tree = Entries
               \/ \E s \in Requests : pc'[s] = "removing" /\ todo'[s] = tree
      <3> SUFFICES ASSUME dir, \A s \in Requests : pc'[s] # "inited"
                   PROVE  /\ HooksDir \in tree => linked \/ unhooked
                          /\ \/ tree = Entries
                             \/ \E s \in Requests : pc'[s] = "removing" /\ todo'[s] = tree
        OBVIOUS
      <3>1. \A s \in Requests : pc[s] # "inited"
        BY <2>1, <2>4
      <3> QED
        BY <1>2, <2>3, <2>4, <3>1
    <2> QED
      BY <1>2, <2>1, <2>6, <2>7 DEF Intact
  <1>14. ASSUME NEW r \in Requests, RemoveFails(r) PROVE Intact'
    <2>1. pc[r] = "listing"
      BY <1>0, <1>14 DEF RemoveFails
    <2>2. /\ UNCHANGED <<dir, tree, linked, unhooked, born, seen, kind>>
          /\ todo' = [todo EXCEPT ![r] = {}]
          /\ pc' = [pc EXCEPT ![r] = "done"]
      BY <1>14 DEF RemoveFails, Raises
    <2> QED
      BY <1>0, <1>2, <2>1, <2>2 DEF Intact, Rest, TypeOK
  <1>15. ASSUME NEW r \in Requests, RemoveDir(r) PROVE Intact'
    <2>1. pc[r] = "removing" /\ kind[r] = "delete" /\ tree = {}
      BY <1>2, <1>15 DEF RemoveDir
    <2>2. /\ ~dir' /\ UNCHANGED <<tree, todo, kind>>
          /\ pc' = [pc EXCEPT ![r] = "dropped"]
      BY <1>15, <2>1 DEF RemoveDir
    <2>3. \A s \in Requests : pc[s] # "inited"
      BY <1>1, <2>1 DEF Alone
    <2> QED
      BY <1>0, <1>2, <2>1, <2>2, <2>3 DEF Intact, Rest, TypeOK
  <1>16. ASSUME NEW r \in Requests, DropVariables(r) PROVE Intact'
    BY <1>0, <1>2, <1>16 DEF DropVariables, Intact, Rest, TypeOK, Places
  <1>17. ASSUME NEW r \in Requests, DropFails(r) \/ PatchFails(r) PROVE Intact'
    BY <1>0, <1>2, <1>17 DEF DropFails, PatchFails, Intact, Rest, TypeOK
  <1>18. ASSUME NEW r \in Requests, DeleteLogs(r) PROVE Intact'
    BY <1>0, <1>2, <1>18 DEF DeleteLogs, Intact, Rest, TypeOK
  <1>19. ASSUME NEW r \in Requests, PatchVariables(r) PROVE Intact'
    BY <1>0, <1>2, <1>19 DEF PatchVariables, Intact, Rest, TypeOK
  <1>20. CASE ServiceStop
    <2>1. \A r \in Requests : pc[r] \notin {"inited", "removing"}
      BY <1>0, <1>20 DEF ServiceStop
    <2>2. /\ \A r \in Requests : pc'[r] \in {"idle", "done"}
          /\ UNCHANGED <<dir, tree, linked, unhooked>>
      BY <1>20 DEF ServiceStop
    <2> QED
      BY <1>2, <2>1, <2>2 DEF Intact, Rest
  <1>21. CASE UNCHANGED vars
    BY <1>2, <1>21 DEF vars, repo, content, Intact, Rest
  <1> QED
    BY <1>4, <1>5, <1>6, <1>7, <1>8, <1>9, <1>10, <1>11, <1>12, <1>13, <1>14,
       <1>15, <1>16, <1>17, <1>18, <1>19, <1>20, <1>21
       DEF Next, Creation, Removal, Deletion, Patching

\* What LinkHook or SkipHook answers 201 was complete before it, and is left alone by those
\* who find it.
LEMMA LastingStep == IInv /\ [Next]_vars => Lasting'
  <1> DEFINE Ante == {"create"} \notin met /\ \A s \in Requests : kind[s] # "delete"
             Now(r) == /\ pc[r] = "inited" => dir /\ tree = Entries /\ seen[r] = born
                       /\ reply[r] = 201 =>
                            /\ Complete
                            /\ \A s \in Requests : Active(s) => kind[s] # "create"
  <1> SUFFICES ASSUME IInv, [Next]_vars, Ante' 
               PROVE  \A r \in Requests : kind'[r] = "create" => Now(r)'
    BY DEF Lasting
  <1>0. TypeOK /\ Places /\ Overlaps /\ Lasting /\ Places' /\ Overlaps'
    BY PlacesStep, OverlapsStep DEF IInv
  <1>1. \A s \in Requests : kind'[s] = kind[s] \/ kind[s] = None
    BY <1>0 DEF TypeOK, Places, Next, vars, repo, content, Begin, Creation,
           CheckFree, GitInit, GitInitFails, LinkHook, SkipHook, LinkRaises, Removal, ListTree, RemoveEntry,
           RemoveRaises, RemoveFails, RemoveDir, Raises, Deletion, CheckExists,
           DropVariables, DropFails, DeleteLogs, Patching, PatchVariables,
           PatchFails, ServiceStop
  <1>2. Ante
    BY <1>1, MetGrows, NoneAssumption DEF Kinds
  <1>3. \A r \in Requests : kind[r] = "create" => Now(r)
    BY <1>0, <1>2 DEF Lasting
  <1>4. \A r, s \in Requests : r # s /\ Active(r) /\ Active(s) /\ kind[r] = "create"
          => kind[s] # "create"
    <2> SUFFICES ASSUME NEW r \in Requests, NEW s \in Requests, r # s, Active(r),
                        Active(s), kind[r] = "create", kind[s] = "create"
                 PROVE  FALSE
      OBVIOUS
    <2>1. {kind[r], kind[s]} = {"create"} /\ {kind[r], kind[s]} \in met
      BY <1>0 DEF Overlaps
    <2> QED
      BY <1>2, <2>1
  <1> HIDE DEF Ante
  <1> USE DEF Goto, Answer, repo, content, Active
  <1>5. ASSUME NEW r \in Requests, NEW k \in Kinds, Begin(r, k)
        PROVE  \A s \in Requests : kind'[s] = "create" => Now(s)'
    BY <1>0, <1>3, <1>5 DEF Begin, TypeOK, Places, Complete
  <1>6. ASSUME NEW r \in Requests, CheckFree(r)
        PROVE  \A s \in Requests : kind'[s] = "create" => Now(s)'
    BY <1>0, <1>3, <1>6 DEF CheckFree, TypeOK, Places, Complete
  <1>7. ASSUME NEW r \in Requests, CheckExists(r)
        PROVE  \A s \in Requests : kind'[s] = "create" => Now(s)'
    BY <1>0, <1>3, <1>7 DEF CheckExists, TypeOK, Places, Complete
  <1>8. ASSUME NEW r \in Requests, Active(r), kind[r] = "create"
        PROVE  \A s \in Requests \ {r} :
                 kind[s] = "create" => reply[s] # 201 /\ ~Active(s)
    BY <1>3, <1>4, <1>8
  <1>9. ASSUME NEW r \in Requests,
               \/ GitInit(r) \/ GitInitFails(r)
               \/ LinkHook(r) \/ SkipHook(r) \/ LinkRaises(r)
        PROVE  \A s \in Requests : kind'[s] = "create" => Now(s)'
    <2>1. Active(r) /\ kind[r] = "create" /\ UNCHANGED kind
      BY <1>0, <1>9 DEF GitInit, GitInitFails, LinkHook, SkipHook, LinkRaises, Places
    <2>2. /\ \A s \in Requests \ {r} : pc'[s] = pc[s] /\ reply'[s] = reply[s]
          /\ pc'[r] = "inited" => dir' /\ tree' = Entries /\ seen'[r] = born'
          /\ reply'[r] = 201 => (LinkHook(r) \/ SkipHook(r)) /\ ~Active(r)'
      BY <1>0, <1>9 DEF GitInit, GitInitFails, LinkHook, SkipHook, LinkRaises, TypeOK,
                        Places, Initialize
    <2>3. LinkHook(r) \/ SkipHook(r) => Complete'
      <3>1. pc[r] = "inited" => dir /\ tree = Entries /\ seen[r] = born
        BY <1>3, <2>1
      <3>2. LinkHook(r) => Complete'
        BY <3>1 DEF LinkHook, Complete
      <3>3. SkipHook(r) => Complete'
        <4>1. SkipHook(r) => dir' = dir /\ tree' = tree /\ (dir /\ seen[r] = born => unhooked')
          BY Zenon DEF SkipHook
        <4> QED
          BY <3>1, <4>1 DEF SkipHook, Complete
      <3> QED
        BY <3>2, <3>3
    <2> QED
      BY <1>8, <2>1, <2>2, <2>3
  <1>10. ASSUME NEW r \in Requests, Removal(r)
         PROVE  \A s \in Requests : kind'[s] = "create" => Now(s)'
    <2>1. Active(r) /\ kind[r] = "create" /\ UNCHANGED kind
      <3>1. Active(r) /\ kind[r] \in {"create", "delete"} /\ UNCHANGED kind
        BY <1>0, <1>10 DEF Removal, ListTree, RemoveEntry, RemoveRaises, RemoveFails,
                           RemoveDir, Raises, Places
      <3> QED
        BY <1>2, <3>1 DEF Ante
    <2>2. /\ \A s \in Requests \ {r} : pc'[s] = pc[s] /\ reply'[s] = reply[s]
          /\ pc'[r] # "inited" /\ reply'[r] # 201
      BY <1>0, <1>10, <2>1
         DEF Removal, ListTree, RemoveEntry, RemoveRaises, RemoveFails, RemoveDir,
             Raises, TypeOK, Places, Raised
    <2> QED
      BY <1>8, <2>1, <2>2
  <1>11. ASSUME NEW r \in Requests, DropVariables(r) \/ DropFails(r) \/ DeleteLogs(r)
         PROVE  FALSE
    BY <1>0, <1>2, <1>11 DEF DropVariables, DropFails, DeleteLogs, Places, Ante
  <1>12. ASSUME NEW r \in Requests, PatchVariables(r) \/ PatchFails(r)
         PROVE  \A s \in Requests : kind'[s] = "create" => Now(s)'
    BY <1>0, <1>3, <1>12 DEF PatchVariables, PatchFails, TypeOK, Places, Complete
  <1>13. CASE ServiceStop
    BY <1>0, <1>3, <1>13 DEF ServiceStop, TypeOK, Places, Complete
  <1>14. CASE UNCHANGED vars
    BY <1>3, <1>14 DEF vars, repo, content, Complete
  <1> QED
    BY <1>5, <1>6, <1>7, <1>9, <1>10, <1>11, <1>12, <1>13, <1>14
       DEF Next, Creation, Deletion, Patching

------------------------------------------------------------------------------
\* IInv holds in every reachable state: in particular, a patch that no
\* removal overlaps always writes for the repository that is there.
THEOREM Inductive == Spec => []IInv
  <1>1. IInv /\ [Next]_vars => IInv'
    BY TypeStep, PlacesStep, OverlapsStep, VariablesStep, GenerationsStep,
       IntactStep, LastingStep DEF IInv
  <1> QED
    BY InitInv, <1>1, PTL DEF Spec

\* Types; and nothing is in a directory that does not exist.
THEOREM TypeCorrect == Spec => []TypeOK
  <1>1. IInv => TypeOK
    BY DEF IInv
  <1> QED
    BY <1>1, Inductive, PTL

\* delete_bare_repo clears the variables before it removes the directory, so
\* that no failure, stop or concurrent deletion leaves them to a later
\* repository of the name; only an overlapping patch can.
THEOREM VariablesFollow == Spec => []VariablesFollowRepo
  <1>1. IInv => VariablesFollowRepo
    BY DEF IInv
  <1> QED
    BY <1>1, Inductive, PTL

\* A deletion is answered 200 only when its repository is gone for good.
THEOREM DeletionIsFinal == Spec => []DeletedIsGone
  <1>1. IInv => DeletedIsGone
    BY DEF IInv
  <1> QED
    BY <1>1, Inductive, PTL

\* Unless creations overlap one another or a deletion, or a stop or a failing
\* call cuts a creation or a removal short, a repository nobody is working on
\* is complete; overlapping deletions included, of which one gets to the end
\* (create_bare_repo, delete_bare_repo).
THEOREM CreationsComplete == Spec => []CreatedIsComplete
  <1>1. IInv => CreatedIsComplete
    <2> SUFFICES ASSUME IInv, Undisturbed, dir,
                        \A r \in Requests : Active(r) => kind[r] = "patch"
                 PROVE  Complete
      BY DEF CreatedIsComplete
    <2>1. \A r \in Requests : pc[r] \notin {"inited", "removing"}
      BY DEF IInv, Places, Active
    <2> QED
      BY <2>1, EntriesAssumption DEF IInv, Intact, Complete
  <1> QED
    BY <1>1, Inductive, PTL

\* What a creation has answered 201, with its hook or for want of one without,
\* stays, whatever fails and wherever the service
\* stops, as long as creations do not overlap and nobody deletes.
THEOREM CreationsStay == Spec => []CreatedStays
  <1>1. IInv => CreatedStays
    BY DEF IInv, Lasting, CreatedStays, Kept
  <1> QED
    BY <1>1, Inductive, PTL

==============================================================================
