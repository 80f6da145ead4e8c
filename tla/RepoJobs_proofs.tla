--------------------------- MODULE RepoJobs_proofs ---------------------------
(***************************************************************************)
(* Proofs about RepoJobs for any number of requests and jobs.  Its steps   *)
(* are steps of RepoLifecycle or leave the repository alone, so what is    *)
(* proved there holds here; what is proved here is about the logs and the  *)
(* variables that jobs use.                                                *)
(***************************************************************************)
EXTENDS RepoJobs, RepoLifecycle_proofs

States == {"none", "queued", "failing", "running", "done"}

JobsTypeOK ==
  /\ job \in [Jobs -> States]
  /\ gen \in [Jobs -> Nat] /\ used \in [Jobs -> Nat]
  /\ logDir \in BOOLEAN /\ logs \subseteq Jobs
  /\ wiping \subseteq Requests /\ wipes \in [Requests -> SUBSET Jobs]
  /\ removed \in [Requests -> Nat]
  /\ late \subseteq Jobs /\ taken \subseteq Jobs

\* A job was pushed to a repository that was there; before, it has no trace.
Pushed ==
  /\ dir => born > 0
  /\ \A j \in Jobs :
       /\ gen[j] <= born
       /\ job[j] = "none" => used[j] = 0 /\ j \notin logs
       /\ job[j] # "none" => gen[j] > 0

\* Who removed a repository has nothing left to do but to wipe its logs.
Removers ==
  \A r \in Requests : removed[r] # 0 => pc[r] \in {"dropped", "done"}

\* A repository that is there while a deletion wipes logs was created meanwhile.
Crossed ==
  \A r \in Requests : pc[r] = "dropped" /\ dir => {"create", "delete"} \in met

JInv ==
  /\ IInv
  /\ JobsTypeOK
  /\ Pushed
  /\ Removers
  /\ Crossed
  /\ logs # {} => logDir
  /\ LogsFollowRepo
  /\ JobUsesOwnVariables

------------------------------------------------------------------------------
\* Every step is one of RepoLifecycle or none: of the steps of the removal of
\* the logs, the one that answers is DeleteLogs.
LEMMA Simulation == [JobsNext]_allvars => [Next]_vars
  <1> SUFFICES ASSUME [JobsNext]_allvars PROVE [Next]_vars
    OBVIOUS
  <1>1. ASSUME NEW r \in Requests, OtherSteps(r) PROVE Next
    BY <1>1 DEF OtherSteps, Next, Removal, Deletion
  <1>2. ASSUME NEW r \in Requests, RemoveRepo(r) PROVE Next
    BY <1>2 DEF RemoveRepo, Next, Removal
  <1>3. ASSUME NEW r \in Requests, Wiping(r) PROVE [Next]_vars
    <2>1. CASE NoLogs(r) \/ WipeDir(r) \/ WipeRaises(r)
      <3>1. DeleteLogs(r)
        BY <2>1 DEF NoLogs, WipeDir, WipeRaises, DeleteLogs
      <3> QED
        BY <3>1 DEF Next, Deletion
    <2>2. CASE ListLogs(r) \/ \E j \in Jobs : WipeLog(r, j)
      BY <2>2 DEF ListLogs, WipeLog
    <2> QED
      BY <1>3, <2>1, <2>2 DEF Wiping
  <1>4. ASSUME NEW j \in Jobs, Execution(j) PROVE UNCHANGED vars
    BY <1>4 DEF Execution, Push, Materialize, Diagnose, WriteLog, MakeLog,
                LoadVariables, Finish
  <1>5. CASE JobsStop
    BY <1>5 DEF JobsStop, Next
  <1>6. CASE UNCHANGED allvars
    BY <1>6 DEF allvars
  <1> QED
    BY <1>1, <1>2, <1>3, <1>4, <1>5, <1>6 DEF JobsNext

\* A directory comes into being with a new generation, by a creation.
LEMMA Births ==
  TypeOK /\ [Next]_vars =>
    \/ born' = born /\ (dir' => dir)
    \/ /\ ~dir /\ dir' /\ born' = born + 1
       /\ \E s \in Requests : pc[s] = "free" /\ pc'[s] # "dropped"
  <1> SUFFICES ASSUME TypeOK, [Next]_vars
               PROVE  \/ born' = born /\ (dir' => dir)
                      \/ /\ ~dir /\ dir' /\ born' = born + 1
                         /\ \E s \in Requests : pc[s] = "free" /\ pc'[s] # "dropped"
    OBVIOUS
  <1>1. ASSUME NEW s \in Requests, GitInit(s) \/ GitInitFails(s)
        PROVE  \/ born' = born /\ (dir' => dir)
               \/ ~dir /\ dir' /\ born' = born + 1 /\ pc[s] = "free" /\ pc'[s] # "dropped"
    BY <1>1 DEF GitInit, GitInitFails, Initialize, TypeOK, Goto, Answer, repo, content
  <1>2. ASSUME NEW r \in Requests, RemoveDir(r) PROVE born' = born /\ ~dir'
    BY <1>2 DEF RemoveDir
  <1>3. ASSUME NEW r \in Requests,
               \/ \E k \in Kinds : Begin(r, k)
               \/ CheckFree(r) \/ LinkHook(r) \/ SkipHook(r) \/ LinkRaises(r)
               \/ ListTree(r) \/ RemoveEntry(r) \/ RemoveRaises(r) \/ RemoveFails(r)
               \/ Deletion(r) \/ Patching(r)
        PROVE  born' = born /\ dir' = dir
    BY <1>3 DEF Begin, CheckFree, LinkHook, SkipHook, LinkRaises, ListTree, RemoveEntry,
                RemoveRaises, RemoveFails, Raises, Deletion, CheckExists, DropVariables,
                DropFails, DeleteLogs, Patching, PatchVariables, PatchFails, repo, content
  <1>4. CASE ServiceStop \/ UNCHANGED vars
    BY <1>4 DEF ServiceStop, vars, repo, content
  <1> QED
    BY <1>1, <1>2, <1>3, <1>4 DEF Next, Creation, Removal

\* Whose directory was removed stays without it.
LEMMA OwnStays ==
  ASSUME TypeOK, [Next]_vars, NEW j \in Jobs, gen[j] \in Nat, gen[j] <= born,
         gen'[j] = gen[j], ~Own(j)
  PROVE  ~Own(j)'
  BY Births DEF Own, TypeOK

\* The steps but RemoveRepo neither remove the directory nor let a request reach
\* the logs; what they answer is not the answer of one that has.
LEMMA Others ==
  ASSUME TypeOK, Places, NEW r \in Requests, OtherSteps(r)
  PROVE  /\ dir => dir' /\ born' = born
         /\ \A q \in Requests :
              /\ pc'[q] = "dropped" => pc[q] = "dropped"
              /\ pc[q] \in {"dropped", "done"} => pc'[q] = pc[q] /\ reply'[q] = reply[q]
  <1> USE DEF TypeOK, Goto, Answer, repo, content
  <1>1. ASSUME NEW k \in Kinds, Begin(r, k)
        PROVE  /\ dir' = dir /\ born' = born
               /\ \A q \in Requests :
                    /\ pc'[q] = "dropped" => pc[q] = "dropped"
                    /\ pc[q] \in {"dropped", "done"} =>
                         pc'[q] = pc[q] /\ reply'[q] = reply[q]
    BY <1>1 DEF Begin
  <1>2. CASE CheckFree(r) \/ CheckExists(r)
    BY <1>2 DEF CheckFree, CheckExists
  <1>3. CASE GitInit(r) \/ GitInitFails(r)
    BY <1>3 DEF GitInit, GitInitFails, Initialize
  <1>4. CASE LinkHook(r) \/ SkipHook(r) \/ LinkRaises(r) \/ Patching(r)
    BY <1>4 DEF LinkHook, SkipHook, LinkRaises, Patching, PatchVariables, PatchFails
  <1>5. CASE ListTree(r) \/ RemoveEntry(r)
    BY <1>5 DEF ListTree, RemoveEntry
  <1>6. CASE RemoveRaises(r) \/ RemoveFails(r)
    BY <1>6 DEF RemoveRaises, RemoveFails, Raises
  <1>7. CASE DropVariables(r) \/ DropFails(r)
    BY <1>7 DEF DropVariables, DropFails
  <1> QED
    BY <1>1, <1>2, <1>3, <1>4, <1>5, <1>6, <1>7 DEF OtherSteps, Creation

------------------------------------------------------------------------------
LEMMA JobsInitInv == JobsInit => JInv
  <1> SUFFICES ASSUME JobsInit PROVE JInv
    OBVIOUS
  <1>1. IInv
    BY InitInv DEF JobsInit
  <1>2. JobsTypeOK
    BY DEF JobsInit, JobsTypeOK, States
  <1>3. Pushed
    BY DEF JobsInit, Init, Pushed
  <1>4. Removers /\ Crossed
    BY DEF JobsInit, Init, Removers, Crossed
  <1>5. (logs # {} => logDir) /\ LogsFollowRepo /\ JobUsesOwnVariables
    BY DEF JobsInit, LogsFollowRepo, JobUsesOwnVariables
  <1> QED
    BY <1>1, <1>2, <1>3, <1>4, <1>5 DEF JInv

LEMMA OtherInv ==
  ASSUME JInv, IInv', NEW r \in Requests, OtherSteps(r)
  PROVE  JInv'
  <1> USE DEF JInv
  <1>0. /\ TypeOK /\ Places /\ Overlaps /\ [Next]_vars
        /\ UNCHANGED <<logvars, jobvars, removed>>
    BY DEF IInv, OtherSteps, Next, Removal, Deletion
  <1>1. \A j \in Jobs : ~Own(j) => ~Own(j)'
    BY <1>0, OwnStays DEF JobsTypeOK, Pushed, jobvars
  <1>2. JobsTypeOK' /\ (logs # {} => logDir)'
    BY <1>0 DEF JobsTypeOK, logvars, jobvars
  <1>3. Pushed'
    BY <1>0, Births DEF Pushed, TypeOK, JobsTypeOK, logvars, jobvars
  <1>4. Removers'
    BY <1>0, Others DEF Removers
  <1>5. met \subseteq met'
    BY <1>0, MetGrows
  <1>6. Crossed'
    <2> SUFFICES ASSUME NEW q \in Requests, pc'[q] = "dropped", dir'
                 PROVE  {"create", "delete"} \in met'
      BY DEF Crossed
    <2>1. pc[q] = "dropped"
      BY <1>0, Others
    <2>2. CASE dir
      BY <2>1, <2>2, <1>5 DEF Crossed
    <2>3. CASE ~dir
      <3>1. PICK s \in Requests : pc[s] = "free"
        BY <1>0, <2>3, Births
      <3>2. {kind[s], kind[q]} \in met
        BY <1>0, <2>1, <3>1 DEF Overlaps, Active
      <3>3. kind[s] = "create" /\ kind[q] = "delete"
        BY <1>0, <2>1, <3>1 DEF Places
      <3> QED
        BY <3>2, <3>3, <1>5
    <2> QED
      BY <2>2, <2>3
  <1>7. LogsFollowRepo'
    <2>1. ASSUME NEW j \in logs
          PROVE  \/ Own(j)' \/ j \in late
                 \/ \E q \in Requests : removed[q] = gen[j] /\ reply'[q] # 200
      <3>1. CASE Own(j)
        BY <1>0, <3>1, Others DEF Own, jobvars
      <3>2. ASSUME NEW q \in Requests, removed[q] = gen[j], reply[q] # 200
            PROVE  reply'[q] # 200
        <4>1. removed[q] # 0
          BY <3>2 DEF Pushed, JobsTypeOK
        <4> QED
          BY <1>0, <3>2, <4>1, Others DEF Removers
      <3> QED
        BY <3>1, <3>2 DEF LogsFollowRepo
    <2> QED
      BY <1>0, <1>5, <2>1 DEF LogsFollowRepo, logvars, jobvars
  <1>8. JobUsesOwnVariables'
    BY <1>0, <1>1, <1>5 DEF JobUsesOwnVariables, jobvars
  <1> QED
    BY <1>2, <1>3, <1>4, <1>6, <1>7, <1>8

LEMMA RemoveRepoInv ==
  ASSUME JInv, IInv', NEW r \in Requests, RemoveRepo(r)
  PROVE  JInv'
  <1> USE DEF JInv
  <1>0. /\ TypeOK /\ Places
        /\ pc[r] = "removing" /\ dir /\ ~dir'
        /\ UNCHANGED <<born, met, logDir, logs, wiping, wipes, taken, job, gen, used, late>>
        /\ removed' = [removed EXCEPT ![r] = born]
    BY DEF IInv, RemoveRepo, RemoveDir, logvars, jobvars
  <1>1. /\ pc'[r] \in {"dropped", "done"} /\ reply'[r] # 200
        /\ \A q \in Requests \ {r} : pc'[q] = pc[q] /\ reply'[q] = reply[q]
    BY <1>0 DEF RemoveRepo, RemoveDir, Answer, Goto, TypeOK, Places
  <1>2. JobsTypeOK' /\ (logs # {} => logDir)'
    BY <1>0 DEF JobsTypeOK, TypeOK
  <1>3. Pushed'
    BY <1>0 DEF Pushed
  <1>4. Removers' /\ Crossed'
    BY <1>0, <1>1 DEF Removers, Crossed, JobsTypeOK
  <1>5. LogsFollowRepo'
    <2>1. ASSUME NEW j \in logs
          PROVE  \/ j \in late
                 \/ \E q \in Requests : removed'[q] = gen[j] /\ reply'[q] # 200
      <3>1. CASE Own(j)
        BY <1>0, <1>1, <3>1 DEF Own, JobsTypeOK
      <3>2. ASSUME NEW q \in Requests, removed[q] = gen[j], reply[q] # 200
            PROVE  removed'[q] = gen[j] /\ reply'[q] # 200
        <4>1. removed[q] # 0
          BY <3>2 DEF Pushed, JobsTypeOK
        <4>2. q # r
          BY <1>0, <4>1 DEF Removers
        <4> QED
          BY <1>0, <1>1, <3>2, <4>2 DEF JobsTypeOK
      <3> QED
        BY <3>1, <3>2 DEF LogsFollowRepo
    <2> QED
      BY <1>0, <2>1 DEF LogsFollowRepo
  <1>6. JobUsesOwnVariables'
    BY <1>0 DEF JobUsesOwnVariables, Own
  <1> QED
    BY <1>2, <1>3, <1>4, <1>5, <1>6

LEMMA WipingInv ==
  ASSUME JInv, IInv', NEW r \in Requests, Wiping(r)
  PROVE  JInv'
  <1> USE DEF JInv
  <1>0. /\ TypeOK /\ pc[r] = "dropped"
        /\ UNCHANGED <<dir, born, met, job, gen, used, late, removed>>
        /\ \A q \in Requests :
             /\ pc'[q] = "dropped" => pc[q] = "dropped"
             /\ pc[q] \in {"dropped", "done"} => pc'[q] \in {"dropped", "done"}
             /\ q # r => reply'[q] = reply[q]
    BY DEF IInv, Wiping, NoLogs, ListLogs, WipeLog, WipeDir, WipeRaises, Answer, TypeOK,
           vars, repo, content, jobvars
  <1>1. /\ logs' \subseteq logs /\ (logs' # {} => logDir')
        /\ logs' # {} => reply'[r] # 200
    <2>1. reply[r] = 0
      BY <1>0 DEF IInv, Places
    <2>2. CASE NoLogs(r)
      BY <2>2 DEF NoLogs, logvars
    <2>3. CASE ListLogs(r)
      BY <2>1, <2>3 DEF ListLogs, vars
    <2>4. CASE \E j \in Jobs : WipeLog(r, j)
      BY <2>1, <2>4 DEF WipeLog, vars
    <2>5. CASE WipeDir(r)
      BY <2>5 DEF WipeDir
    <2>6. CASE WipeRaises(r)
      BY <2>6, <1>0 DEF WipeRaises, Answer, Raised, TypeOK
    <2> QED
      BY <2>2, <2>3, <2>4, <2>5, <2>6 DEF Wiping
  <1>2. JobsTypeOK'
    <2>1. CASE NoLogs(r)
      BY <2>1, <1>0 DEF NoLogs, JobsTypeOK, logvars
    <2>2. CASE ListLogs(r)
      BY <2>2, <1>0 DEF ListLogs, JobsTypeOK
    <2>3. ASSUME NEW j \in Jobs, WipeLog(r, j) PROVE JobsTypeOK'
      BY <2>3, <1>0 DEF WipeLog, JobsTypeOK
    <2>4. CASE WipeDir(r) \/ WipeRaises(r)
      BY <2>4, <1>0 DEF WipeDir, WipeRaises, JobsTypeOK
    <2> QED
      BY <2>1, <2>2, <2>3, <2>4 DEF Wiping
  <1>3. Pushed'
    BY <1>0, <1>1 DEF Pushed
  <1>4. Removers' /\ Crossed'
    BY <1>0 DEF Removers, Crossed
  <1>5. LogsFollowRepo'
    <2>1. taken' # {} => {"create", "delete"} \in met
      <3>1. ASSUME NEW j \in Jobs, WipeLog(r, j), Own(j)
            PROVE  {"create", "delete"} \in met
        BY <1>0, <3>1 DEF Own, Crossed
      <3>2. ASSUME NEW j \in Jobs, WipeLog(r, j), ~Own(j) PROVE taken' = taken
        BY <3>2 DEF WipeLog
      <3>3. CASE NoLogs(r) \/ ListLogs(r) \/ WipeDir(r) \/ WipeRaises(r)
        BY <3>3 DEF NoLogs, ListLogs, WipeDir, WipeRaises, logvars, LogsFollowRepo
      <3> QED
        BY <3>1, <3>2, <3>3 DEF Wiping, LogsFollowRepo
    <2>2. ASSUME NEW j \in logs'
          PROVE  \/ Own(j)' \/ j \in late
                 \/ \E q \in Requests : removed[q] = gen[j] /\ reply'[q] # 200
      BY <1>0, <1>1, <2>2 DEF LogsFollowRepo, Own
    <2> QED
      BY <1>0, <2>1, <2>2 DEF LogsFollowRepo
  <1>6. JobUsesOwnVariables'
    BY <1>0 DEF JobUsesOwnVariables, Own
  <1> QED
    BY <1>1, <1>2, <1>3, <1>4, <1>5, <1>6

LEMMA ExecutionInv ==
  ASSUME JInv, IInv', NEW j \in Jobs, Execution(j)
  PROVE  JInv'
  <1> USE DEF JInv
  <1>0. /\ TypeOK /\ VariablesFollowRepo
        /\ UNCHANGED <<dir, born, vals, pc, reply, met, removed, wiping, wipes, taken>>
    BY DEF IInv, Execution, Push, Materialize, Diagnose, WriteLog, MakeLog, LoadVariables,
           Finish, vars, repo, content, logvars
  <1>1. Removers' /\ Crossed'
    BY <1>0 DEF Removers, Crossed
  <1>2. CASE Push(j)
    <2>1. /\ job[j] = "none" /\ dir
          /\ job' = [job EXCEPT ![j] = "queued"] /\ gen' = [gen EXCEPT ![j] = born]
          /\ UNCHANGED <<logDir, logs, used, late>>
      BY <1>2 DEF Push, logvars
    <2>2. JobsTypeOK' /\ (logs # {} => logDir)'
      BY <1>0, <2>1 DEF JobsTypeOK, TypeOK, States
    <2>3. Pushed'
      BY <1>0, <2>1 DEF Pushed, JobsTypeOK, TypeOK
    <2>4. LogsFollowRepo'
      <3>1. \A i \in logs : i \in Jobs /\ gen'[i] = gen[i]
        BY <2>1 DEF Pushed, JobsTypeOK
      <3> QED
        BY <1>0, <2>1, <3>1 DEF LogsFollowRepo, Own
    <2>5. JobUsesOwnVariables'
      <3>1. used[j] = 0
        BY <2>1 DEF Pushed
      <3> QED
        BY <1>0, <2>1, <3>1 DEF JobUsesOwnVariables, Own, JobsTypeOK
    <2> QED
      BY <1>1, <2>2, <2>3, <2>4, <2>5
  <1>3. CASE Materialize(j) \/ Finish(j)
    <2>1. /\ job[j] # "none"
          /\ UNCHANGED <<logDir, logs, gen, used, late>>
          /\ \E s \in States \ {"none"} : job' = [job EXCEPT ![j] = s]
      BY <1>3 DEF Materialize, Finish, logvars, States
    <2>2. JobsTypeOK' /\ (logs # {} => logDir)'
      BY <1>0, <2>1 DEF JobsTypeOK
    <2>3. Pushed'
      BY <1>0, <2>1 DEF Pushed, JobsTypeOK
    <2>4. LogsFollowRepo' /\ JobUsesOwnVariables'
      BY <1>0, <2>1 DEF LogsFollowRepo, JobUsesOwnVariables, Own
    <2> QED
      BY <1>1, <2>2, <2>3, <2>4
  <1>4. CASE Diagnose(j) \/ WriteLog(j)
    <2>1. /\ job[j] # "none"
          /\ logDir' = TRUE /\ logs' = logs \cup {j}
          /\ late' = IF Own(j) THEN late ELSE late \cup {j}
          /\ UNCHANGED <<gen, used>>
          /\ \E s \in States \ {"none"} : job' = [job EXCEPT ![j] = s]
      BY <1>4 DEF Diagnose, WriteLog, MakeLog, States, JobsTypeOK
    <2>2. JobsTypeOK' /\ (logs # {} => logDir)'
      BY <1>0, <2>1 DEF JobsTypeOK
    <2>3. Pushed'
      BY <1>0, <2>1 DEF Pushed, JobsTypeOK
    <2>4. LogsFollowRepo' /\ JobUsesOwnVariables'
      BY <1>0, <2>1 DEF LogsFollowRepo, JobUsesOwnVariables, Own
    <2> QED
      BY <1>1, <2>2, <2>3, <2>4
  <1>5. CASE LoadVariables(j)
    <2>1. /\ job[j] = "running"
          /\ used' = [used EXCEPT ![j] = vals]
          /\ UNCHANGED <<logDir, logs, gen, late, job>>
      BY <1>5 DEF LoadVariables, logvars
    <2>2. JobsTypeOK' /\ (logs # {} => logDir)'
      BY <1>0, <2>1 DEF JobsTypeOK, TypeOK
    <2>3. Pushed'
      BY <1>0, <2>1 DEF Pushed, JobsTypeOK
    <2>4. LogsFollowRepo'
      BY <1>0, <2>1 DEF LogsFollowRepo, Own
    <2>5. JobUsesOwnVariables'
      <3>1. \/ vals \in {0, gen[j]}
            \/ ~Own(j)
            \/ {"patch", "delete"} \in met \/ {"patch", "create"} \in met
        BY <1>0 DEF VariablesFollowRepo, Own
      <3> QED
        BY <1>0, <2>1, <3>1 DEF JobUsesOwnVariables, Own, JobsTypeOK
    <2> QED
      BY <1>1, <2>2, <2>3, <2>4, <2>5
  <1> QED
    BY <1>2, <1>3, <1>4, <1>5 DEF Execution

LEMMA StopInv == JInv /\ IInv' /\ (JobsStop \/ UNCHANGED allvars) => JInv'
  <1> SUFFICES ASSUME JInv, IInv', JobsStop \/ UNCHANGED allvars PROVE JInv'
    OBVIOUS
  <1> USE DEF JInv
  <1>0. /\ TypeOK
        /\ UNCHANGED <<dir, born, reply, met, logDir, logs, taken, job, gen, used, late,
                       removed>>
        /\ wiping' \subseteq wiping /\ (wipes' = wipes \/ wipes' = [r \in Requests |-> {}])
        /\ \A q \in Requests : pc'[q] = pc[q] \/ (pc[q] # "idle" /\ pc'[q] = "done")
    BY DEF IInv, JobsStop, ServiceStop, allvars, vars, logvars, jobvars, repo, content,
           TypeOK
  <1>1. JobsTypeOK' /\ (logs # {} => logDir)' /\ Pushed'
    BY <1>0 DEF JobsTypeOK, Pushed
  <1>2. Removers' /\ Crossed'
    BY <1>0 DEF Removers, Crossed
  <1>3. LogsFollowRepo' /\ JobUsesOwnVariables'
    BY <1>0 DEF LogsFollowRepo, JobUsesOwnVariables, Own
  <1> QED
    BY <1>1, <1>2, <1>3

------------------------------------------------------------------------------
\* The repository behaves as in RepoLifecycle, whatever jobs run beside it.
THEOREM Implements == JobsSpec => Spec
  <1>1. JobsInit => Init
    BY DEF JobsInit
  <1> QED
    BY <1>1, Simulation, PTL DEF JobsSpec, Spec

\* JInv holds in every reachable state: logs that nobody wipes any more have a
\* repository, and a deletion that wipes logs beside a repository has met the
\* creation of it.
THEOREM JobsInductive == JobsSpec => []JInv
  <1>1. JInv /\ [JobsNext]_allvars => JInv'
    <2> SUFFICES ASSUME JInv, [JobsNext]_allvars PROVE JInv'
      OBVIOUS
    <2>1. IInv'
      BY Simulation, TypeStep, PlacesStep, OverlapsStep, VariablesStep, GenerationsStep,
         IntactStep, LastingStep
         DEF JInv, IInv
    <2> QED
      BY <2>1, OtherInv, RemoveRepoInv, WipingInv, ExecutionInv, StopInv DEF JobsNext
  <1> QED
    BY JobsInitInv, <1>1, PTL DEF JobsSpec

\* The logs that are there belong to the repository that is there, were made by
\* a job that outlived its repository, or were left by a removal that has not
\* ended well; and logs of a repository that stays are taken only by a deletion
\* that overlapped its creation.
THEOREM LogsFollow == JobsSpec => []LogsFollowRepo
  <1>1. JInv => LogsFollowRepo
    BY DEF JInv
  <1> QED
    BY <1>1, JobsInductive, PTL

\* A job of a repository that is still there has run with no other variables
\* than its own.
THEOREM OwnVariables == JobsSpec => []JobUsesOwnVariables
  <1>1. JInv => JobUsesOwnVariables
    BY DEF JInv
  <1> QED
    BY <1>1, JobsInductive, PTL

==============================================================================
