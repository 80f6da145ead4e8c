------------------------------ MODULE RepoJobs ------------------------------
(***************************************************************************)
(* A repository (RepoLifecycle) together with what is stored beside it     *)
(* under its name alone: the hook logs, and the managed variables a job    *)
(* loads.  A job pushed to the repository is executed by build_image.py    *)
(* whenever the dispatcher gets to it, and nothing ties it to the          *)
(* repository it came from: it makes the directory of logs again if that   *)
(* is gone, and loads the variables that are there.                        *)
(*                                                                         *)
(* All logs of a job are one entry of the directory (HookLogs and Pipeline *)
(* have them one by one, and the retention), and DeleteLogs of             *)
(* RepoLifecycle, where it is one step, is here the rmtree it is.          *)
(***************************************************************************)
EXTENDS RepoLifecycle

CONSTANT Jobs

VARIABLES
  job,      \* "none", "queued", "failing", "running" or "done"
  gen,      \* the generation of the repository a job was pushed to
  used,     \* the generation of the variables it has loaded, 0 for none
  logDir,   \* the directory of logs exists
  logs,     \* the jobs with logs in it
  wiping,   \* the requests that are in rmtree of that directory
  wipes,    \* what each has listed and not yet removed
  removed,  \* history: the generation of the repository a request removed
  late,     \* history: jobs that made a log without their repository
  taken     \* history: jobs whose logs went although their repository stayed

logvars == <<logDir, logs, wiping, wipes, taken>>
jobvars == <<job, gen, used, late>>
allvars == <<vars, logvars, jobvars, removed>>

JobsInit ==
  /\ Init
  /\ job = [j \in Jobs |-> "none"]
  /\ gen = [j \in Jobs |-> 0] /\ used = [j \in Jobs |-> 0]
  /\ logDir = FALSE /\ logs = {}
  /\ wiping = {} /\ wipes = [r \in Requests |-> {}]
  /\ removed = [r \in Requests |-> 0] /\ late = {} /\ taken = {}

\* The repository that job j was pushed to is there.
Own(j) == dir /\ born = gen[j]

(***************************************************************************)
(* Faulty variants of definitions below; no specification uses them.       *)
(***************************************************************************)
\* shutil.rmtree(directory, ignore_errors=True)
WipeRaisesNever(r) ==
  /\ pc[r] = "dropped" /\ r \in wiping
  /\ \/ /\ \/ wipes[r] \ logs # {}
           \/ wipes[r] = {} /\ (~logDir \/ logs # {})
        /\ NoFault
     \/ Fault
  /\ wiping' = wiping \ {r}
  /\ Answer(r, 200)
  /\ UNCHANGED <<repo, vals, kind, seen, todo, met, logDir, logs, wipes, taken, jobvars,
                 removed>>

------------------------------------------------------------------------------
(***************************************************************************)
(* A push and the execution of its job.                                    *)
(***************************************************************************)
Push(j) ==
  /\ job[j] = "none"
  /\ dir /\ linked
  /\ job' = [job EXCEPT ![j] = "queued"]
  /\ gen' = [gen EXCEPT ![j] = born]
  /\ UNCHANGED <<vars, logvars, removed, used, late>>

\* git archive of a commit that a whole repository of this name has or has not.
Materialize(j) ==
  /\ job[j] = "queued"
  /\ \/ dir /\ job' = [job EXCEPT ![j] = "running"]
     \/ /\ ~Own(j) \/ tree # Entries
        /\ job' = [job EXCEPT ![j] = "failing"]
  /\ UNCHANGED <<vars, logvars, removed, gen, used, late>>

\* ExecutionLog: mkdir(parents=True, exist_ok=True), mkstemp
MakeLog(j) ==
  /\ logDir' = TRUE /\ logs' = logs \cup {j}
  /\ late' = IF Own(j) THEN late ELSE late \cup {j}
  /\ UNCHANGED <<vars, wiping, wipes, taken, removed, gen, used>>

\* diagnostic_log
Diagnose(j) ==
  /\ job[j] = "failing"
  /\ MakeLog(j)
  /\ job' = [job EXCEPT ![j] = "done"]

\* A build or a task.
WriteLog(j) ==
  /\ job[j] = "running"
  /\ MakeLog(j)
  /\ UNCHANGED job

\* Before the tasks; a repository without a file has no variables.
LoadVariables(j) ==
  /\ job[j] = "running"
  /\ used' = [used EXCEPT ![j] = vals]
  /\ UNCHANGED <<vars, logvars, removed, job, gen, late>>

Finish(j) ==
  /\ job[j] = "running"
  /\ job' = [job EXCEPT ![j] = "done"]
  /\ UNCHANGED <<vars, logvars, removed, gen, used, late>>

Execution(j) ==
  \/ Push(j) \/ Materialize(j) \/ Diagnose(j) \/ WriteLog(j) \/ LoadVariables(j)
  \/ Finish(j)

(***************************************************************************)
(* delete_hook_logs.                                                       *)
(***************************************************************************)
\* os.path.isdir
NoLogs(r) ==
  /\ pc[r] = "dropped" /\ r \notin wiping
  /\ ~logDir
  /\ Answer(r, 200) /\ NoFault
  /\ UNCHANGED <<repo, vals, kind, seen, todo, met, logvars, jobvars, removed>>

\* What shutil.rmtree is going to remove.
ListLogs(r) ==
  /\ pc[r] = "dropped" /\ r \notin wiping
  /\ logDir
  /\ wiping' = wiping \cup {r}
  /\ wipes' = [wipes EXCEPT ![r] = logs]
  /\ UNCHANGED <<vars, logDir, logs, taken, jobvars, removed>>

WipeLog(r, j) ==
  /\ pc[r] = "dropped" /\ r \in wiping
  /\ j \in wipes[r] \cap logs
  /\ logs' = logs \ {j} /\ wipes' = [wipes EXCEPT ![r] = @ \ {j}]
  /\ taken' = IF Own(j) THEN taken \cup {j} ELSE taken
  /\ UNCHANGED <<vars, logDir, wiping, jobvars, removed>>

WipeDir(r) ==
  /\ pc[r] = "dropped" /\ r \in wiping
  /\ wipes[r] = {} /\ logDir /\ logs = {}
  /\ logDir' = FALSE
  /\ wiping' = wiping \ {r}
  /\ Answer(r, 200) /\ NoFault
  /\ UNCHANGED <<repo, vals, kind, seen, todo, met, logs, wipes, taken, jobvars, removed>>

\* A log that was listed is gone, or one has appeared, or a call fails.
WipeRaises(r) ==
  /\ pc[r] = "dropped" /\ r \in wiping
  /\ \/ /\ \/ wipes[r] \ logs # {}
           \/ wipes[r] = {} /\ (~logDir \/ logs # {})
        /\ NoFault
     \/ Fault
  /\ wiping' = wiping \ {r} /\ wipes' = [wipes EXCEPT ![r] = {}]
  /\ Answer(r, Raised)
  /\ UNCHANGED <<repo, vals, kind, seen, todo, met, logDir, logs, taken, jobvars, removed>>

Wiping(r) ==
  \/ NoLogs(r) \/ ListLogs(r) \/ WipeDir(r) \/ WipeRaises(r)
  \/ \E j \in Jobs : WipeLog(r, j)

(***************************************************************************)
(* The steps of RepoLifecycle.                                             *)
(***************************************************************************)
RemoveRepo(r) ==
  /\ RemoveDir(r)
  /\ removed' = [removed EXCEPT ![r] = born]
  /\ UNCHANGED <<logvars, jobvars>>

OtherSteps(r) ==
  /\ \/ \E k \in Kinds : Begin(r, k)
     \/ Creation(r) \/ Patching(r)
     \/ ListTree(r) \/ RemoveEntry(r) \/ RemoveRaises(r) \/ RemoveFails(r)
     \/ CheckExists(r) \/ DropVariables(r) \/ DropFails(r)
  /\ UNCHANGED <<logvars, jobvars, removed>>

JobsStop ==
  /\ ServiceStop
  /\ wiping' = {} /\ wipes' = [r \in Requests |-> {}]
  /\ UNCHANGED <<logDir, logs, taken, jobvars, removed>>

JobsNext ==
  \/ \E r \in Requests : OtherSteps(r) \/ RemoveRepo(r) \/ Wiping(r)
  \/ \E j \in Jobs : Execution(j)
  \/ JobsStop

JobsSpec == JobsInit /\ [][JobsNext]_allvars

------------------------------------------------------------------------------
(***************************************************************************)
(* Logs belong to one repository: a log is of the repository that is       *)
(* there, or was made by a job that outlived its repository, or whoever    *)
(* removed that repository has not got, or did not get, to the end of      *)
(* removing its logs (src/README.md "Deleting a repository also deletes    *)
(* its logs").  And a deletion takes logs of a repository that stays only  *)
(* if it overlapped the creation of that one (app.py 422-437, 552-571).    *)
(***************************************************************************)
LogsFollowRepo ==
  /\ \A j \in logs :
       \/ Own(j)
       \/ j \in late
       \/ \E r \in Requests : removed[r] = gen[j] /\ reply[r] # 200
  /\ taken # {} => {"create", "delete"} \in met

(***************************************************************************)
(* A job runs its tasks with variables that were set for the repository it *)
(* was pushed to, unless that repository is gone, and a later one of the   *)
(* name has variables, or a patch overlapped a deletion or a failed        *)
(* creation (build_image.py 668-676, repository_variables.py 109-127).     *)
(***************************************************************************)
JobUsesOwnVariables ==
  \A j \in Jobs :
    \/ used[j] \in {0, gen[j]}
    \/ ~Own(j)
    \/ {{"patch", "delete"}, {"patch", "create"}} \cap met # {}

==============================================================================
