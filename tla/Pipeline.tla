------------------------------ MODULE Pipeline ------------------------------
(***************************************************************************)
(* The executions of one repository and the logs they leave: the worker    *)
(* process (build_image.py, execute) with its stages - configuration,      *)
(* registry login, builder, builds, managed variables, tasks - and the     *)
(* post-receive hook, which logs a failed submission and runs the mirror   *)
(* script.  Every stage opens a log of its own (ExecutionLog) in the       *)
(* directory of HookLogs, which others clean up and delete meanwhile.      *)
(*                                                                         *)
(* A command is a step with either result; one shell task is the subject   *)
(* of TaskRunner, the submission of BuildQueue, the mirrors of MirrorSync. *)
(***************************************************************************)
EXTENDS HookLogs

CONSTANTS
  Workers,   \* build_image.py processes
  Hooks,     \* post-receive processes
  MaxBuilds, \* bound: entries of "build" in repository.yaml
  MaxTasks   \* bound: tasks that match the branch

ASSUME ProcessesAssumption == Workers \cap Hooks = {}
ASSUME BoundsAssumption == MaxBuilds \in Nat /\ MaxTasks \in Nat

Config == <<"build-config", 0>>
Auth   == <<"build-auth", 0>>
Infra  == <<"build-infra", 0>>
Build(i) == <<"build", i>>
Vars   == <<"task-config", 0>>
Task(i) == <<"task", i>>

Stages == {Config, Auth, Infra, Vars}
            \cup {Build(i) : i \in 1..MaxBuilds} \cup {Task(i) : i \in 1..MaxTasks}

Dispatcher == <<"build-dispatcher", 0>>
Mirror     == <<"mirror", 0>>

ASSUME LogsAssumption ==
  Logs = (Workers \X Stages) \cup (Hooks \X {Dispatcher, Mirror})

VARIABLES
  pc,        \* where a worker is
  stage,     \* the stage it is at
  builds,    \* how many builds its configuration declares
  tasks,     \* and how many tasks match its branch
  failed,    \* execute(): failed
  code,      \* "none", the exit status execute returns, "killed", or Uncaught
  result,    \* history: how each stage of a worker ended
  hook,      \* where a hook is
  mirrored   \* history: hooks whose mirror script has been started

workers == <<pc, stage, builds, tasks, failed, code, result>>
hooks == <<hook, mirrored>>
vars == <<logvars, workers, hooks>>

LogOf(w) == <<w, stage[w]>>

\* Exceptions that end the process with exit status 1: the configuration cannot
\* be read, the log or its directory is gone, another system call fails.
Uncaught == {"unreadable", "missing", "oserror"}

Init ==
  /\ LogsInit
  /\ pc = [w \in Workers |-> "begin"]
  /\ stage = [w \in Workers |-> Config]
  /\ builds = [w \in Workers |-> 0] /\ tasks = [w \in Workers |-> 0]
  /\ failed = [w \in Workers |-> FALSE]
  /\ code = [w \in Workers |-> "none"]
  /\ result = [w \in Workers |-> [s \in Stages |-> "none"]]
  /\ hook = [h \in Hooks |-> "begin"]
  /\ mirrored = {}

\* Once an execution is over, its logs can get older than the retention,
\* which is longer than any execution.
Age(e) ==
  /\ (e \in Workers /\ pc[e] = "end") \/ (e \in Hooks /\ hook[e] = "end")
  /\ old' = old \cup {l \in Logs : l[1] = e}
  /\ UNCHANGED <<dir, file, sweep, sweeps, wipe, wipes, faults, asked, gone,
                 workers, hooks>>

\* A faulty variant of the next definition: the directory is taken for granted.
NoMakeDir == UNCHANGED <<dir, old, sweep, sweeps, wipe, wipes, asked, gone>>

\* mkdir(parents=True, exist_ok=True), and mkdir -p.
MakeDir ==
  /\ dir' = TRUE
  /\ UNCHANGED <<old, sweep, sweeps, wipe, wipes, asked, gone>>

\* What a change of the log l alone leaves as it is.
Write(l, s) ==
  /\ file' = [file EXCEPT ![l] = s]
  /\ UNCHANGED <<dir, old, sweep, sweeps, wipe, wipes, asked, gone>>

\* A footer is written through the open descriptor, to a file that may have
\* been removed.
Close(l, s) == Write(l, IF file[l] = "open" THEN s ELSE file[l])

Footer(ok) == IF ok THEN "ok" ELSE "failed"

GoTo(w, s) ==
  /\ pc' = [pc EXCEPT ![w] = "mkdir"] /\ stage' = [stage EXCEPT ![w] = s]
  /\ UNCHANGED code

End(w, c) ==
  /\ pc' = [pc EXCEPT ![w] = "end"] /\ code' = [code EXCEPT ![w] = c]
  /\ UNCHANGED stage

\* Once the builds are done: no matching task, or the managed variables.
ToTasks(w, t) ==
  IF t = 0 THEN End(w, "0")
           ELSE pc' = [pc EXCEPT ![w] = "variables"] /\ UNCHANGED <<stage, code>>

Record(w, ok) == result' = [result EXCEPT ![w][stage[w]] = Footer(ok)]

(***************************************************************************)
(* Faulty variants of definitions below; no specification uses them.       *)
(***************************************************************************)
\* The log of the login is removed before its exit code is looked at.
ReportedLast(w, ok) ==
  /\ Write(LogOf(w), "none")
  /\ IF ok THEN pc' = [pc EXCEPT ![w] = "remove"] /\ UNCHANGED <<stage, code>>
           ELSE End(w, "1")

\* Only the last build decides.
AfterBuildOfLast(w, ok) ==
  IF stage[w][2] < builds[w] THEN GoTo(w, Build(stage[w][2] + 1))
  ELSE IF ~ok THEN End(w, "1") ELSE ToTasks(w, tasks[w])

\* The logs of login and builder are kept.
RemoveLogNot(w) ==
  /\ pc[w] = "remove"
  /\ GoTo(w, IF stage[w] = Auth THEN Infra ELSE Build(1))
  /\ UNCHANGED <<logvars, builds, tasks, failed, result, hooks>>

------------------------------------------------------------------------------
(***************************************************************************)
(* The worker: execute.                                                    *)
(***************************************************************************)
\* The pushed tree is unpacked and its configuration checked; a ConfigError or
\* an OSError is logged.
Materialize(w) ==
  /\ pc[w] = "begin"
  /\ \/ GoTo(w, Config) /\ UNCHANGED <<builds, tasks>>
     \/ \E b \in 0..MaxBuilds, t \in 0..MaxTasks :
          /\ builds' = [builds EXCEPT ![w] = b] /\ tasks' = [tasks EXCEPT ![w] = t]
          /\ IF b > 0 THEN GoTo(w, Auth) ELSE ToTasks(w, t)
  /\ UNCHANGED <<logvars, failed, result, hooks>>

\* repository.yaml is not UTF-8 (read_text), or makes safe_load or a check raise
\* anything but ConfigError and OSError: nobody catches it.
ConfigRaises(w) ==
  /\ pc[w] = "begin"
  /\ End(w, "unreadable")
  /\ UNCHANGED <<logvars, builds, tasks, failed, result, hooks>>

MakeLogDir(w) ==
  /\ pc[w] = "mkdir"
  /\ MakeDir
  /\ pc' = [pc EXCEPT ![w] = "mkstemp"]
  /\ UNCHANGED <<file, faults, stage, builds, tasks, failed, code, result, hooks>>

CreateLog(w) ==
  /\ pc[w] = "mkstemp" /\ dir
  /\ Write(LogOf(w), "open")
  /\ pc' = [pc EXCEPT ![w] = "command"]
  /\ UNCHANGED <<faults, stage, builds, tasks, failed, code, result, hooks>>

\* Nobody catches it.
CreateLogRaises(w) ==
  /\ pc[w] = "mkstemp" /\ ~dir
  /\ End(w, "missing")
  /\ UNCHANGED <<logvars, builds, tasks, failed, result, hooks>>

\* diagnostic_log, for the configuration and for the managed variables.
Diagnose(w) ==
  /\ pc[w] = "command" /\ stage[w] \in {Config, Vars}
  /\ Close(LogOf(w), "failed") /\ Record(w, FALSE)
  /\ End(w, "1")
  /\ UNCHANGED <<faults, builds, tasks, failed, hooks>>

\* The log of a login or of a builder that is in order is not kept.
Reported(w, ok) ==
  /\ Close(LogOf(w), Footer(ok))
  /\ IF ok THEN pc' = [pc EXCEPT ![w] = "remove"] /\ UNCHANGED <<stage, code>>
           ELSE End(w, "1")

PrepareEnds(w) ==
  /\ pc[w] = "command" /\ stage[w] \in {Auth, Infra}
  /\ \E ok \in BOOLEAN : Reported(w, ok) /\ Record(w, ok)
  /\ UNCHANGED <<faults, builds, tasks, failed, hooks>>

RemoveLog(w) ==
  /\ pc[w] = "remove" /\ file[LogOf(w)] # "none"
  /\ Write(LogOf(w), "none")
  /\ GoTo(w, IF stage[w] = Auth THEN Infra ELSE Build(1))
  /\ UNCHANGED <<faults, builds, tasks, failed, result, hooks>>

\* os.remove of a log that was deleted meanwhile; nobody catches it.
RemoveLogRaises(w) ==
  /\ pc[w] = "remove" /\ file[LogOf(w)] = "none"
  /\ End(w, "missing")
  /\ UNCHANGED <<logvars, builds, tasks, failed, result, hooks>>

AfterBuild(w, ok) ==
  IF stage[w][2] < builds[w] THEN GoTo(w, Build(stage[w][2] + 1))
  ELSE IF failed[w] \/ ~ok THEN End(w, "1") ELSE ToTasks(w, tasks[w])

\* docker buildx build, crane push of the commit's tag and, for the default
\* branch, of :latest.
BuildEnds(w) ==
  /\ pc[w] = "command" /\ stage[w] \in {Build(i) : i \in 1..MaxBuilds}
  /\ \E ok \in BOOLEAN :
       /\ Close(LogOf(w), Footer(ok)) /\ Record(w, ok)
       /\ failed' = [failed EXCEPT ![w] = @ \/ ~ok]
       /\ AfterBuild(w, ok)
  /\ UNCHANGED <<faults, builds, tasks, hooks>>

LoadVariables(w) ==
  /\ pc[w] = "variables"
  /\ GoTo(w, Task(1)) \/ GoTo(w, Vars)
  /\ UNCHANGED <<logvars, builds, tasks, failed, result, hooks>>

TaskEnds(w) ==
  /\ pc[w] = "command" /\ stage[w] \in {Task(i) : i \in 1..MaxTasks}
  /\ \E ok \in BOOLEAN :
       /\ Close(LogOf(w), Footer(ok)) /\ Record(w, ok)
       /\ IF ~ok THEN End(w, "1")
          ELSE IF stage[w][2] < tasks[w] THEN GoTo(w, Task(stage[w][2] + 1))
          ELSE End(w, "0")
  /\ UNCHANGED <<faults, builds, tasks, failed, hooks>>

\* The process is killed; or a call fails outside the try blocks, as a write to
\* the log may.
Killed(w) ==
  /\ pc[w] # "end"
  /\ Faulty
  /\ \E c \in {"killed", "oserror"} : End(w, c)
  /\ UNCHANGED <<dir, file, old, sweep, sweeps, wipe, wipes, asked, gone,
                 builds, tasks, failed, result, hooks>>

(***************************************************************************)
(* The hook: post-receive.                                                 *)
(***************************************************************************)
\* mkdir -p and find -delete.
HookBegins(h) ==
  /\ hook[h] = "begin"
  /\ MakeDir
  /\ file' = [l \in Logs |-> IF l \in old THEN "none" ELSE file[l]]
  /\ hook' = [hook EXCEPT ![h] = "submitting"]
  /\ UNCHANGED <<faults, workers, mirrored>>

\* queue_build takes up to two seconds.  A refusal is logged at once, if the
\* directory is still there.
Submits(h) ==
  /\ hook[h] = "submitting"
  /\ \/ UNCHANGED file
     \/ dir /\ file' = [file EXCEPT ![<<h, Dispatcher>>] = "failed"]
  /\ hook' = [hook EXCEPT ![h] = "mktemp"]
  /\ UNCHANGED <<dir, old, sweep, sweeps, wipe, wipes, faults, asked, gone,
                 workers, mirrored>>

\* run_mirror_logged: mktemp, mv, and a redirection, which creates the log
\* again if it was removed.
HookTemp(h) ==
  /\ hook[h] = "mktemp" /\ dir
  /\ Write(<<h, Mirror>>, "temp")
  /\ hook' = [hook EXCEPT ![h] = "mv"]
  /\ UNCHANGED <<faults, workers, mirrored>>

HookNames(h) ==
  /\ hook[h] = "mv" /\ file[<<h, Mirror>>] = "temp"
  /\ Write(<<h, Mirror>>, "open")
  /\ hook' = [hook EXCEPT ![h] = "redirect"]
  /\ UNCHANGED <<faults, workers, mirrored>>

HookWrites(h) ==
  /\ hook[h] = "redirect" /\ dir
  /\ Write(<<h, Mirror>>, "open")
  /\ hook' = [hook EXCEPT ![h] = "mirroring"] /\ mirrored' = mirrored \cup {h}
  /\ UNCHANGED <<faults, workers>>

\* One of the three fails, and the mirror script is not run.
HookGivesUp(h) ==
  /\ \/ hook[h] \in {"mktemp", "redirect"} /\ ~dir
     \/ hook[h] = "mv" /\ file[<<h, Mirror>>] = "none"
  /\ hook' = [hook EXCEPT ![h] = "end"]
  /\ UNCHANGED <<logvars, workers, mirrored>>

MirrorEnds(h) ==
  /\ hook[h] = "mirroring"
  /\ \E ok \in BOOLEAN : Close(<<h, Mirror>>, Footer(ok))
  /\ hook' = [hook EXCEPT ![h] = "end"]
  /\ UNCHANGED <<faults, workers, mirrored>>

------------------------------------------------------------------------------
Work(w) ==
  \/ Materialize(w) \/ ConfigRaises(w) \/ MakeLogDir(w) \/ CreateLog(w)
  \/ CreateLogRaises(w) \/ Diagnose(w) \/ PrepareEnds(w) \/ RemoveLog(w) \/ RemoveLogRaises(w)
  \/ BuildEnds(w) \/ LoadVariables(w) \/ TaskEnds(w) \/ Killed(w)

Hook(h) ==
  \/ HookBegins(h) \/ Submits(h) \/ HookTemp(h) \/ HookNames(h) \/ HookWrites(h)
  \/ HookGivesUp(h) \/ MirrorEnds(h)

Next ==
  \/ \E w \in Workers : Work(w)
  \/ \E h \in Hooks : Hook(h)
  \/ (Retention \/ Deletion) /\ UNCHANGED <<workers, hooks>>
  \/ \E e \in Workers \cup Hooks : Age(e)

Spec == Init /\ [][Next]_vars

------------------------------------------------------------------------------
\* Types; a log is in the directory.
TypeOK ==
  /\ LogsTypeOK
  /\ pc \in [Workers -> {"begin", "mkdir", "mkstemp", "command", "remove",
                         "variables", "end"}]
  /\ stage \in [Workers -> Stages]
  /\ builds \in [Workers -> 0..MaxBuilds] /\ tasks \in [Workers -> 0..MaxTasks]
  /\ failed \in [Workers -> BOOLEAN]
  /\ code \in [Workers -> {"none", "0", "1", "killed"} \cup Uncaught]
  /\ result \in [Workers -> [Stages -> {"none"} \cup Complete]]
  /\ hook \in [Hooks -> {"begin", "submitting", "mktemp", "mv", "redirect",
                         "mirroring", "end"}]
  /\ mirrored \subseteq Hooks

\* A worker that ends with exit status 1, returned or by an exception, leaves a
\* failed log of a stage until that is deleted or expires; unless its
\* configuration could not be read, for which README "Hook logs" promises one
\* and execute leaves none, or a request removed the log or its directory under
\* it, or a call failed that nobody checks (execute, main).
FailureIsLogged ==
  \A w \in Workers : code[w] \in {"1"} \cup Uncaught =>
    \/ \E s \in Stages :
         /\ result[w][s] = "failed"
         /\ \/ file[<<w, s>>] = "failed"
            \/ file[<<w, s>>] = "none" /\ <<w, s>> \in asked \cup old
    \/ code[w] \in {"unreadable", "oserror"}
    \/ code[w] = "missing" /\ (gone # {} \/ LogOf(w) \in asked)

\* README "Multiple builds": "Failure in one item does not prevent later items
\* from running", and "Post-build tasks": tasks run in order, after every
\* build has succeeded, and the first failure skips the rest.
BuildsThenTasks ==
  \A w \in Workers :
    /\ (code[w] = "1" /\ failed[w]) =>
         \A i \in 1..builds[w] : result[w][Build(i)] # "none"
    /\ \A i \in 1..MaxTasks :
         (stage[w] = Task(i) \/ result[w][Task(i)] # "none") =>
            /\ \A j \in 1..builds[w] : result[w][Build(j)] = "ok"
            /\ \A j \in 1..(i - 1) : result[w][Task(j)] = "ok"

\* Exit status 0: everything declared was done, and of the logs of the
\* preparation none is left.
SuccessIsComplete ==
  \A w \in Workers : code[w] = "0" =>
    /\ \A i \in 1..builds[w] : result[w][Build(i)] = "ok"
    /\ \A i \in 1..tasks[w] : result[w][Task(i)] = "ok"
    /\ file[<<w, Auth>>] = "none" /\ file[<<w, Infra>>] = "none"

\* The retention never takes a log that is written or not yet old, however it
\* interleaves with those who create logs in a directory it finds empty.
LogsSurviveRetention ==
  [][\A l \in Logs : file[l] # "none" /\ file'[l] = "none" =>
       \/ l \in old \cup asked'
       \/ \E w \in Workers : pc[w] = "remove" /\ LogOf(w) = l]_vars

\* Whatever interleaves, a worker does not find its log or the directory gone,
\* a push is not left unmirrored and the retention thread does not die, unless
\* a request removed just that, or somebody the directory (app.py 464-477).
LossHasACause ==
  /\ \A w \in Workers : code[w] = "missing" => gone # {} \/ LogOf(w) \in asked
  /\ \A h \in Hooks :
       hook[h] = "end" /\ h \notin mirrored => gone # {} \/ <<h, Mirror>> \in asked
  /\ sweep = "dead" => "request" \in gone

==============================================================================
