--------------------------- MODULE Pipeline_proofs ---------------------------
(***************************************************************************)
(* Proofs about Pipeline, and with it HookLogs, for any number of workers, *)
(* hooks, requests, builds, tasks and failing calls, and any order of the  *)
(* directory.                                                              *)
(***************************************************************************)
EXTENDS Pipeline, TLAPS

AllBuilt(w) == \A i \in 1..builds[w] : result[w][Build(i)] = "ok"
NoTasks(w) == \A i \in 1..MaxTasks : result[w][Task(i)] = "none"

\* What an execution has done where it is.
Progress(w) ==
  /\ pc[w] = "end" <=> code[w] # "none"
  /\ pc[w] = "begin" => stage[w] = Config /\ result[w][Config] = "none"
  /\ pc[w] \in {"mkdir", "mkstemp", "command"} => result[w][stage[w]] = "none"
  /\ pc[w] = "remove" => stage[w] \in {Auth, Infra} /\ result[w][stage[w]] = "ok"
  /\ failed[w] => \E i \in 1..MaxBuilds : result[w][Build(i)] = "failed"
  /\ stage[w] = Config => result[w][Auth] = "none"
  /\ stage[w] \in {Config, Auth} => result[w][Infra] = "none"
  /\ stage[w] \in {Config, Auth, Infra} =>
       /\ ~failed[w] /\ NoTasks(w)
       /\ \A i \in 1..MaxBuilds : result[w][Build(i)] = "none"
  /\ stage[w] \in {Auth, Infra} => builds[w] > 0
  /\ stage[w] # Vars => result[w][Vars] = "none"
  /\ \A i \in 1..MaxBuilds : stage[w] = Build(i) =>
       /\ i <= builds[w] /\ NoTasks(w)
       /\ \A j \in 1..(i - 1) : result[w][Build(j)] # "none"
       /\ \A j \in (i + 1)..MaxBuilds : result[w][Build(j)] = "none"
       /\ ~failed[w] => \A j \in 1..MaxBuilds : result[w][Build(j)] # "failed"
  /\ pc[w] = "variables" => tasks[w] > 0 /\ stage[w] \notin {Auth, Infra, Vars}
  /\ pc[w] = "variables" \/ stage[w] = Vars => ~failed[w] /\ AllBuilt(w) /\ NoTasks(w)
  /\ \A i \in 1..MaxTasks : stage[w] = Task(i) =>
       /\ i <= tasks[w] /\ ~failed[w]
       /\ \A j \in (i + 1)..MaxTasks : result[w][Task(j)] = "none"
  /\ \A i \in 1..MaxTasks : stage[w] = Task(i) \/ result[w][Task(i)] # "none" =>
       /\ AllBuilt(w)
       /\ \A j \in 1..(i - 1) : result[w][Task(j)] = "ok"
  /\ code[w] = "1" =>
       /\ failed[w] => \A i \in 1..builds[w] : result[w][Build(i)] # "none"
       /\ \E s \in Stages : result[w][s] = "failed"
  /\ code[w] = "0" =>
       /\ AllBuilt(w) /\ stage[w] \notin {Auth, Infra}
       /\ \A i \in 1..tasks[w] : result[w][Task(i)] = "ok"

\* Only the logs of ended executions are old, and the retention lists no other.
Retained ==
  /\ sweeps \subseteq old
  /\ \A l \in old :
       /\ l[1] \in Workers => pc[l[1]] = "end"
       /\ l[1] \in Hooks => hook[l[1]] = "end"

Removed(l) == file[l] = "none" /\ l \in asked

\* The logs of a worker: the one it writes is there unless a request has removed
\* it; a failed one also until it is old; those of the preparation only while
\* it lasts.
WorkerLogs(w) ==
  /\ pc[w] = "mkstemp" => dir \/ gone # {}
  /\ pc[w] = "command" => file[LogOf(w)] = "open" \/ Removed(LogOf(w))
  /\ pc[w] = "remove" => file[LogOf(w)] # "none" \/ Removed(LogOf(w))
  /\ \A s \in Stages : result[w][s] = "failed" =>
       file[<<w, s>>] = "failed" \/ (file[<<w, s>>] = "none" /\ <<w, s>> \in asked \cup old)
  /\ \A s \in {Auth, Infra} : file[<<w, s>>] # "none" => stage[w] = s
  /\ code[w] = "missing" => gone # {} \/ LogOf(w) \in asked

HookFiles(h) ==
  /\ hook[h] # "begin" => dir \/ gone # {}
  /\ hook[h] = "mv" => file[<<h, Mirror>>] = "temp" \/ Removed(<<h, Mirror>>)
  /\ hook[h] = "mirroring" => h \in mirrored
  /\ hook[h] = "end" /\ h \notin mirrored => gone # {} \/ <<h, Mirror>> \in asked

Sweeping ==
  /\ sweep = "listing" => dir \/ "request" \in gone
  /\ sweep = "dead" => "request" \in gone

IInv ==
  /\ TypeOK
  /\ \A w \in Workers : Progress(w)
  /\ Retained
  /\ \A w \in Workers : WorkerLogs(w)
  /\ \A h \in Hooks : HookFiles(h)
  /\ Sweeping

------------------------------------------------------------------------------
(***************************************************************************)
(* The names of stages.                                                    *)
(***************************************************************************)

\* The stages are different from one another.
LEMMA StageNames ==
  /\ {Config, Auth, Infra, Vars} \subseteq Stages
  /\ \A i \in 1..MaxBuilds : Build(i) \in Stages
  /\ \A i \in 1..MaxTasks : Task(i) \in Stages
  /\ \A s \in Stages : \/ s \in {Config, Auth, Infra, Vars}
                       \/ \E i \in 1..MaxBuilds : s = Build(i)
                       \/ \E i \in 1..MaxTasks : s = Task(i)
  /\ Config # Auth /\ Config # Infra /\ Config # Vars
  /\ Auth # Infra /\ Auth # Vars /\ Infra # Vars
  /\ \A i : Build(i) \notin {Config, Auth, Infra, Vars}
  /\ \A i : Task(i) \notin {Config, Auth, Infra, Vars}
  /\ \A i, j : Build(i) # Task(j)
  /\ \A i, j : Build(i) = Build(j) => i = j
  /\ \A i, j : Task(i) = Task(j) => i = j
  /\ \A i : Build(i)[2] = i /\ Task(i)[2] = i
  BY DEF Stages, Config, Auth, Infra, Vars, Build, Task

\* The logs of a worker are its own.
LEMMA WorkerLogNames ==
  ASSUME TypeOK
  PROVE  /\ \A w \in Workers, s \in Stages : <<w, s>> \in Logs
         /\ \A w \in Workers : LogOf(w) \in Logs /\ stage[w] \in Stages
         /\ \A h \in Hooks : <<h, Mirror>> \in Logs /\ <<h, Dispatcher>> \in Logs
         /\ Mirror # Dispatcher
         /\ \A l \in Logs : l[1] \in Workers \cup Hooks
  BY LogsAssumption DEF TypeOK, LogOf, Mirror, Dispatcher

------------------------------------------------------------------------------
(***************************************************************************)
(* Types.                                                                  *)
(***************************************************************************)
LEMMA TypeInit == Init => TypeOK
  <1> SUFFICES ASSUME Init PROVE TypeOK
    OBVIOUS
  <1>1. LogsTypeOK
    <2>1. file = [l \in Logs |-> "none"] /\ dir = FALSE /\ faults = 0
      BY DEF Init, LogsInit
    <2>2. Present = {} /\ faults \in 0..MaxFaults
      BY <2>1, FaultsAssumption DEF Present
    <2>3. /\ wipe \in [Requests -> {"idle", "listing", "removing", "ok", "raised"}]
          /\ wipes \in [Requests -> SUBSET Logs]
      BY DEF Init, LogsInit
    <2> QED
      BY <2>1, <2>2, <2>3 DEF Init, LogsInit, LogsTypeOK
  <1>2. \A w \in Workers : stage[w] \in Stages
    BY StageNames DEF Init
  <1>3. result \in [Workers -> [Stages -> {"none"} \cup Complete]]
    BY DEF Init
  <1> QED
    BY <1>1, <1>2, <1>3, BoundsAssumption DEF Init, TypeOK

\* cleanup_hook_logs and delete_hook_logs.
LEMMA LogsTypeStep ==
  LogsTypeOK /\ (Retention \/ Deletion) => LogsTypeOK'
  <1> SUFFICES ASSUME LogsTypeOK, Retention \/ Deletion PROVE LogsTypeOK'
    OBVIOUS
  <1> USE DEF LogsTypeOK, Present, Complete
  <1>1. CASE SweepStart \/ SweepList \/ SweepCheck
    BY <1>1 DEF SweepStart, SweepList, SweepCheck
  <1>2. ASSUME NEW l \in Logs, SweepEntry(l) PROVE LogsTypeOK'
    BY <1>2 DEF SweepEntry
  <1>3. CASE SweepDir
    BY <1>3 DEF SweepDir
  <1>4. ASSUME NEW r \in Requests, Wipe(r) PROVE LogsTypeOK'
    BY <1>4 DEF Wipe
  <1>5. ASSUME NEW r \in Requests, WipeList(r) PROVE LogsTypeOK'
    BY <1>5 DEF WipeList
  <1>6. ASSUME NEW r \in Requests, WipeDir(r) PROVE LogsTypeOK'
    BY <1>6 DEF WipeDir
  <1>7. ASSUME NEW r \in Requests, NEW l \in Logs, WipeEntry(r, l) PROVE LogsTypeOK'
    BY <1>7 DEF WipeEntry
  <1>8. ASSUME NEW r \in Requests, NEW l \in Logs, DeleteOne(r, l) PROVE LogsTypeOK'
    BY <1>8 DEF DeleteOne
  <1> QED
    BY <1>1, <1>2, <1>3, <1>4, <1>5, <1>6, <1>7, <1>8 DEF Retention, Deletion

\* What a worker does to the directory: it makes it, or writes a log of its own.
LEMMA WorkLogs ==
  ASSUME TypeOK, NEW w \in Workers, Work(w)
  PROVE  /\ UNCHANGED <<old, sweep, sweeps, wipe, wipes, asked, gone, hooks>>
         /\ (dir => dir') /\ dir' \in BOOLEAN
         /\ faults' \in 0..MaxFaults
         /\ file' \in [Logs -> {"none", "temp", "open", "ok", "failed"}]
         /\ \A l \in Logs \ {LogOf(w)} : file'[l] = file[l]
         /\ file'[LogOf(w)] # "none" /\ file[LogOf(w)] = "none" => dir
         /\ file'[LogOf(w)] = "none" /\ file[LogOf(w)] # "none" => pc[w] = "remove"
         /\ pc[w] # "end"
  <1> USE WorkerLogNames DEF TypeOK, LogsTypeOK, logvars, hooks
  <1>1. CASE \/ Materialize(w) \/ ConfigRaises(w) \/ CreateLogRaises(w)
             \/ RemoveLogRaises(w) \/ LoadVariables(w)
    BY <1>1 DEF Materialize, ConfigRaises, CreateLogRaises, RemoveLogRaises, LoadVariables
  <1>2. CASE MakeLogDir(w)
    BY <1>2 DEF MakeLogDir, MakeDir
  <1>3. CASE CreateLog(w)
    BY <1>3 DEF CreateLog, Write
  <1>4. CASE Diagnose(w)
    BY <1>4 DEF Diagnose, Write, Close
  <1>5. CASE PrepareEnds(w)
    BY <1>5 DEF PrepareEnds, Reported, Write, Close, Footer
  <1>6. CASE RemoveLog(w)
    BY <1>6 DEF RemoveLog, Write
  <1>7. CASE BuildEnds(w)
    BY <1>7 DEF BuildEnds, Write, Close, Footer
  <1>8. CASE TaskEnds(w)
    BY <1>8 DEF TaskEnds, Write, Close, Footer
  <1>9. CASE Killed(w)
    BY <1>9, FaultsAssumption DEF Killed, Faulty
  <1> QED
    BY <1>1, <1>2, <1>3, <1>4, <1>5, <1>6, <1>7, <1>8, <1>9 DEF Work

\* What a hook does to it: it makes the directory, writes two logs of its own,
\* and removes what is old.
LEMMA HookSteps ==
  ASSUME TypeOK, NEW h \in Hooks, Hook(h)
  PROVE  /\ UNCHANGED <<old, sweep, sweeps, wipe, wipes, asked, gone, faults, workers>>
         /\ (dir => dir') /\ dir' \in BOOLEAN
         /\ file' \in [Logs -> {"none", "temp", "open", "ok", "failed"}]
         /\ hook' \in [Hooks -> {"begin", "submitting", "mktemp", "mv", "redirect",
                                 "mirroring", "end"}]
         /\ mirrored' \subseteq Hooks
         /\ \A g \in Hooks \ {h} :
              /\ hook'[g] = hook[g]
              /\ g \in mirrored' <=> g \in mirrored
         /\ \A l \in Logs : l[1] # h => \/ file'[l] = file[l]
                                        \/ file'[l] = "none" /\ l \in old
         /\ \A l \in Logs : file'[l] # "none" /\ file[l] = "none" => dir
         /\ \A l \in Logs : file'[l] = "none" /\ file[l] # "none" => l \in old
  <1> DEFINE Own == {<<h, Mirror>>, <<h, Dispatcher>>}
             Files == {"none", "temp", "open", "ok", "failed"}
  <1>0. /\ Own \subseteq Logs
        /\ \A l \in Own : l[1] = h
        /\ file \in [Logs -> Files]
    BY WorkerLogNames DEF TypeOK, LogsTypeOK
  <1>1. /\ UNCHANGED <<old, sweep, sweeps, wipe, wipes, asked, gone, faults, workers>>
        /\ (dir => dir') /\ dir' \in BOOLEAN
    <2>1. UNCHANGED <<old, sweep, sweeps, wipe, wipes, asked, gone, faults, workers>>
      BY DEF Hook, HookBegins, Submits, HookTemp, HookNames, HookWrites, HookGivesUp,
             MirrorEnds, MakeDir, Write, Close, workers, logvars
    <2>2. (dir' = TRUE) \/ (dir' = dir)
      BY DEF Hook, HookBegins, Submits, HookTemp, HookNames, HookWrites, HookGivesUp,
             MirrorEnds, MakeDir, Write, Close, logvars
    <2> QED
      BY <2>1, <2>2 DEF TypeOK, LogsTypeOK
  <1>2. \/ file' = [l \in Logs |-> IF l \in old THEN "none" ELSE file[l]]
        \/ file' = file
        \/ \E l \in Own, x \in Files :
             /\ file' = [file EXCEPT ![l] = x]
             /\ file[l] = "none" => dir \/ x = "none"
             /\ x = "none" => file[l] = "none"
    <2>1. CASE HookBegins(h)
      BY <2>1 DEF HookBegins
    <2>2. CASE Submits(h)
      BY <2>2 DEF Submits
    <2>3. CASE HookTemp(h) \/ HookNames(h) \/ HookWrites(h)
      BY <2>3 DEF HookTemp, HookNames, HookWrites, Write
    <2>4. CASE HookGivesUp(h)
      BY <2>4 DEF HookGivesUp, logvars
    <2>5. CASE MirrorEnds(h)
      <3>1. PICK ok \in BOOLEAN : Close(<<h, Mirror>>, Footer(ok))
        BY <2>5 DEF MirrorEnds
      <3>2. Footer(ok) \in Files \ {"none"} /\ file[<<h, Mirror>>] \in Files
        BY <1>0 DEF Footer
      <3> QED
        BY <3>1, <3>2 DEF Close, Write
    <2> QED
      BY <2>1, <2>2, <2>3, <2>4, <2>5 DEF Hook
  <1> HIDE DEF Own, Files
  <1>3. /\ file' \in [Logs -> Files]
        /\ \A l \in Logs \ Own : \/ file'[l] = file[l]
                                 \/ file'[l] = "none" /\ l \in old
        /\ \A l \in Logs : file'[l] # "none" /\ file[l] = "none" => dir
        /\ \A l \in Logs : file'[l] = "none" /\ file[l] # "none" => l \in old
    <2>1. CASE file' = [l \in Logs |-> IF l \in old THEN "none" ELSE file[l]]
      BY <1>0, <2>1 DEF Files
    <2>2. CASE file' = file
      BY <1>0, <2>2
    <2>3. ASSUME NEW l \in Own, NEW x \in Files, file' = [file EXCEPT ![l] = x],
                 file[l] = "none" => dir \/ x = "none", x = "none" => file[l] = "none"
          PROVE  <1>3
      BY <1>0, <2>3
    <2> QED
      BY <1>2, <2>1, <2>2, <2>3
  <1>4. /\ hook' \in [Hooks -> {"begin", "submitting", "mktemp", "mv", "redirect",
                                "mirroring", "end"}]
        /\ \A g \in Hooks \ {h} : hook'[g] = hook[g]
    BY DEF TypeOK, Hook, HookBegins, Submits, HookTemp, HookNames, HookWrites,
           HookGivesUp, MirrorEnds
  <1>5. mirrored' = mirrored \/ mirrored' = mirrored \cup {h}
    BY DEF Hook, HookBegins, Submits, HookTemp, HookNames, HookWrites, HookGivesUp,
           MirrorEnds
  <1>6. \A l \in Logs : l[1] # h => l \notin Own
    BY <1>0
  <1> QED
    BY <1>1, <1>3, <1>4, <1>5, <1>6 DEF TypeOK, Files

------------------------------------------------------------------------------
(***************************************************************************)
(* Progress: the order of the stages.                                      *)
(***************************************************************************)
WorkersTypeOK ==
  /\ pc \in [Workers -> {"begin", "mkdir", "mkstemp", "command", "remove",
                         "variables", "end"}]
  /\ stage \in [Workers -> Stages]
  /\ builds \in [Workers -> 0..MaxBuilds] /\ tasks \in [Workers -> 0..MaxTasks]
  /\ failed \in [Workers -> BOOLEAN]
  /\ code \in [Workers -> {"none", "0", "1", "killed"} \cup Uncaught]
  /\ result \in [Workers -> [Stages -> {"none"} \cup Complete]]

\* No step of another worker is one of v.
Same(v) ==
  /\ pc'[v] = pc[v] /\ stage'[v] = stage[v] /\ code'[v] = code[v]
  /\ builds'[v] = builds[v] /\ tasks'[v] = tasks[v]
  /\ failed'[v] = failed[v] /\ result'[v] = result[v]

LEMMA SameProgress ==
  ASSUME NEW v \in Workers, Progress(v), Same(v)
  PROVE  Progress(v)'
  BY DEF Progress, Same, AllBuilt, NoTasks

LEMMA WorkSame ==
  ASSUME TypeOK, NEW w \in Workers, Work(w), NEW v \in Workers \ {w}
  PROVE  Same(v)
  <1>0. /\ DOMAIN pc = Workers /\ DOMAIN stage = Workers /\ DOMAIN code = Workers
        /\ DOMAIN builds = Workers /\ DOMAIN tasks = Workers
        /\ DOMAIN failed = Workers /\ DOMAIN result = Workers
    BY DEF TypeOK
  <1>1. CASE Materialize(w)
    BY <1>0, <1>1 DEF Same, Materialize, GoTo, End, ToTasks
  <1>2. CASE MakeLogDir(w) \/ CreateLog(w) \/ CreateLogRaises(w)
    BY <1>0, <1>2 DEF Same, MakeLogDir, CreateLog, CreateLogRaises, GoTo, End, Record
  <1>3. CASE Diagnose(w) \/ PrepareEnds(w) \/ RemoveLog(w) \/ RemoveLogRaises(w)
    BY <1>0, <1>3 DEF Same, Diagnose, PrepareEnds, Reported, RemoveLog, RemoveLogRaises,
                      GoTo, End, Record
  <1>4. CASE BuildEnds(w)
    BY <1>0, <1>4 DEF Same, BuildEnds, AfterBuild, GoTo, End, ToTasks, Record
  <1>5. CASE ConfigRaises(w) \/ LoadVariables(w) \/ TaskEnds(w) \/ Killed(w)
    BY <1>0, <1>5 DEF Same, ConfigRaises, LoadVariables, TaskEnds, Killed, GoTo,
                      End, ToTasks, Record
  <1> QED
    BY <1>1, <1>2, <1>3, <1>4, <1>5 DEF Work

LEMMA ProgressInit == Init => \A w \in Workers : Progress(w)
  BY StageNames, BoundsAssumption
     DEF Init, Progress, AllBuilt, NoTasks

\* The two ways on: to the log of another stage, or to the end.
Placed ==
  /\ pc \in [Workers -> {"begin", "mkdir", "mkstemp", "command", "remove",
                         "variables", "end"}]
  /\ stage \in [Workers -> Stages]
  /\ code \in [Workers -> {"none", "0", "1", "killed"} \cup Uncaught]

LEMMA GoToFacts ==
  ASSUME TypeOK, NEW w \in Workers, NEW s \in Stages, GoTo(w, s)
  PROVE  /\ Placed'
         /\ pc'[w] = "mkdir" /\ stage'[w] = s /\ code'[w] = code[w]
  BY DEF TypeOK, GoTo, Placed

LEMMA EndFacts ==
  ASSUME TypeOK, NEW w \in Workers, NEW c \in {"0", "1", "killed"} \cup Uncaught,
         End(w, c)
  PROVE  /\ Placed'
         /\ pc'[w] = "end" /\ stage'[w] = stage[w] /\ code'[w] = c
  BY DEF TypeOK, End, Placed

LEMMA ToTasksFacts ==
  ASSUME TypeOK, NEW w \in Workers, NEW t, ToTasks(w, t)
  PROVE  /\ Placed'
         /\ stage'[w] = stage[w]
         /\ t = 0 => pc'[w] = "end" /\ code'[w] = "0"
         /\ t # 0 => pc'[w] = "variables" /\ code'[w] = code[w]
  <1>1. CASE t = 0
    BY <1>1, EndFacts DEF ToTasks
  <1>2. CASE t # 0
    BY <1>2 DEF TypeOK, ToTasks, Placed
  <1> QED
    BY <1>1, <1>2

\* What a step records is how the present stage has ended.
LEMMA RecordFacts ==
  ASSUME TypeOK, NEW w \in Workers, NEW ok \in BOOLEAN, Record(w, ok)
  PROVE  /\ result' \in [Workers -> [Stages -> {"none"} \cup Complete]]
         /\ result'[w][stage[w]] = IF ok THEN "ok" ELSE "failed"
         /\ \A s \in Stages : s # stage[w] => result'[w][s] = result[w][s]
  <1>1. /\ result \in [Workers -> [Stages -> {"none"} \cup Complete]]
        /\ stage[w] \in Stages
        /\ Footer(ok) \in {"none"} \cup Complete
        /\ Footer(ok) = IF ok THEN "ok" ELSE "failed"
    BY DEF TypeOK, Footer, Complete
  <1>2. result' = [result EXCEPT ![w] = [result[w] EXCEPT ![stage[w]] = Footer(ok)]]
    BY DEF Record
  <1>3. result[w] \in [Stages -> {"none"} \cup Complete]
    BY <1>1
  <1>4. [result[w] EXCEPT ![stage[w]] = Footer(ok)] \in [Stages -> {"none"} \cup Complete]
    BY <1>1, <1>3
  <1> QED
    BY <1>1, <1>2, <1>3, <1>4

LEMMA WorkTypes ==
  ASSUME TypeOK, NEW w \in Workers, Progress(w), Work(w)
  PROVE  WorkersTypeOK'
  <1>0. SUFFICES /\ Placed'
                 /\ builds' \in [Workers -> 0..MaxBuilds]
                 /\ tasks' \in [Workers -> 0..MaxTasks]
                 /\ failed' \in [Workers -> BOOLEAN]
                 /\ result' \in [Workers -> [Stages -> {"none"} \cup Complete]]
    BY DEF Placed, WorkersTypeOK
  <1>1. CASE Materialize(w)
    <2>1. failed' = failed /\ result' = result
      BY <1>1 DEF Materialize
    <2>2. CASE GoTo(w, Config) /\ UNCHANGED <<builds, tasks>>
      BY <2>1, <2>2, GoToFacts, StageNames DEF TypeOK
    <2>3. ASSUME NEW b \in 0..MaxBuilds, NEW t \in 0..MaxTasks,
                 builds' = [builds EXCEPT ![w] = b], tasks' = [tasks EXCEPT ![w] = t],
                 IF b > 0 THEN GoTo(w, Auth) ELSE ToTasks(w, t)
          PROVE  <1>0!1
      <3>1. Placed'
        BY <2>3, GoToFacts, ToTasksFacts, StageNames
      <3> QED
        BY <2>1, <2>3, <3>1 DEF TypeOK
    <2> QED
      BY <1>1, <2>2, <2>3 DEF Materialize
  <1>2. CASE MakeLogDir(w) \/ CreateLog(w)
    BY <1>2 DEF MakeLogDir, CreateLog, TypeOK, Placed
  <1>3. CASE ConfigRaises(w) \/ CreateLogRaises(w) \/ RemoveLogRaises(w) \/ Killed(w)
    BY <1>3, EndFacts
       DEF ConfigRaises, CreateLogRaises, RemoveLogRaises, Killed, TypeOK, Uncaught
  <1>4. CASE Diagnose(w)
    BY <1>4, EndFacts, RecordFacts DEF Diagnose, TypeOK
  <1>5. CASE PrepareEnds(w)
    <2>1. PICK ok \in BOOLEAN : Reported(w, ok) /\ Record(w, ok)
      BY <1>5 DEF PrepareEnds
    <2>2. Placed'
      BY <2>1, EndFacts DEF Reported, TypeOK, Placed
    <2> QED
      BY <1>5, <2>1, <2>2, RecordFacts DEF PrepareEnds, TypeOK
  <1>6. CASE RemoveLog(w)
    <2>1. stage[w] \in {Auth, Infra}
      BY <1>6 DEF RemoveLog, Progress
    <2>2. 1 \in 1..MaxBuilds
      BY <2>1, BoundsAssumption DEF Progress, TypeOK
    <2>3. Placed'
      BY <1>6, <2>2, GoToFacts, StageNames DEF RemoveLog
    <2> QED
      BY <1>6, <2>3 DEF RemoveLog, TypeOK
  <1>7. CASE BuildEnds(w)
    <2>1. PICK i \in 1..MaxBuilds : stage[w] = Build(i)
      BY <1>7 DEF BuildEnds
    <2>2. PICK ok \in BOOLEAN :
            /\ Record(w, ok)
            /\ failed' = [failed EXCEPT ![w] = @ \/ ~ok]
            /\ AfterBuild(w, ok)
      BY <1>7 DEF BuildEnds
    <2>3. stage[w][2] = i /\ (i < builds[w] => i + 1 \in 1..MaxBuilds)
      BY <2>1, StageNames, BoundsAssumption DEF TypeOK
    <2>4. Placed'
      BY <2>2, <2>3, GoToFacts, EndFacts, ToTasksFacts, StageNames DEF AfterBuild
    <2>5. failed' \in [Workers -> BOOLEAN]
      BY <2>2 DEF TypeOK
    <2> QED
      BY <1>7, <2>2, <2>4, <2>5, RecordFacts DEF BuildEnds, TypeOK
  <1>8. CASE LoadVariables(w)
    <2>1. 1 \in 1..MaxTasks
      BY <1>8, BoundsAssumption DEF LoadVariables, Progress, TypeOK
    <2> QED
      BY <1>8, <2>1, GoToFacts, StageNames DEF LoadVariables, TypeOK
  <1>9. CASE TaskEnds(w)
    <2>1. PICK i \in 1..MaxTasks : stage[w] = Task(i)
      BY <1>9 DEF TaskEnds
    <2>2. stage[w][2] = i /\ (i < tasks[w] => i + 1 \in 1..MaxTasks)
      BY <2>1, StageNames, BoundsAssumption DEF TypeOK
    <2>3. Placed' /\ \E ok \in BOOLEAN : Record(w, ok)
      BY <1>9, <2>2, GoToFacts, EndFacts, StageNames DEF TaskEnds
    <2> QED
      BY <1>9, <2>3, RecordFacts DEF TaskEnds, TypeOK
  <1> QED
    BY <1>1, <1>2, <1>3, <1>4, <1>5, <1>6, <1>7, <1>8, <1>9 DEF Work

LEMMA BuildProgress ==
  ASSUME TypeOK, NEW w \in Workers, Progress(w), BuildEnds(w)
  PROVE  Progress(w)'
  <1>1. PICK ok \in BOOLEAN :
          /\ Record(w, ok)
          /\ failed' = [failed EXCEPT ![w] = @ \/ ~ok]
          /\ AfterBuild(w, ok)
    BY DEF BuildEnds
  <1>2. PICK i \in 1..MaxBuilds : stage[w] = Build(i)
    BY DEF BuildEnds
  <1>3. /\ pc[w] = "command" /\ code[w] = "none"
        /\ UNCHANGED <<builds, tasks>>
        /\ builds[w] \in 0..MaxBuilds /\ tasks[w] \in 0..MaxTasks
        /\ failed'[w] = (failed[w] \/ ~ok)
    BY <1>1 DEF BuildEnds, TypeOK, Progress
  <1>4. /\ result'[w][Build(i)] = IF ok THEN "ok" ELSE "failed"
        /\ \A s \in Stages : s # Build(i) => result'[w][s] = result[w][s]
    BY <1>1, <1>2, RecordFacts
  <1>5. /\ \A j \in 1..MaxBuilds : j # i => result'[w][Build(j)] = result[w][Build(j)]
        /\ \A j \in 1..MaxTasks : result'[w][Task(j)] = result[w][Task(j)]
        /\ \A s \in {Auth, Infra, Vars} : result'[w][s] = result[w][s]
    BY <1>4, StageNames
  <1>6. /\ i <= builds[w]
        /\ \A j \in 1..MaxTasks : result[w][Task(j)] = "none"
        /\ \A j \in 1..(i - 1) : result[w][Build(j)] # "none"
        /\ \A j \in (i + 1)..MaxBuilds : result[w][Build(j)] = "none"
        /\ ~failed[w] => \A j \in 1..MaxBuilds : result[w][Build(j)] # "failed"
        /\ failed[w] => \E j \in 1..MaxBuilds : result[w][Build(j)] = "failed"
        /\ result[w][Vars] = "none"
        /\ result[w][Build(i)] = "none"
    BY <1>2, <1>3, StageNames DEF Progress, NoTasks
  <1>7. failed'[w] => \E j \in 1..MaxBuilds : result'[w][Build(j)] = "failed"
    <2>1. CASE ~ok
      BY <1>4, <2>1
    <2>2. CASE ok /\ failed[w]
      BY <1>5, <1>6, <2>2
    <2> QED
      BY <1>3, <2>1, <2>2
  <1>8. ~failed'[w] => \A j \in 1..MaxBuilds : result'[w][Build(j)] # "failed"
    BY <1>3, <1>4, <1>5, <1>6
  <1>9. \A j \in 1..i : result'[w][Build(j)] # "none"
    <2> TAKE j \in 1..i
    <2>1. CASE j = i
      BY <1>4, <2>1
    <2>2. CASE j # i
      <3>1. j \in 1..(i - 1) /\ j \in 1..MaxBuilds
        BY <2>2, BoundsAssumption
      <3> QED
        BY <1>5, <1>6, <2>2, <3>1
    <2> QED
      BY <2>1, <2>2
  <1>10. \A j \in (i + 1)..MaxBuilds : result'[w][Build(j)] = "none"
    BY <1>5, <1>6
  <1>11. \A j \in 1..MaxBuilds : result'[w][Build(j)] \in {"none", "ok", "failed"}
    BY <1>4, <1>5, StageNames DEF TypeOK, Complete
  <1>12. CASE i < builds[w]
    <2>1. i + 1 \in 1..MaxBuilds
      BY <1>3, <1>12, BoundsAssumption
    <2>2. /\ stage'[w] = Build(i + 1) /\ pc'[w] = "mkdir" /\ code'[w] = "none"
      BY <1>1, <1>2, <1>3, <1>12, StageNames DEF AfterBuild, GoTo, TypeOK
    <2>3. \A j \in 1..MaxBuilds : stage'[w] = Build(j) => j = i + 1
      BY <2>2, StageNames
    <2>4. \A j \in 1..i : j \in 1..((i + 1) - 1)
      OBVIOUS
    <2> QED
      BY <1>3, <1>5, <1>6, <1>7, <1>8, <1>9, <1>10, <1>12, <2>1, <2>2, <2>3, StageNames
         DEF Progress, NoTasks
  <1>13. CASE i >= builds[w]
    <2>0. stage[w][2] = i
      BY <1>2, StageNames
    <2>1. i = builds[w] /\ stage'[w] = Build(i)
      <3>1. i = builds[w]
        BY <1>3, <1>6, <1>13, BoundsAssumption
      <3>2. stage' = stage
        BY <1>1, <1>3, <2>0, <3>1, BoundsAssumption DEF AfterBuild, End, ToTasks
      <3> QED
        BY <1>2, <3>1, <3>2
    <2>2. \A j \in 1..MaxBuilds : stage'[w] = Build(j) => j = i
      BY <2>1, StageNames
    <2>3. CASE failed'[w]
      <3>1. pc'[w] = "end" /\ code'[w] = "1"
        BY <1>1, <1>2, <1>3, <1>13, <2>3, StageNames DEF AfterBuild, End, TypeOK
      <3> QED
        BY <1>3, <1>5, <1>6, <1>7, <1>9, <1>10, <2>1, <2>2, <2>3, <3>1, StageNames
           DEF Progress, NoTasks, AllBuilt
    <2>4. CASE ~failed'[w]
      <3>1. \/ tasks[w] = 0 /\ pc'[w] = "end" /\ code'[w] = "0"
            \/ tasks[w] # 0 /\ pc'[w] = "variables" /\ code'[w] = "none"
        <4>1. stage[w][2] = i /\ ~(i < builds[w])
          BY <1>2, <1>3, <1>13, StageNames
        <4>2. ~(failed[w] \/ ~ok)
          BY <1>3, <2>4
        <4>3. ToTasks(w, tasks[w])
          BY <1>1, <4>1, <4>2 DEF AfterBuild
        <4> QED
          BY <1>3, <4>3, ToTasksFacts
      <3>2. \A j \in 1..builds'[w] : result'[w][Build(j)] = "ok"
        <4> TAKE j \in 1..builds'[w]
        <4>1. j \in 1..i /\ j \in 1..MaxBuilds
          BY <1>3, <2>1, BoundsAssumption
        <4> QED
          BY <1>8, <1>9, <1>11, <2>4, <4>1
      <3> QED
        BY <1>3, <1>5, <1>6, <1>8, <1>9, <1>10, <2>1, <2>2, <2>4, <3>1, <3>2, StageNames
           DEF Progress, NoTasks, AllBuilt
    <2> QED
      BY <2>3, <2>4
  <1> QED
    BY <1>3, <1>12, <1>13

\* The steps that leave the stage and what has been done as it is.
LEMMA StayProgress ==
  ASSUME TypeOK, NEW w \in Workers, Progress(w),
         \/ ConfigRaises(w) \/ MakeLogDir(w) \/ CreateLog(w)
         \/ CreateLogRaises(w) \/ RemoveLogRaises(w) \/ Killed(w)
  PROVE  Progress(w)'
  <1>1. UNCHANGED <<stage, builds, tasks, failed, result>>
    BY DEF ConfigRaises, MakeLogDir, CreateLog, CreateLogRaises, RemoveLogRaises, Killed,
           End
  <1>2. \/ pc[w] = "mkdir" /\ pc'[w] = "mkstemp" /\ code'[w] = code[w]
        \/ pc[w] = "mkstemp" /\ pc'[w] = "command" /\ code'[w] = code[w]
        \/ pc'[w] = "end" /\ code'[w] \in {"killed"} \cup Uncaught
    BY DEF TypeOK, ConfigRaises, MakeLogDir, CreateLog, CreateLogRaises, RemoveLogRaises,
           Killed, End, Uncaught
  <1>3. AllBuilt(w)' = AllBuilt(w) /\ NoTasks(w)' = NoTasks(w)
    BY <1>1 DEF AllBuilt, NoTasks
  <1> QED
    BY <1>1, <1>2, <1>3 DEF Progress, Uncaught

LEMMA MaterializeProgress ==
  ASSUME TypeOK, NEW w \in Workers, Progress(w), Materialize(w)
  PROVE  Progress(w)'
  <1>1. /\ pc[w] = "begin" /\ stage[w] = Config /\ code[w] = "none"
        /\ failed' = failed /\ result' = result
        /\ ~failed[w]
        /\ \A s \in {Auth, Infra, Vars} : result[w][s] = "none"
        /\ \A i \in 1..MaxBuilds : result[w][Build(i)] = "none"
        /\ \A i \in 1..MaxTasks : result[w][Task(i)] = "none"
        /\ result[w][Config] = "none"
    BY StageNames DEF Materialize, Progress, NoTasks, TypeOK
  <1>2. CASE GoTo(w, Config) /\ UNCHANGED <<builds, tasks>>
    <2>1. pc'[w] = "mkdir" /\ stage'[w] = Config /\ code'[w] = "none"
      BY <1>1, <1>2, GoToFacts, StageNames
    <2> QED
      BY <1>1, <1>2, <2>1, StageNames DEF Progress, NoTasks
  <1>3. ASSUME NEW b \in 0..MaxBuilds, NEW t \in 0..MaxTasks,
               builds' = [builds EXCEPT ![w] = b], tasks' = [tasks EXCEPT ![w] = t],
               IF b > 0 THEN GoTo(w, Auth) ELSE ToTasks(w, t)
        PROVE  Progress(w)'
    <2>1. builds'[w] = b /\ tasks'[w] = t
      BY <1>3 DEF TypeOK
    <2>2. CASE b > 0
      <3>1. pc'[w] = "mkdir" /\ stage'[w] = Auth /\ code'[w] = "none"
        BY <1>1, <1>3, <2>2, GoToFacts, StageNames
      <3> QED
        BY <1>1, <2>1, <2>2, <3>1, StageNames DEF Progress, NoTasks
    <2>3. CASE ~(b > 0)
      <3>1. b = 0 /\ \A i : i \notin 1..b
        BY <2>3, BoundsAssumption
      <3>2. stage'[w] = Config
        BY <1>1, <1>3, <2>3, ToTasksFacts
      <3>3. AllBuilt(w)'
        BY <2>1, <3>1 DEF AllBuilt
      <3>4. CASE t = 0
        <4>1. pc'[w] = "end" /\ code'[w] = "0"
          BY <1>3, <2>3, <3>4, ToTasksFacts
        <4>2. \A i \in 1..t : result'[w][Task(i)] = "ok"
          BY <3>4
        <4> QED
          BY <1>1, <2>1, <3>1, <3>2, <3>3, <4>1, <4>2, StageNames DEF Progress, NoTasks
      <3>5. CASE t # 0
        <4>1. pc'[w] = "variables" /\ code'[w] = "none"
          BY <1>1, <1>3, <2>3, <3>5, ToTasksFacts
        <4>2. t > 0
          BY <3>5, BoundsAssumption
        <4> QED
          BY <1>1, <2>1, <3>1, <3>2, <3>3, <4>1, <4>2, StageNames DEF Progress, NoTasks
      <3> QED
        BY <3>4, <3>5
    <2> QED
      BY <2>2, <2>3
  <1> QED
    BY <1>2, <1>3 DEF Materialize

LEMMA DiagnoseProgress ==
  ASSUME TypeOK, NEW w \in Workers, Progress(w), Diagnose(w)
  PROVE  Progress(w)'
  <1>1. /\ pc[w] = "command" /\ stage[w] \in {Config, Vars} /\ stage[w] \in Stages
        /\ UNCHANGED <<builds, tasks, failed>>
    BY StageNames DEF Diagnose
  <1>2. pc'[w] = "end" /\ stage'[w] = stage[w] /\ code'[w] = "1"
    BY EndFacts DEF Diagnose
  <1>3. /\ result'[w][stage[w]] = "failed"
        /\ \A s \in Stages : s # stage[w] => result'[w][s] = result[w][s]
    BY RecordFacts DEF Diagnose
  <1>4. /\ \A i \in 1..MaxBuilds : result'[w][Build(i)] = result[w][Build(i)]
        /\ \A i \in 1..MaxTasks : result'[w][Task(i)] = result[w][Task(i)]
        /\ result'[w][Auth] = result[w][Auth]
        /\ result'[w][Infra] = result[w][Infra]
        /\ stage[w] # Vars => result'[w][Vars] = result[w][Vars]
    BY <1>1, <1>3, StageNames
  <1>5. builds[w] \in 0..MaxBuilds /\ tasks[w] \in 0..MaxTasks
    BY DEF TypeOK
  <1>6. \A i \in 1..builds[w] : i \in 1..MaxBuilds
    BY <1>5, BoundsAssumption
  <1>7. AllBuilt(w)' = AllBuilt(w) /\ NoTasks(w)' = NoTasks(w)
    BY <1>1, <1>4, <1>6 DEF AllBuilt, NoTasks
  <1>8. ~failed[w]
    BY <1>1 DEF Progress
  <1>9. \E s \in Stages : result'[w][s] = "failed"
    BY <1>1, <1>3
  <1>10. \A i : stage'[w] # Build(i) /\ stage'[w] # Task(i)
    BY <1>1, <1>2, StageNames
  <1>11. CASE stage[w] = Config
    BY <1>1, <1>2, <1>3, <1>4, <1>7, <1>8, <1>9, <1>10, <1>11, StageNames
       DEF Progress, NoTasks
  <1>12. CASE stage[w] = Vars
    BY <1>1, <1>2, <1>3, <1>4, <1>7, <1>8, <1>9, <1>10, <1>12, StageNames
       DEF Progress, NoTasks
  <1> QED
    BY <1>1, <1>11, <1>12

LEMMA PrepareProgress ==
  ASSUME TypeOK, NEW w \in Workers, Progress(w), PrepareEnds(w)
  PROVE  Progress(w)'
  <1>1. PICK ok \in BOOLEAN : Reported(w, ok) /\ Record(w, ok)
    BY DEF PrepareEnds
  <1>2. /\ pc[w] = "command" /\ stage[w] \in {Auth, Infra} /\ stage[w] \in Stages
        /\ code[w] = "none"
        /\ UNCHANGED <<builds, tasks, failed>>
    BY StageNames DEF PrepareEnds, Progress
  <1>3. /\ result'[w][stage[w]] = IF ok THEN "ok" ELSE "failed"
        /\ \A s \in Stages : s # stage[w] => result'[w][s] = result[w][s]
    BY <1>1, RecordFacts
  <1>4. /\ \A i \in 1..MaxBuilds : result'[w][Build(i)] = result[w][Build(i)]
        /\ \A i \in 1..MaxTasks : result'[w][Task(i)] = result[w][Task(i)]
        /\ result'[w][Vars] = result[w][Vars]
        /\ stage[w] # Auth => result'[w][Auth] = result[w][Auth]
        /\ stage[w] # Infra => result'[w][Infra] = result[w][Infra]
    BY <1>2, <1>3, StageNames
  <1>5. NoTasks(w)' = NoTasks(w)
    BY <1>4 DEF NoTasks
  <1>6. /\ stage'[w] = stage[w]
        /\ \/ ok /\ pc'[w] = "remove" /\ code'[w] = "none"
           \/ ~ok /\ pc'[w] = "end" /\ code'[w] = "1"
    <2>1. CASE ok
      BY <1>1, <1>2, <2>1 DEF Reported, TypeOK
    <2>2. CASE ~ok
      BY <1>1, <1>2, <2>2, EndFacts DEF Reported
    <2> QED
      BY <2>1, <2>2
  <1>7. /\ ~failed[w] /\ NoTasks(w)
        /\ \A i \in 1..MaxBuilds : result[w][Build(i)] = "none"
        /\ builds[w] > 0 /\ result[w][Vars] = "none"
        /\ stage[w] = Auth => result[w][Infra] = "none"
    BY <1>2, StageNames DEF Progress
  <1> QED
    BY <1>2, <1>3, <1>4, <1>5, <1>6, <1>7, StageNames DEF Progress, NoTasks

LEMMA RemoveProgress ==
  ASSUME TypeOK, NEW w \in Workers, Progress(w), RemoveLog(w)
  PROVE  Progress(w)'
  <1>1. /\ pc[w] = "remove" /\ stage[w] \in {Auth, Infra} /\ code[w] = "none"
        /\ UNCHANGED <<builds, tasks, failed, result>>
        /\ ~failed[w] /\ NoTasks(w)
        /\ \A i \in 1..MaxBuilds : result[w][Build(i)] = "none"
        /\ builds[w] > 0 /\ result[w][Vars] = "none"
        /\ stage[w] = Auth => result[w][Infra] = "none"
    BY StageNames DEF RemoveLog, Progress
  <1>2. 1 \in 1..MaxBuilds /\ 1 <= builds[w]
    BY <1>1, BoundsAssumption DEF TypeOK
  <1>3. /\ pc'[w] = "mkdir" /\ code'[w] = "none"
        /\ stage'[w] = IF stage[w] = Auth THEN Infra ELSE Build(1)
    BY <1>1, <1>2, GoToFacts, StageNames DEF RemoveLog
  <1>4. NoTasks(w)' = NoTasks(w)
    BY <1>1 DEF NoTasks
  <1>5. CASE stage[w] = Auth
    BY <1>1, <1>2, <1>3, <1>4, <1>5, StageNames DEF Progress, NoTasks
  <1>6. CASE stage[w] # Auth
    <2>1. stage'[w] = Build(1) /\ \A i \in 1..MaxBuilds : stage'[w] = Build(i) => i = 1
      BY <1>3, <1>6, StageNames
    <2>2. \A j : j \notin 1..(1 - 1)
      OBVIOUS
    <2>3. \A j \in (1 + 1)..MaxBuilds : j \in 1..MaxBuilds
      BY BoundsAssumption
    <2> QED
      BY <1>1, <1>2, <1>3, <1>4, <2>1, <2>2, <2>3, StageNames DEF Progress, NoTasks
  <1> QED
    BY <1>5, <1>6

LEMMA VariablesProgress ==
  ASSUME TypeOK, NEW w \in Workers, Progress(w), LoadVariables(w)
  PROVE  Progress(w)'
  <1>1. /\ pc[w] = "variables" /\ code[w] = "none"
        /\ UNCHANGED <<builds, tasks, failed, result>>
        /\ ~failed[w] /\ AllBuilt(w) /\ NoTasks(w)
        /\ tasks[w] > 0
    BY DEF LoadVariables, Progress
  <1>2. 1 \in 1..MaxTasks /\ 1 <= tasks[w]
    BY <1>1, BoundsAssumption DEF TypeOK
  <1>3. /\ pc'[w] = "mkdir" /\ code'[w] = "none"
        /\ stage'[w] \in {Task(1), Vars}
    BY <1>1, <1>2, GoToFacts, StageNames DEF LoadVariables
  <1>4. NoTasks(w)' /\ AllBuilt(w)'
    BY <1>1 DEF NoTasks, AllBuilt
  <1>5. result[w][Vars] = "none"
    BY <1>1, <1>3 DEF Progress
  <1>6. \A i \in 1..MaxTasks : stage'[w] = Task(i) => i = 1
    BY <1>3, StageNames
  <1>7. \A j : j \notin 1..(1 - 1)
    OBVIOUS
  <1>8. \A j \in (1 + 1)..MaxTasks : j \in 1..MaxTasks
    BY BoundsAssumption
  <1> QED
    BY <1>1, <1>2, <1>3, <1>4, <1>5, <1>6, <1>7, <1>8, StageNames DEF Progress, NoTasks

LEMMA TaskProgress ==
  ASSUME TypeOK, NEW w \in Workers, Progress(w), TaskEnds(w)
  PROVE  Progress(w)'
  <1>1. PICK ok \in BOOLEAN :
          /\ Record(w, ok)
          /\ IF ~ok THEN End(w, "1")
             ELSE IF stage[w][2] < tasks[w] THEN GoTo(w, Task(stage[w][2] + 1))
             ELSE End(w, "0")
    BY DEF TaskEnds
  <1>2. PICK i \in 1..MaxTasks : stage[w] = Task(i)
    BY DEF TaskEnds
  <1>3. /\ pc[w] = "command" /\ code[w] = "none" /\ stage[w][2] = i
        /\ UNCHANGED <<builds, tasks, failed>>
        /\ builds[w] \in 0..MaxBuilds /\ tasks[w] \in 0..MaxTasks
    BY <1>2, StageNames DEF TaskEnds, TypeOK, Progress
  <1>4. /\ result'[w][Task(i)] = IF ok THEN "ok" ELSE "failed"
        /\ \A s \in Stages : s # Task(i) => result'[w][s] = result[w][s]
    BY <1>1, <1>2, RecordFacts
  <1>5. /\ \A j \in 1..MaxBuilds : result'[w][Build(j)] = result[w][Build(j)]
        /\ \A j \in 1..MaxTasks : j # i => result'[w][Task(j)] = result[w][Task(j)]
        /\ \A s \in {Auth, Infra, Vars} : result'[w][s] = result[w][s]
    BY <1>4, StageNames
  <1>6. /\ i <= tasks[w] /\ ~failed[w] /\ AllBuilt(w)
        /\ \A j \in (i + 1)..MaxTasks : result[w][Task(j)] = "none"
        /\ \A j \in 1..(i - 1) : result[w][Task(j)] = "ok"
        /\ \A k \in 1..MaxTasks : result[w][Task(k)] # "none" =>
             \A j \in 1..(k - 1) : result[w][Task(j)] = "ok"
        /\ result[w][Vars] = "none" /\ result[w][Task(i)] = "none"
    BY <1>2, <1>3, StageNames DEF Progress
  <1>7. AllBuilt(w)'
    <2>1. \A j \in 1..builds[w] : j \in 1..MaxBuilds
      BY <1>3, BoundsAssumption
    <2> QED
      BY <1>3, <1>5, <1>6, <2>1 DEF AllBuilt
  <1>8. \A j \in (i + 1)..MaxTasks : result'[w][Task(j)] = "none"
    <2>1. \A j \in (i + 1)..MaxTasks : j \in 1..MaxTasks /\ j # i
      BY BoundsAssumption
    <2> QED
      BY <1>5, <1>6, <2>1
  <1>9. \A j \in 1..(i - 1) : result'[w][Task(j)] = "ok"
    <2>1. \A j \in 1..(i - 1) : j \in 1..MaxTasks /\ j # i
      BY BoundsAssumption
    <2> QED
      BY <1>5, <1>6, <2>1
  <1>10. \A k \in 1..MaxTasks : result'[w][Task(k)] # "none" =>
           \A j \in 1..(k - 1) : result'[w][Task(j)] = "ok"
    <2> TAKE k \in 1..MaxTasks
    <2> HAVE result'[w][Task(k)] # "none"
    <2>1. k \notin (i + 1)..MaxTasks
      BY <1>8
    <2>2. \A j \in 1..(k - 1) : j \in 1..(i - 1)
      BY <2>1, BoundsAssumption
    <2> QED
      BY <1>9, <2>2
  <1>11. CASE ok /\ i < tasks[w]
    <2>1. i + 1 \in 1..MaxTasks /\ i + 1 <= tasks[w]
      BY <1>3, <1>11, BoundsAssumption
    <2>2. stage'[w] = Task(i + 1) /\ pc'[w] = "mkdir" /\ code'[w] = "none"
      BY <1>1, <1>3, <1>11, <2>1, GoToFacts, StageNames
    <2>3. \A j \in 1..MaxTasks : stage'[w] = Task(j) => j = i + 1
      BY <2>2, StageNames
    <2>4. \A j \in 1..((i + 1) - 1) : result'[w][Task(j)] = "ok"
      <3>1. \A j \in 1..((i + 1) - 1) : j = i \/ j \in 1..(i - 1)
        OBVIOUS
      <3> QED
        BY <1>4, <1>9, <1>11, <3>1
    <2>5. \A j \in ((i + 1) + 1)..MaxTasks : j \in (i + 1)..MaxTasks
      BY BoundsAssumption
    <2>6. i + 1 \in (i + 1)..MaxTasks
      BY <2>1
    <2> QED
      BY <1>3, <1>5, <1>6, <1>7, <1>8, <1>10, <2>1, <2>2, <2>3, <2>4, <2>5, <2>6,
         StageNames DEF Progress
  <1>12. CASE ~ok
    <2>1. stage'[w] = Task(i) /\ pc'[w] = "end" /\ code'[w] = "1"
      BY <1>1, <1>2, <1>12, EndFacts
    <2>2. \A j \in 1..MaxTasks : stage'[w] = Task(j) => j = i
      BY <2>1, StageNames
    <2>3. Task(i) \in Stages /\ result'[w][Task(i)] = "failed"
      BY <1>4, <1>12, StageNames
    <2> QED
      BY <1>3, <1>5, <1>6, <1>7, <1>8, <1>9, <1>10, <2>1, <2>2, <2>3, StageNames
         DEF Progress
  <1>13. CASE ok /\ ~(i < tasks[w])
    <2>1. stage'[w] = Task(i) /\ pc'[w] = "end" /\ code'[w] = "0"
      BY <1>1, <1>2, <1>3, <1>13, EndFacts
    <2>2. \A j \in 1..MaxTasks : stage'[w] = Task(j) => j = i
      BY <2>1, StageNames
    <2>3. \A j \in 1..tasks[w] : result'[w][Task(j)] = "ok"
      <3>1. \A j \in 1..tasks[w] : j = i \/ j \in 1..(i - 1)
        BY <1>3, <1>6, <1>13
      <3> QED
        BY <1>4, <1>9, <1>13, <3>1
    <2> QED
      BY <1>3, <1>5, <1>6, <1>7, <1>8, <1>9, <1>10, <2>1, <2>2, <2>3, StageNames
         DEF Progress
  <1> QED
    BY <1>11, <1>12, <1>13

LEMMA WorkProgress ==
  ASSUME TypeOK, NEW w \in Workers, Progress(w), Work(w)
  PROVE  Progress(w)'
  BY StayProgress, MaterializeProgress, DiagnoseProgress, PrepareProgress, RemoveProgress,
     BuildProgress, VariablesProgress, TaskProgress DEF Work

------------------------------------------------------------------------------
(***************************************************************************)
(* The logs of an execution while the others take their steps.             *)
(***************************************************************************)

\* What only grows, and a directory that is only lost to somebody.
Grows ==
  /\ old \subseteq old' /\ asked \subseteq asked' /\ gone \subseteq gone'
  /\ dir => dir' \/ gone' # {}

\* The logs of the execution e are left alone, but for a removal on request or
\* of what is old.
Steady(e) ==
  \A l \in Logs : l[1] = e =>
     \/ file'[l] = file[l]
     \/ file'[l] = "none" /\ l \in asked' \cup old

Cleaned ==
  /\ Grows /\ old' = old /\ sweeps' \subseteq old
  /\ \A e : Steady(e)
  /\ Sweeping'

\* A step of the retention or of a request removes what is old or what it was
\* asked to, and the retention lists nothing but old logs.
LEMMA CleanupSteps ==
  ASSUME TypeOK, Retained, Sweeping, Retention \/ Deletion
  PROVE  Cleaned
  <1> USE DEF TypeOK, LogsTypeOK, Retained, Sweeping, Cleaned, Grows, Steady
  <1>1. CASE SweepStart \/ SweepList \/ SweepCheck
    BY <1>1 DEF SweepStart, SweepList, SweepCheck
  <1>2. ASSUME NEW l \in Logs, SweepEntry(l) PROVE Cleaned
    BY <1>2 DEF SweepEntry, First
  <1>3. CASE SweepDir
    BY <1>3 DEF SweepDir
  <1>4. ASSUME NEW r \in Requests, Wipe(r) \/ WipeList(r) PROVE Cleaned
    BY <1>4 DEF Wipe, WipeList
  <1>6. ASSUME NEW r \in Requests, WipeDir(r) PROVE Cleaned
    BY <1>6 DEF WipeDir
  <1>7. ASSUME NEW r \in Requests, NEW l \in Logs, WipeEntry(r, l) PROVE Cleaned
    BY <1>7 DEF WipeEntry
  <1>8. ASSUME NEW r \in Requests, NEW l \in Logs, DeleteOne(r, l) PROVE Cleaned
    BY <1>8 DEF DeleteOne
  <1> QED
    BY <1>1, <1>2, <1>3, <1>4, <1>6, <1>7, <1>8 DEF Retention, Deletion

LEMMA SteadyWorker ==
  ASSUME TypeOK, Retained, NEW w \in Workers, WorkerLogs(w), Same(w), Grows, Steady(w)
  PROVE  WorkerLogs(w)'
  <1>1. /\ LogOf(w)' = LogOf(w) /\ LogOf(w) \in Logs /\ LogOf(w)[1] = w
        /\ \A s \in Stages : <<w, s>> \in Logs /\ <<w, s>>[1] = w
    BY WorkerLogNames DEF Same, LogOf
  <1>2. pc[w] # "end" => \A l \in Logs : l[1] = w => l \notin old
    BY DEF Retained
  <1>3. /\ pc[w] # "end" =>
             \/ file'[LogOf(w)] = file[LogOf(w)]
             \/ file'[LogOf(w)] = "none" /\ LogOf(w) \in asked'
        /\ \A s \in Stages :
             \/ file'[<<w, s>>] = file[<<w, s>>]
             \/ file'[<<w, s>>] = "none" /\ <<w, s>> \in asked' \cup old
    BY <1>1, <1>2 DEF Steady
  <1>4. /\ (pc[w] = "mkstemp" => dir \/ gone # {})'
        /\ (code[w] = "missing" => gone # {} \/ LogOf(w) \in asked)'
    BY <1>1 DEF Same, Grows, WorkerLogs
  <1>5. /\ (pc[w] = "command" => file[LogOf(w)] = "open" \/ Removed(LogOf(w)))'
        /\ (pc[w] = "remove" => file[LogOf(w)] # "none" \/ Removed(LogOf(w)))'
    BY <1>1, <1>3 DEF Same, Grows, WorkerLogs, Removed
  <1>6. (\A s \in Stages : result[w][s] = "failed" =>
           file[<<w, s>>] = "failed"
           \/ (file[<<w, s>>] = "none" /\ <<w, s>> \in asked \cup old))'
    BY <1>3 DEF Same, Grows, WorkerLogs
  <1>7. (\A s \in {Auth, Infra} : file[<<w, s>>] # "none" => stage[w] = s)'
    BY <1>3, StageNames DEF Same, WorkerLogs
  <1> QED
    BY <1>4, <1>5, <1>6, <1>7 DEF WorkerLogs

LEMMA SteadyHook ==
  ASSUME TypeOK, Retained, NEW h \in Hooks, HookFiles(h), Grows, Steady(h),
         hook'[h] = hook[h], h \in mirrored' <=> h \in mirrored
  PROVE  HookFiles(h)'
  <1>1. <<h, Mirror>> \in Logs /\ <<h, Mirror>>[1] = h
    BY WorkerLogNames
  <1>2. hook[h] # "end" => <<h, Mirror>> \notin old
    BY <1>1 DEF Retained
  <1>3. hook[h] # "end" =>
           \/ file'[<<h, Mirror>>] = file[<<h, Mirror>>]
           \/ file'[<<h, Mirror>>] = "none" /\ <<h, Mirror>> \in asked'
    BY <1>1, <1>2 DEF Steady
  <1> QED
    BY <1>3 DEF HookFiles, Removed, Grows

------------------------------------------------------------------------------
(***************************************************************************)
(* The logs of an execution in its own steps.                              *)
(***************************************************************************)
LEMMA OwnLogs ==
  ASSUME TypeOK, NEW w \in Workers, Progress(w), WorkerLogs(w), Work(w)
  PROVE  WorkerLogs(w)'
  <1>1. /\ UNCHANGED <<old, asked, gone>>
        /\ dir => dir'
        /\ \A l \in Logs \ {LogOf(w)} : file'[l] = file[l]
        /\ LogOf(w) \in Logs
        /\ stage[w] \in Stages
        /\ \A s \in Stages : <<w, s>> \in Logs
    BY WorkLogs, WorkerLogNames
  <1>2. \A s \in Stages \ {stage[w]} : file'[<<w, s>>] = file[<<w, s>>]
    BY <1>1 DEF LogOf
  <1>3. CASE \/ Materialize(w) \/ ConfigRaises(w) \/ MakeLogDir(w)
             \/ CreateLogRaises(w) \/ RemoveLogRaises(w) \/ LoadVariables(w) \/ Killed(w)
    <2>1. file' = file /\ result' = result
      BY <1>3 DEF Materialize, ConfigRaises, MakeLogDir, MakeDir, CreateLogRaises,
                  RemoveLogRaises, LoadVariables, Killed, logvars
    <2>2. CASE Materialize(w) \/ LoadVariables(w)
      <3>1. /\ pc'[w] \in {"mkdir", "variables", "end"} /\ code'[w] \in {"none", "0"}
            /\ stage[w] \notin {Auth, Infra}
        <4>1. stage[w] \notin {Auth, Infra} /\ code[w] = "none"
          BY <2>2, StageNames DEF Materialize, LoadVariables, Progress
        <4>2. \/ \E s \in Stages : GoTo(w, s)
              \/ \E t : ToTasks(w, t)
              \/ GoTo(w, Task(1))
          BY <2>2, StageNames DEF Materialize, LoadVariables
        <4> QED
          BY <4>1, <4>2 DEF GoTo, ToTasks, End, TypeOK
      <3> QED
        BY <1>1, <2>1, <3>1, StageNames DEF WorkerLogs
    <2>3. CASE MakeLogDir(w)
      <3>1. dir' /\ pc'[w] = "mkstemp" /\ code' = code /\ stage' = stage
        BY <2>3 DEF MakeLogDir, MakeDir, TypeOK
      <3> QED
        BY <1>1, <2>1, <3>1 DEF WorkerLogs, LogOf
    <2>4. CASE ConfigRaises(w) \/ CreateLogRaises(w) \/ RemoveLogRaises(w) \/ Killed(w)
      <3>1. /\ pc'[w] = "end" /\ stage' = stage
            /\ code'[w] = "missing" =>
                 \/ pc[w] = "mkstemp" /\ ~dir
                 \/ pc[w] = "remove" /\ file[LogOf(w)] = "none"
        BY <2>4 DEF ConfigRaises, CreateLogRaises, RemoveLogRaises, Killed, End, TypeOK
      <3> QED
        BY <1>1, <2>1, <3>1 DEF WorkerLogs, LogOf, Removed
    <2> QED
      BY <1>3, <2>2, <2>3, <2>4
  <1>4. CASE CreateLog(w)
    <2>1. /\ file'[LogOf(w)] = "open" /\ pc'[w] = "command"
          /\ stage' = stage /\ result' = result /\ code' = code
          /\ code[w] = "none" /\ result[w][stage[w]] = "none"
      BY <1>1, <1>4 DEF CreateLog, Write, TypeOK, LogsTypeOK, Progress
    <2> QED
      BY <1>1, <1>2, <2>1, StageNames DEF WorkerLogs, LogOf
  <1>5. CASE RemoveLog(w)
    <2>1. /\ file'[LogOf(w)] = "none" /\ pc'[w] = "mkdir"
          /\ result' = result /\ code' = code
          /\ code[w] = "none" /\ result[w][stage[w]] = "ok"
      BY <1>1, <1>5 DEF RemoveLog, Write, GoTo, TypeOK, LogsTypeOK, Progress
    <2>2. \A s \in {Auth, Infra} : file'[<<w, s>>] = "none"
      BY <1>2, <2>1, StageNames DEF WorkerLogs, LogOf
    <2> QED
      BY <1>1, <1>2, <2>1, <2>2, StageNames DEF WorkerLogs
  <1>6. CASE Diagnose(w) \/ PrepareEnds(w) \/ BuildEnds(w) \/ TaskEnds(w)
    <2>1. PICK ok \in BOOLEAN : Close(LogOf(w), Footer(ok)) /\ Record(w, ok)
      <3>1. CASE Diagnose(w)
        BY <3>1 DEF Diagnose, Footer
      <3>2. CASE PrepareEnds(w)
        BY <3>2 DEF PrepareEnds, Reported
      <3>3. CASE BuildEnds(w) \/ TaskEnds(w)
        BY <3>3 DEF BuildEnds, TaskEnds
      <3> QED
        BY <1>6, <3>1, <3>2, <3>3
    <2>2. /\ file'[LogOf(w)] = IF file[LogOf(w)] = "open" THEN Footer(ok)
                               ELSE file[LogOf(w)]
          /\ Footer(ok) = IF ok THEN "ok" ELSE "failed"
      BY <1>1, <2>1 DEF Close, Write, Footer, TypeOK, LogsTypeOK
    <2>3. pc[w] = "command" /\ code[w] = "none"
      BY <1>6 DEF Diagnose, PrepareEnds, BuildEnds, TaskEnds, Progress
    <2>4. \/ file'[LogOf(w)] = IF ok THEN "ok" ELSE "failed"
          \/ file'[LogOf(w)] = "none" /\ LogOf(w) \in asked
      BY <2>2, <2>3 DEF WorkerLogs, Removed
    <2>5. /\ result'[w][stage[w]] = IF ok THEN "ok" ELSE "failed"
          /\ \A s \in Stages : s # stage[w] => result'[w][s] = result[w][s]
      BY <2>1, RecordFacts
    <2>6. /\ \/ pc'[w] \in {"mkdir", "variables", "end"}
             \/ pc'[w] = "remove" /\ stage'[w] = stage[w]
          /\ code'[w] \in {"none", "0", "1"}
          /\ stage[w] \in {Auth, Infra} => stage'[w] = stage[w]
      <3>1. CASE Diagnose(w)
        BY <3>1, EndFacts DEF Diagnose
      <3>2. CASE PrepareEnds(w)
        <4>1. PICK x \in BOOLEAN : Reported(w, x)
          BY <3>2 DEF PrepareEnds
        <4>2. CASE x
          BY <2>3, <4>1, <4>2 DEF Reported, TypeOK
        <4>3. CASE ~x
          BY <4>1, <4>3, EndFacts DEF Reported
        <4> QED
          BY <4>2, <4>3
      <3>3. CASE BuildEnds(w)
        <4>1. PICK x \in BOOLEAN : AfterBuild(w, x)
          BY <3>3 DEF BuildEnds
        <4>2. stage[w] \notin {Auth, Infra}
          BY <3>3, StageNames DEF BuildEnds
        <4> QED
          BY <2>3, <4>1, <4>2 DEF AfterBuild, GoTo, End, ToTasks, TypeOK
      <3>4. CASE TaskEnds(w)
        <4>1. stage[w] \notin {Auth, Infra}
          BY <3>4, StageNames DEF TaskEnds
        <4> QED
          BY <2>3, <3>4, <4>1 DEF TaskEnds, GoTo, End, TypeOK
      <3> QED
        BY <1>6, <3>1, <3>2, <3>3, <3>4
    <2>7. /\ (pc[w] = "mkstemp" => dir \/ gone # {})'
          /\ (pc[w] = "command" => file[LogOf(w)] = "open" \/ Removed(LogOf(w)))'
          /\ (code[w] = "missing" => gone # {} \/ LogOf(w) \in asked)'
      BY <2>6
    <2>8. (pc[w] = "remove" => file[LogOf(w)] # "none" \/ Removed(LogOf(w)))'
      BY <1>1, <2>4, <2>6 DEF LogOf, Removed
    <2>9. (\A s \in Stages : result[w][s] = "failed" =>
             file[<<w, s>>] = "failed"
             \/ (file[<<w, s>>] = "none" /\ <<w, s>> \in asked \cup old))'
      BY <1>1, <1>2, <2>4, <2>5 DEF WorkerLogs, LogOf
    <2>10. (\A s \in {Auth, Infra} : file[<<w, s>>] # "none" => stage[w] = s)'
      BY <1>2, <2>6, StageNames DEF WorkerLogs
    <2> QED
      BY <2>7, <2>8, <2>9, <2>10 DEF WorkerLogs
  <1> QED
    BY <1>3, <1>4, <1>5, <1>6 DEF Work

LEMMA OwnFiles ==
  ASSUME TypeOK, NEW h \in Hooks, HookFiles(h), Hook(h)
  PROVE  HookFiles(h)' /\ hook[h] # "end"
  <1>1. /\ asked' = asked /\ gone' = gone /\ (dir => dir') /\ dir' \in BOOLEAN
        /\ <<h, Mirror>> \in Logs
    BY HookSteps, WorkerLogNames
  <1> USE DEF TypeOK, LogsTypeOK, HookFiles, Removed
  <1>2. CASE HookBegins(h)
    BY <1>1, <1>2 DEF HookBegins, MakeDir
  <1>3. CASE Submits(h)
    BY <1>1, <1>3 DEF Submits
  <1>4. CASE HookTemp(h)
    BY <1>1, <1>4 DEF HookTemp, Write
  <1>5. CASE HookNames(h)
    BY <1>1, <1>5 DEF HookNames, Write
  <1>6. CASE HookWrites(h)
    BY <1>1, <1>6 DEF HookWrites, Write
  <1>7. CASE HookGivesUp(h)
    BY <1>1, <1>7 DEF HookGivesUp, logvars
  <1>8. CASE MirrorEnds(h)
    BY <1>1, <1>8 DEF MirrorEnds, Close, Write
  <1> QED
    BY <1>2, <1>3, <1>4, <1>5, <1>6, <1>7, <1>8 DEF Hook

------------------------------------------------------------------------------
(***************************************************************************)
(* The inductive invariant.                                                *)
(***************************************************************************)
LEMMA Initially == Init => IInv
  <1> SUFFICES ASSUME Init PROVE IInv
    OBVIOUS
  <1>1. TypeOK /\ \A w \in Workers : Progress(w)
    BY TypeInit, ProgressInit
  <1>2. /\ old = {} /\ sweeps = {} /\ sweep = "asleep" /\ mirrored = {}
        /\ \A l \in Logs : file[l] = "none"
        /\ \A w \in Workers : pc[w] = "begin" /\ code[w] = "none"
        /\ \A w \in Workers, s \in Stages : result[w][s] = "none"
        /\ \A h \in Hooks : hook[h] = "begin"
    BY DEF Init, LogsInit
  <1>3. Retained /\ Sweeping
    BY <1>2 DEF Retained, Sweeping
  <1>4. \A w \in Workers : WorkerLogs(w)
    BY <1>1, <1>2, WorkerLogNames, StageNames DEF WorkerLogs
  <1>5. \A h \in Hooks : HookFiles(h)
    BY <1>2 DEF HookFiles
  <1> QED
    BY <1>1, <1>3, <1>4, <1>5 DEF IInv

\* A worker works.
LEMMA WorkStep ==
  ASSUME IInv, NEW w \in Workers, Work(w)
  PROVE  IInv'
  <1> USE DEF IInv
  <1>1. /\ UNCHANGED <<old, sweep, sweeps, wipe, wipes, asked, gone, hook, mirrored>>
        /\ (dir => dir') /\ dir' \in BOOLEAN
        /\ faults' \in 0..MaxFaults
        /\ file' \in [Logs -> {"none", "temp", "open", "ok", "failed"}]
        /\ \A l \in Logs \ {LogOf(w)} : file'[l] = file[l]
        /\ file'[LogOf(w)] # "none" /\ file[LogOf(w)] = "none" => dir
        /\ pc[w] # "end"
    BY WorkLogs DEF hooks
  <1>2. TypeOK'
    <2>1. WorkersTypeOK'
      BY WorkTypes
    <2>2. Present' # {} => dir'
      BY <1>1 DEF TypeOK, LogsTypeOK, Present
    <2>3. LogsTypeOK'
      BY <1>1, <2>2 DEF TypeOK, LogsTypeOK
    <2> QED
      BY <1>1, <2>1, <2>3 DEF TypeOK, WorkersTypeOK
  <1>3. \A v \in Workers \ {w} : Same(v)
    BY WorkSame
  <1>4. \A v \in Workers : Progress(v)'
    <2> TAKE v \in Workers
    <2>1. CASE v = w
      BY <2>1, WorkProgress
    <2>2. CASE v # w
      BY <1>3, <2>2, SameProgress
    <2> QED
      BY <2>1, <2>2
  <1>5. Grows /\ \A e : e # w => Steady(e)
    BY <1>1 DEF Grows, Steady, LogOf
  <1>6. \A v \in Workers : WorkerLogs(v)'
    <2> TAKE v \in Workers
    <2>1. CASE v = w
      BY <2>1, OwnLogs
    <2>2. CASE v # w
      BY <1>3, <1>5, <2>2, SteadyWorker
    <2> QED
      BY <2>1, <2>2
  <1>7. \A h \in Hooks : HookFiles(h)'
    <2> TAKE h \in Hooks
    <2>1. h # w
      BY ProcessesAssumption
    <2> QED
      BY <1>1, <1>5, <2>1, SteadyHook
  <1>8. Retained'
    <2>1. \A v \in Workers \ {w} : pc'[v] = pc[v]
      BY <1>3 DEF Same
    <2> QED
      BY <1>1, <2>1 DEF Retained
  <1>9. Sweeping'
    BY <1>1 DEF Sweeping
  <1> QED
    BY <1>2, <1>4, <1>6, <1>7, <1>8, <1>9

\* What only concerns the logs leaves the workers as they are.
LEMMA OthersWorkers ==
  ASSUME IInv, UNCHANGED workers, Grows, \A w \in Workers : Steady(w)
  PROVE  \A w \in Workers : Progress(w)' /\ WorkerLogs(w)'
  <1>1. \A w \in Workers : Same(w)
    BY DEF Same, workers
  <1> QED
    BY <1>1, SameProgress, SteadyWorker DEF IInv

\* A hook takes a step.
LEMMA HookStep ==
  ASSUME IInv, NEW h \in Hooks, Hook(h)
  PROVE  IInv'
  <1> USE DEF IInv
  <1>1. /\ UNCHANGED <<old, sweep, sweeps, wipe, wipes, asked, gone, faults, workers>>
        /\ (dir => dir') /\ dir' \in BOOLEAN
        /\ file' \in [Logs -> {"none", "temp", "open", "ok", "failed"}]
        /\ hook' \in [Hooks -> {"begin", "submitting", "mktemp", "mv", "redirect",
                                "mirroring", "end"}]
        /\ mirrored' \subseteq Hooks
        /\ \A g \in Hooks \ {h} :
             /\ hook'[g] = hook[g]
             /\ g \in mirrored' <=> g \in mirrored
        /\ \A l \in Logs : l[1] # h => \/ file'[l] = file[l]
                                       \/ file'[l] = "none" /\ l \in old
        /\ \A l \in Logs : file'[l] # "none" /\ file[l] = "none" => dir
    BY HookSteps
  <1>2. UNCHANGED <<pc, stage, builds, tasks, failed, code, result>>
    BY <1>1 DEF workers
  <1>3. TypeOK'
    <2>1. Present' # {} => dir'
      BY <1>1 DEF TypeOK, LogsTypeOK, Present
    <2>2. LogsTypeOK'
      BY <1>1, <2>1 DEF TypeOK, LogsTypeOK
    <2> QED
      BY <1>1, <1>2, <2>2 DEF TypeOK
  <1>4. Grows /\ \A e : e # h => Steady(e)
    BY <1>1 DEF Grows, Steady
  <1>5. \A w \in Workers : w # h
    BY ProcessesAssumption
  <1>6. \A w \in Workers : Progress(w)' /\ WorkerLogs(w)'
    BY <1>1, <1>4, <1>5, OthersWorkers
  <1>7. HookFiles(h)' /\ hook[h] # "end"
    BY OwnFiles
  <1>8. \A g \in Hooks : HookFiles(g)'
    BY <1>1, <1>4, <1>7, SteadyHook
  <1>9. Retained'
    BY <1>1, <1>2, <1>7 DEF Retained
  <1>10. Sweeping'
    BY <1>1 DEF Sweeping
  <1> QED
    BY <1>3, <1>6, <1>8, <1>9, <1>10

\* The retention or a request takes a step.
LEMMA CleanupStep ==
  ASSUME IInv, Retention \/ Deletion, UNCHANGED <<workers, hooks>>
  PROVE  IInv'
  <1> USE DEF IInv
  <1>1. UNCHANGED <<pc, stage, builds, tasks, failed, code, result, hook, mirrored>>
    BY DEF workers, hooks
  <1>2. TypeOK'
    BY <1>1, LogsTypeStep DEF TypeOK
  <1>3. Grows /\ old' = old /\ sweeps' \subseteq old /\ (\A e : Steady(e)) /\ Sweeping'
    BY CleanupSteps DEF Cleaned
  <1>4. \A w \in Workers : Progress(w)' /\ WorkerLogs(w)'
    BY <1>3, OthersWorkers
  <1>5. \A h \in Hooks : HookFiles(h)'
    BY <1>1, <1>3, SteadyHook
  <1>6. Retained'
    BY <1>1, <1>3 DEF Retained
  <1> QED
    BY <1>2, <1>3, <1>4, <1>5, <1>6

\* The logs of an execution get old.
LEMMA AgeStep ==
  ASSUME IInv, NEW e \in Workers \cup Hooks, Age(e)
  PROVE  IInv'
  <1> USE DEF IInv
  <1>1. /\ UNCHANGED <<dir, file, sweep, sweeps, wipe, wipes, faults, asked, gone,
                       pc, stage, builds, tasks, failed, code, result, hook, mirrored,
                       workers>>
        /\ old' = old \cup {l \in Logs : l[1] = e}
        /\ (e \in Workers /\ pc[e] = "end") \/ (e \in Hooks /\ hook[e] = "end")
    BY DEF Age, workers, hooks
  <1>2. TypeOK'
    <2>1. Present' = Present
      BY <1>1 DEF Present
    <2> QED
      BY <1>1, <2>1 DEF TypeOK, LogsTypeOK
  <1>3. Grows /\ \A d : Steady(d)
    BY <1>1 DEF Grows, Steady
  <1>4. \A w \in Workers : Progress(w)' /\ WorkerLogs(w)'
    BY <1>1, <1>3, OthersWorkers
  <1>5. \A h \in Hooks : HookFiles(h)'
    BY <1>1, <1>3, SteadyHook
  <1>6. Retained'
    BY <1>1, ProcessesAssumption DEF Retained
  <1>7. Sweeping'
    BY <1>1 DEF Sweeping
  <1> QED
    BY <1>2, <1>4, <1>5, <1>6, <1>7

LEMMA StutterStep == IInv /\ UNCHANGED vars => IInv'
  <1> SUFFICES ASSUME IInv, UNCHANGED vars PROVE IInv'
    OBVIOUS
  <1>1. UNCHANGED <<dir, file, old, sweep, sweeps, wipe, wipes, faults, asked, gone,
                    pc, stage, builds, tasks, failed, code, result, hook, mirrored,
                    workers>>
    BY DEF vars, logvars, workers, hooks
  <1>2. TypeOK'
    <2>1. Present' = Present
      BY <1>1 DEF Present
    <2> QED
      BY <1>1, <2>1 DEF IInv, TypeOK, LogsTypeOK
  <1>3. Grows /\ \A d : Steady(d)
    BY <1>1 DEF Grows, Steady
  <1>4. \A w \in Workers : Progress(w)' /\ WorkerLogs(w)'
    BY <1>1, <1>3, OthersWorkers
  <1>5. \A h \in Hooks : HookFiles(h)'
    BY <1>1, <1>3, SteadyHook DEF IInv
  <1>6. Retained' /\ Sweeping'
    BY <1>1 DEF IInv, Retained, Sweeping
  <1> QED
    BY <1>2, <1>4, <1>5, <1>6 DEF IInv

\* Whatever the workers, the hooks, the retention and the requests do, and in
\* whatever order, the invariant holds.
THEOREM Inductive == Spec => []IInv
  <1>1. IInv /\ [Next]_vars => IInv'
    BY WorkStep, HookStep, CleanupStep, AgeStep, StutterStep DEF Next
  <1> QED
    BY <1>1, Initially, PTL DEF Spec

\* The variables have their types, and a log is always in the directory.
THEOREM TypeCorrect == Spec => []TypeOK
  BY Inductive, PTL DEF IInv

\* A worker that ends with exit status 1 has left a log that says so, until that
\* log is removed on request or expires; with the exceptions that nobody catches
\* named one by one.
THEOREM FailuresLogged == Spec => []FailureIsLogged
  <1>1. IInv => FailureIsLogged
    <2> SUFFICES ASSUME IInv, NEW w \in Workers,
                        code[w] = "1" \/ code[w] = "missing"
                 PROVE  \/ \E s \in Stages :
                             /\ result[w][s] = "failed"
                             /\ \/ file[<<w, s>>] = "failed"
                                \/ file[<<w, s>>] = "none" /\ <<w, s>> \in asked \cup old
                        \/ code[w] = "missing" /\ (gone # {} \/ LogOf(w) \in asked)
      BY DEF FailureIsLogged, Uncaught
    <2>1. WorkerLogs(w)
      BY DEF IInv
    <2>2. CASE code[w] = "1"
      <3>1. PICK s \in Stages : result[w][s] = "failed"
        BY <2>2 DEF IInv, Progress
      <3> QED
        BY <2>1, <3>1 DEF WorkerLogs
    <2>3. CASE code[w] = "missing"
      BY <2>1, <2>3 DEF WorkerLogs
    <2> QED
      BY <2>2, <2>3
  <1> QED
    BY <1>1, Inductive, PTL

\* A failed build does not keep the others from running, no task runs before
\* every build has succeeded, nor after a task that failed.
THEOREM BuildsComeFirst == Spec => []BuildsThenTasks
  <1>1. IInv => BuildsThenTasks
    BY DEF IInv, BuildsThenTasks, Progress, AllBuilt
  <1> QED
    BY <1>1, Inductive, PTL

\* A worker that exits with 0 has done all its configuration declares, and has
\* left no log of login and builder.
THEOREM SuccessesComplete == Spec => []SuccessIsComplete
  <1>1. IInv => SuccessIsComplete
    BY StageNames DEF IInv, SuccessIsComplete, Progress, AllBuilt, WorkerLogs
  <1> QED
    BY <1>1, Inductive, PTL

\* Without a removal of the directory or of the log by somebody, no worker finds
\* its log gone, no push goes unmirrored and the retention stays alive.
THEOREM LossesHaveACause == Spec => []LossHasACause
  <1>1. IInv => LossHasACause
    BY DEF IInv, LossHasACause, WorkerLogs, HookFiles, Sweeping
  <1> QED
    BY <1>1, Inductive, PTL

\* The retention, however it interleaves, takes no log that is being written or
\* is not yet old: a log that is there stays, unless it is old, a request
\* removes it, or it is the worker's own log of a preparation that succeeded.
THEOREM RetentionSpares == Spec => LogsSurviveRetention
  <1> DEFINE Spared ==
        \A l \in Logs : file[l] # "none" /\ file'[l] = "none" =>
           \/ l \in old \cup asked'
           \/ \E w \in Workers : pc[w] = "remove" /\ LogOf(w) = l
  <1>1. IInv /\ [Next]_vars => Spared
    <2> SUFFICES ASSUME IInv, [Next]_vars PROVE Spared
      OBVIOUS
    <2>1. ASSUME NEW w \in Workers, Work(w) PROVE Spared
      BY <2>1, WorkLogs DEF IInv
    <2>2. ASSUME NEW h \in Hooks, Hook(h) PROVE Spared
      BY <2>2, HookSteps DEF IInv
    <2>3. CASE (Retention \/ Deletion) /\ UNCHANGED <<workers, hooks>>
      BY <2>3, CleanupSteps DEF IInv, Cleaned, Steady
    <2>4. CASE (\E e \in Workers \cup Hooks : Age(e)) \/ UNCHANGED vars
      BY <2>4 DEF Age, vars, logvars
    <2> QED
      BY <2>1, <2>2, <2>3, <2>4 DEF Next
  <1>2. [][Spared]_vars <=> LogsSurviveRetention
    BY PTL DEF LogsSurviveRetention
  <1> QED
    BY <1>1, <1>2, Inductive, PTL DEF Spec

=============================================================================
