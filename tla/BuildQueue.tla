------------------------------ MODULE BuildQueue ------------------------------
(***************************************************************************)
(* build_dispatcher.py, with its client build_submit.py and the processes  *)
(* it starts (build_image.py): a Unix-socket service that accepts build    *)
(* requests, keeps each as a .job file, and runs the files one per worker  *)
(* thread.                                                                 *)
(*                                                                         *)
(* A request stands for one call of build_submit.submit, and for the .job  *)
(* file that call creates if it is accepted (at most one, never reused).   *)
(* Threads: one handler per connection (ThreadingMixIn), the workers, and  *)
(* the main thread that recovers and then listens.  The service can be     *)
(* killed between any two steps and is started again by OpenRC; the        *)
(* build_image.py processes it started are not killed with it.             *)
(***************************************************************************)
EXTENDS Integers, Sequences, FiniteSets, Functions

CONSTANTS
  Requests,   \* submissions, each (repo, branch, sha)
  Repos,      \* repository names
  RepoOf,     \* the repository of a request
  OnDefault,  \* the requests whose branch is the default branch
  Rank,       \* the position of a request's job file name in sorted order:
              \* mkstemp picks the name at random, so any ranking can occur
  Workers,    \* worker threads
  Pools,      \* the sets of them a start of the service may create:
              \* GIT_BUILD_WORKERS can change between two starts
  Capacity,   \* GIT_BUILD_QUEUE_SIZE
  MaxBoots,   \* bound: starts of the service
  MaxFaults,  \* bound: failing system calls
  None

ASSUME RequestsAssumption ==
  /\ IsFiniteSet(Requests)
  /\ None \notin Requests
ASSUME RepoOfAssumption == RepoOf \in [Requests -> Repos]
ASSUME OnDefaultAssumption == OnDefault \subseteq Requests
ASSUME RankAssumption ==
  /\ Rank \in [Requests -> Nat]
  /\ \A r, s \in Requests : Rank[r] = Rank[s] => r = s
ASSUME PoolsAssumption == Pools \subseteq SUBSET Workers
ASSUME CapacityAssumption == Capacity \in Nat \ {0}
ASSUME BoundsAssumption == MaxBoots \in Nat \ {0} /\ MaxFaults \in Nat

VARIABLES
  phase,      \* "down", "recovered" (queue loaded, no socket) or "serving"
  boot,       \* how often the service has started
  faults,     \* how many system calls have failed
  repos,      \* repositories that exist under GIT_REPOS_ROOT
  client,     \* outcome of build_submit for each request
  handler,    \* where the handler thread of each request is
  lock,       \* BuildQueue.lock: the request whose handler holds it
  jobs,       \* the .job files on disk
  queue,      \* BuildQueue.jobs, the in-memory queue.Queue
  wpc,        \* where each worker thread is; "none" if this boot has not
              \* started it, "dead" once it has ended
  held,       \* the job each worker thread has taken
  procs,      \* live build_image.py processes
  latest,     \* what the registry's :latest tag of a repository points to
  ended,      \* history: jobs a process of which has ended
  stamp,      \* history: 0, or the job's place in the order of acceptance
  accepts,    \* history: how many jobs have been accepted
  base,       \* history: accepts when this boot began
  returned,   \* history: jobs removed after their process returned
  dropped     \* history: jobs removed without running to the end

service == <<phase, boot>>
world   == <<faults, repos>>
intake  == <<client, handler, lock>>
threads == <<wpc, held>>
outside == <<procs, latest, ended>>
past    == <<stamp, accepts, base>>
fates   == <<returned, dropped>>
vars == <<service, world, intake, jobs, queue, threads, outside, past, fates>>

Phases   == {"down", "recovered", "serving"}
Clients  == {"idle", "waiting", "queued", "failed"}
Handlers == {"none", "received", "valid", "locked", "writing", "replaced",
             "queued", "rejected"}
WorkerPc == {"none", "idle", "taken", "running", "dead"}
Procs    == [job : Requests, boot : Nat, stage : {"building", "pushed"}]

Up == phase # "down"

Init ==
  /\ phase = "down"
  /\ boot = 0
  /\ faults = 0
  /\ repos = Repos
  /\ client = [r \in Requests |-> "idle"]
  /\ handler = [r \in Requests |-> "none"]
  /\ lock = None
  /\ jobs = {}
  /\ queue = <<>>
  /\ wpc = [w \in Workers |-> "none"]
  /\ held = [w \in Workers |-> None]
  /\ procs = {}
  /\ latest = [p \in Repos |-> None]
  /\ ended = {}
  /\ stamp = [r \in Requests |-> 0]
  /\ accepts = 0
  /\ base = 0
  /\ returned = {}
  /\ dropped = {}

\* The names recover() finds, sorted.
Listing(q) ==
  /\ Range(q) = jobs
  /\ \A i, j \in DOMAIN q : i < j => Rank[q[i]] < Rank[q[j]]

\* One thread of worker_loop for each of GIT_BUILD_WORKERS.
StartThreads ==
  \E pool \in Pools :
    wpc' = [w \in Workers |-> IF w \in pool THEN "idle" ELSE "none"]

(***************************************************************************)
(* Faulty variants of actions below, each a mistake the code could have    *)
(* contained.  No specification uses them: they show that the properties   *)
(* at the end of the module notice such a mistake.                         *)
(***************************************************************************)
\* The files are counted before the lock is taken, so it protects nothing.
AcquireAtOnce(r) ==
  /\ handler[r] = "valid"
  /\ lock' = r
  /\ handler' = [handler EXCEPT ![r] = "locked"]
  /\ UNCHANGED <<service, world, client, jobs, queue, threads, outside, past,
                 fates>>

\* put() is called after the with statement.
ReplaceUnlocks(r) ==
  /\ handler[r] = "writing"
  /\ handler' = [handler EXCEPT ![r] = "replaced"]
  /\ lock' = None
  /\ jobs' = jobs \cup {r}
  /\ accepts' = accepts + 1
  /\ stamp' = [stamp EXCEPT ![r] = accepts + 1]
  /\ UNCHANGED <<service, world, client, queue, threads, outside, base, fates>>

\* The lock is taken by hand and not released on the error paths.
RejectKeepsLock(r) ==
  /\ handler' = [handler EXCEPT ![r] = "rejected"]
  /\ UNCHANGED <<service, repos, client, lock, jobs, queue, threads, outside,
                 past, fates>>

\* A rejected submission is answered like an accepted one.
RespondQueued(r) ==
  /\ handler[r] \in {"queued", "rejected"}
  /\ handler' = [handler EXCEPT ![r] = "none"]
  /\ client' = IF client[r] = "waiting"
               THEN [client EXCEPT ![r] = "queued"] ELSE client
  /\ UNCHANGED <<service, world, lock, jobs, queue, threads, outside, past,
                 fates>>

\* A LifoQueue.
TakeNewest(w) ==
  /\ wpc[w] = "idle"
  /\ queue # <<>>
  /\ held' = [held EXCEPT ![w] = queue[Len(queue)]]
  /\ queue' = SubSeq(queue, 1, Len(queue) - 1)
  /\ wpc' = [wpc EXCEPT ![w] = "taken"]
  /\ UNCHANGED <<service, world, intake, jobs, outside, past, fates>>

\* The file is removed when it has been read.
StartRemovesFile(w) ==
  /\ wpc[w] = "taken"
  /\ RepoOf[held[w]] \in repos
  /\ wpc' = [wpc EXCEPT ![w] = "running"]
  /\ jobs' = jobs \ {held[w]}
  /\ procs' = procs \cup
       {[job |-> held[w], boot |-> boot, stage |-> "building"]}
  /\ UNCHANGED <<service, world, intake, queue, held, latest, ended, past,
                 fates>>

\* Popen instead of run: nobody waits.
ChildIgnored(w) == TRUE

\* unlink() only after a run, not in a finally clause.
RepositoryGoneKeepsFile(w) ==
  /\ wpc[w] = "taken"
  /\ RepoOf[held[w]] \notin repos
  /\ wpc' = [wpc EXCEPT ![w] = "idle"]
  /\ held' = [held EXCEPT ![w] = None]
  /\ UNCHANGED <<service, world, intake, jobs, queue, outside, past, fates>>

\* The files are not read at startup.
BootWithoutRecover ==
  /\ phase = "down"
  /\ queue' = <<>>
  /\ phase' = "recovered"
  /\ boot' = boot + 1
  /\ base' = accepts
  /\ StartThreads
  /\ held' = [w \in Workers |-> None]
  /\ UNCHANGED <<world, intake, jobs, outside, stamp, accepts, fates>>

\* The files are read once more when the socket is there.
ListenRecoversAgain ==
  /\ phase = "recovered"
  /\ phase' = "serving"
  /\ \E q \in [1 .. Cardinality(jobs) -> jobs] :
       Listing(q) /\ queue' = queue \o q
  /\ UNCHANGED <<boot, world, intake, jobs, threads, outside, past, fates>>

(***************************************************************************)
(* The client: submit() connects, sends one line and waits two seconds.    *)
(***************************************************************************)
Connect(r) ==
  /\ client[r] = "idle"
  /\ RepoOf[r] \in repos
  /\ phase = "serving"
  /\ client' = [client EXCEPT ![r] = "waiting"]
  /\ handler' = [handler EXCEPT ![r] = "received"]
  /\ UNCHANGED <<service, world, lock, jobs, queue, threads, outside, past,
                 fates>>

\* No socket, or nobody listens on it: OSError becomes "unavailable".
ConnectFails(r) ==
  /\ client[r] = "idle"
  /\ RepoOf[r] \in repos
  /\ phase # "serving"
  /\ client' = [client EXCEPT ![r] = "failed"]
  /\ UNCHANGED <<service, world, handler, lock, jobs, queue, threads,
                 outside, past, fates>>

\* The two seconds pass; the handler is not told.
ClientTimeout(r) ==
  /\ client[r] = "waiting"
  /\ client' = [client EXCEPT ![r] = "failed"]
  /\ UNCHANGED <<service, world, handler, lock, jobs, queue, threads,
                 outside, past, fates>>

(***************************************************************************)
(* A handler thread: RequestHandler.handle and BuildQueue.submit.          *)
(***************************************************************************)
Validate(r) ==
  /\ handler[r] = "received"
  /\ handler' = [handler EXCEPT
                   ![r] = IF RepoOf[r] \in repos THEN "valid" ELSE "rejected"]
  /\ UNCHANGED <<service, world, client, lock, jobs, queue, threads, outside,
                 past, fates>>

Acquire(r) ==
  /\ handler[r] = "valid"
  /\ lock = None
  /\ lock' = r
  /\ handler' = [handler EXCEPT ![r] = "locked"]
  /\ UNCHANGED <<service, world, client, jobs, queue, threads, outside, past,
                 fates>>

\* Leaving the with statement on an exception: full, or a failed write.
Reject(r) ==
  /\ lock' = None
  /\ handler' = [handler EXCEPT ![r] = "rejected"]
  /\ UNCHANGED <<service, repos, client, jobs, queue, threads, outside, past,
                 fates>>

RejectFull(r) ==
  /\ handler[r] = "locked"
  /\ Cardinality(jobs) >= Capacity
  /\ Reject(r)
  /\ UNCHANGED faults

\* From here to Replace the job is a .tmp file, which recover never reads.
BeginWrite(r) ==
  /\ handler[r] = "locked"
  /\ Cardinality(jobs) < Capacity
  /\ handler' = [handler EXCEPT ![r] = "writing"]
  /\ UNCHANGED <<service, world, client, lock, jobs, queue, threads, outside,
                 past, fates>>

\* Counting the files or writing the new one raises OSError.
WriteFails(r) ==
  /\ handler[r] \in {"locked", "writing"}
  /\ faults < MaxFaults
  /\ faults' = faults + 1
  /\ Reject(r)

Replace(r) ==
  /\ handler[r] = "writing"
  /\ handler' = [handler EXCEPT ![r] = "replaced"]
  /\ jobs' = jobs \cup {r}
  /\ accepts' = accepts + 1
  /\ stamp' = [stamp EXCEPT ![r] = accepts + 1]
  /\ UNCHANGED <<service, world, client, lock, queue, threads, outside, base,
                 fates>>

\* queue.put and the end of the with statement.
Put(r) ==
  /\ handler[r] = "replaced"
  /\ queue' = Append(queue, r)
  /\ lock' = None
  /\ handler' = [handler EXCEPT ![r] = "queued"]
  /\ UNCHANGED <<service, world, client, jobs, threads, outside, past, fates>>

\* The answer is written; a client that has gone away does not see it.
Respond(r) ==
  /\ handler[r] \in {"queued", "rejected"}
  /\ handler' = [handler EXCEPT ![r] = "none"]
  /\ client' = IF client[r] = "waiting"
               THEN [client EXCEPT ![r] = IF handler[r] = "queued"
                                          THEN "queued" ELSE "failed"]
               ELSE client
  /\ UNCHANGED <<service, world, lock, jobs, queue, threads, outside, past,
                 fates>>

(***************************************************************************)
(* A worker thread: worker_loop and run_job.                               *)
(***************************************************************************)
Take(w) ==
  /\ wpc[w] = "idle"
  /\ queue # <<>>
  /\ held' = [held EXCEPT ![w] = Head(queue)]
  /\ queue' = Tail(queue)
  /\ wpc' = [wpc EXCEPT ![w] = "taken"]
  /\ UNCHANGED <<service, world, intake, jobs, outside, past, fates>>

\* The job file is read, validated again, and build_image.py is started.
Start(w) ==
  /\ wpc[w] = "taken"
  /\ RepoOf[held[w]] \in repos
  /\ wpc' = [wpc EXCEPT ![w] = "running"]
  /\ procs' = procs \cup
       {[job |-> held[w], boot |-> boot, stage |-> "building"]}
  /\ UNCHANGED <<service, world, intake, jobs, queue, held, latest, ended,
                 past, fates>>

\* subprocess.run has seen the process that this worker started exit.
ChildGone(w) ==
  \A p \in procs : ~(p.job = held[w] /\ p.boot = boot)

\* The finally clause: the job file is removed and the thread loops.
Finish(w) ==
  /\ wpc[w] = "running"
  /\ ChildGone(w)
  /\ jobs' = jobs \ {held[w]}
  /\ returned' = returned \cup {held[w]}
  /\ wpc' = [wpc EXCEPT ![w] = "idle"]
  /\ held' = [held EXCEPT ![w] = None]
  /\ UNCHANGED <<service, world, intake, queue, outside, past, dropped>>

\* The finally clause after an exception before the process ran.
Discard(w) ==
  /\ wpc[w] = "taken"
  /\ jobs' = jobs \ {held[w]}
  /\ dropped' = dropped \cup {held[w]}
  /\ held' = [held EXCEPT ![w] = None]
  /\ UNCHANGED <<service, repos, intake, queue, outside, past, returned>>

\* validate_job refuses: the repository has gone since the job was accepted.
RepositoryGone(w) ==
  /\ Discard(w)
  /\ RepoOf[held[w]] \notin repos
  /\ wpc' = [wpc EXCEPT ![w] = "idle"]
  /\ UNCHANGED faults

\* Reading the file, validating it (which runs git) or starting the worker
\* raises OSError; the handler logs it.
CannotStart(w) ==
  /\ Discard(w)
  /\ faults < MaxFaults
  /\ faults' = faults + 1
  /\ wpc' = [wpc EXCEPT ![w] = "idle"]

\* The same, and diagnostic_log in the except clause raises as well: nothing
\* catches that, so the thread ends.
CannotStartNorLog(w) ==
  /\ Discard(w)
  /\ RepoOf[held[w]] \in repos
  /\ faults < MaxFaults
  /\ faults' = faults + 1
  /\ wpc' = [wpc EXCEPT ![w] = "dead"]

\* path.unlink() raises something else than FileNotFoundError: the thread
\* ends and the job file stays.
UnlinkFails(w) ==
  /\ wpc[w] = "taken" \/ (wpc[w] = "running" /\ ChildGone(w))
  /\ faults < MaxFaults
  /\ faults' = faults + 1
  /\ wpc' = [wpc EXCEPT ![w] = "dead"]
  /\ UNCHANGED <<service, repos, intake, jobs, queue, held, outside, past,
                 fates>>

(***************************************************************************)
(* A build_image.py process, as far as the registry sees it: it may exit   *)
(* at any point, and pushes :latest only for the default branch, after the *)
(* tag derived from the commit.                                            *)
(***************************************************************************)
PushLatest(p) ==
  /\ p \in procs
  /\ p.stage = "building"
  /\ p.job \in OnDefault
  /\ latest' = [latest EXCEPT ![RepoOf[p.job]] = p.job]
  /\ procs' = (procs \ {p}) \cup {[p EXCEPT !.stage = "pushed"]}
  /\ UNCHANGED <<service, world, intake, jobs, queue, threads, ended, past,
                 fates>>

Exit(p) ==
  /\ p \in procs
  /\ procs' = procs \ {p}
  /\ ended' = ended \cup {p.job}
  /\ UNCHANGED <<service, world, intake, jobs, queue, threads, latest, past,
                 fates>>

(***************************************************************************)
(* The service: serve(), OpenRC, and what happens to the repositories.     *)
(***************************************************************************)
\* BuildQueue(), recover(), and the worker threads.
Boot ==
  /\ phase = "down"
  /\ \E q \in [1 .. Cardinality(jobs) -> jobs] : Listing(q) /\ queue' = q
  /\ phase' = "recovered"
  /\ boot' = boot + 1
  /\ base' = accepts
  /\ StartThreads
  /\ held' = [w \in Workers |-> None]
  /\ UNCHANGED <<world, intake, jobs, outside, stamp, accepts, fates>>

\* The socket is bound and serve_forever begins.
Listen ==
  /\ phase = "recovered"
  /\ phase' = "serving"
  /\ UNCHANGED <<boot, world, intake, jobs, queue, threads, outside, past,
                 fates>>

\* Nothing runs on a signal: memory and threads go, a client that waits sees
\* the connection close, files stay.
Stop ==
  /\ Up
  /\ boot < MaxBoots
  /\ phase' = "down"
  /\ client' = [r \in Requests |->
                  IF client[r] = "waiting" THEN "failed" ELSE client[r]]
  /\ handler' = [r \in Requests |-> "none"]
  /\ lock' = None
  /\ queue' = <<>>
  /\ wpc' = [w \in Workers |-> IF wpc[w] = "none" THEN "none" ELSE "dead"]
  /\ held' = [w \in Workers |-> None]
  /\ UNCHANGED <<boot, world, jobs, latest, ended, past, fates>>

\* OpenRC stops or the kernel kills the one process in the pid file.
ServiceStop ==
  /\ Stop
  /\ UNCHANGED procs

\* The container restarts, which ends the build processes too.
HostRestart ==
  /\ Stop
  /\ procs' = {}

\* DELETE /repo/<name> in the HTTP service (app.delete_bare_repo).
DeleteRepo(p) ==
  /\ p \in repos
  /\ repos' = repos \ {p}
  /\ UNCHANGED <<service, faults, intake, jobs, queue, threads, outside, past,
                 fates>>

Client(r) == Connect(r) \/ ConnectFails(r) \/ ClientTimeout(r)

HandlerStep(r) ==
  \/ Validate(r)
  \/ Acquire(r)
  \/ RejectFull(r)
  \/ BeginWrite(r)
  \/ Replace(r)
  \/ Put(r)
  \/ Respond(r)

WorkerStep(w) ==
  \/ Take(w)
  \/ Start(w)
  \/ Finish(w)
  \/ RepositoryGone(w)

WorkerFault(w) ==
  \/ CannotStart(w)
  \/ CannotStartNorLog(w)
  \/ UnlinkFails(w)

Next ==
  \/ \E r \in Requests : Client(r) \/ HandlerStep(r) \/ WriteFails(r)
  \/ \E w \in Workers : WorkerStep(w) \/ WorkerFault(w)
  \/ \E p \in procs : PushLatest(p) \/ Exit(p)
  \/ Boot
  \/ Listen
  \/ ServiceStop
  \/ HostRestart
  \/ \E p \in Repos : DeleteRepo(p)

Spec == Init /\ [][Next]_vars

\* The threads of a running service are scheduled.  Nothing else is assumed: a
\* build process is waited for without a timeout and may never exit, nothing
\* starts the service again once it is down, and clients, failures, stops and
\* deletions may never happen.
Fairness ==
  /\ \A r \in Requests : WF_vars(HandlerStep(r))
  /\ \A w \in Workers : WF_vars(WorkerStep(w))
  /\ WF_vars(Listen)

FairSpec == Spec /\ Fairness

------------------------------------------------------------------------------
(***************************************************************************)
(* Properties.                                                             *)
(***************************************************************************)

\* Every variable stays in its type; a worker thread has a job exactly from
\* queue.get to the end of run_job (or for ever, if run_job ended the thread).
TypeOK ==
  /\ phase \in Phases
  /\ boot \in Nat
  /\ faults \in Nat
  /\ repos \subseteq Repos
  /\ client \in [Requests -> Clients]
  /\ handler \in [Requests -> Handlers]
  /\ lock \in Requests \cup {None}
  /\ jobs \subseteq Requests
  /\ queue \in Seq(Requests)
  /\ wpc \in [Workers -> WorkerPc]
  /\ held \in [Workers -> Requests \cup {None}]
  /\ \A w \in Workers : /\ wpc[w] \in {"none", "idle"} => held[w] = None
                        /\ wpc[w] \in {"taken", "running"} => held[w] # None
  /\ procs \subseteq Procs
  /\ latest \in [Repos -> Requests \cup {None}]
  /\ ended \subseteq Requests
  /\ stamp \in [Requests -> Nat]
  /\ accepts \in Nat
  /\ base \in Nat
  /\ returned \subseteq Requests
  /\ dropped \subseteq Requests

\* The limit of submit(): however many handlers race, the files on disk
\* (queued, held by a worker or being submitted) never exceed
\* GIT_BUILD_QUEUE_SIZE, because counting and writing happen under one lock.
CapacityBound == Cardinality(jobs) <= Capacity

\* A job is in one place: it is not twice in the queue, not in the queue
\* while a worker holds it, and not held by two workers, although recover()
\* and submit() both feed the queue.
NoDoubleDispatch ==
  /\ \A i, j \in DOMAIN queue : queue[i] = queue[j] => i = j
  /\ \A w \in Workers, i \in DOMAIN queue : held[w] # queue[i]
  /\ \A v, w \in Workers : held[v] = held[w] /\ held[v] # None => v = w

\* While the service runs no job file is forgotten on disk: it is in the
\* queue, a worker has it, or its handler is between os.replace and put.
NoStrandedJob ==
  Up => \A r \in jobs :
          \/ r \in Range(queue)
          \/ \E w \in Workers : held[w] = r
          \/ handler[r] = "replaced"

\* The converse: what is in the queue or with a worker still has its file,
\* so a worker that opens it does not find it removed by another one.
DispatchedJobHasFile ==
  /\ Range(queue) \subseteq jobs
  /\ \A w \in Workers : held[w] # None => held[w] \in jobs

\* A client that was told "queued" has a job that is on disk, or that was on
\* disk until its run returned or the dispatcher gave it up with a log.
QueuedAnswerIsDurable ==
  \A r \in Requests :
    client[r] = "queued" => r \in jobs \cup returned \cup dropped

\* A job accepted in this boot stands behind every job accepted earlier, the
\* recovered ones included: put() happens under the lock that orders writes.
DispatchInAcceptOrder ==
  \A i, j \in DOMAIN queue :
    i < j /\ stamp[queue[j]] > base => stamp[queue[i]] < stamp[queue[j]]

\* Every build process started in this boot belongs to a worker thread that
\* waits for it, so GIT_BUILD_WORKERS bounds the builds of one boot.
EveryBuildIsAwaited ==
  \A p \in procs :
    Up /\ p.boot = boot => \E w \in Workers :
                             wpc[w] = "running" /\ held[w] = p.job

\* This boot, or the last one while the service is down, has started at most
\* one worker thread, as GIT_BUILD_WORKERS does by default.
OneThread == \A v, w \in Workers : wpc[v] # "none" /\ wpc[w] # "none" => v = w

\* With one worker thread, the process of a job accepted in this boot moves
\* :latest forward: the commit it replaces was accepted earlier.  Only a
\* recovered job, or a process left over from an earlier boot, can move it back.
LatestFollowsAcceptance ==
  [][\A p \in Repos :
       OneThread /\ latest[p] # None /\ latest'[p] # latest[p]
         /\ stamp[latest'[p]] > base
         => stamp[latest'[p]] > stamp[latest[p]]]_vars

\* What README.md says of at-least-once execution, "A repeated job is safe
\* because it publishes the same commit-derived tag": when a process of a job
\* has ended and the job is run again, the second run does not move :latest
\* back from a commit accepted later.
RepeatedJobIsSafe ==
  [][\A p \in Repos :
       latest[p] # None /\ latest'[p] # latest[p] /\ latest'[p] \in ended
         => stamp[latest'[p]] > stamp[latest[p]]]_vars

\* What the code cannot bring about by itself: from some time on the service is
\* up, and every process it starts ends.
StaysUp == <>[]Up
BuildsEnd ==
  \A r \in Requests, b \in 1 .. MaxBoots :
    []<>(\A p \in procs : <<p.job, p.boot>> # <<r, b>>)

\* Two ends of a worker thread by an exception: with the job it has, or the last.
HeldByDead(r) == \E w \in Workers : wpc[w] = "dead" /\ held[w] = r
NoThreadLeft == Up /\ \A w \in Workers : wpc[w] \in {"none", "dead"}

\* Then a job on disk is run or given up some day, a job accepted before a stop
\* as well.  A thread that ends takes no other job with it as long as another
\* thread is left; with none left, jobs are accepted and not run.
EveryJobIsSettled ==
  StaysUp /\ BuildsEnd =>
    \A r \in Requests :
      r \in jobs ~> (r \notin jobs \/ HeldByDead(r) \/ NoThreadLeft)

\* No handler thread is stuck: the lock is released on every path, the
\* rejecting ones and the failing ones included.
EveryHandlerAnswers ==
  \A r \in Requests : handler[r] # "none" ~> handler[r] = "none"

\* The dispatcher keeps the abstract promise about jobs.
Durable == INSTANCE DurableJobs WITH
  Jobs <- Requests,
  owed <- jobs,
  ran <- ended,
  settled <- returned,
  abandoned <- dropped,
  promised <- {r \in Requests : client[r] = "queued"}

KeepsPromise == Durable!Spec

==============================================================================
