# Verification of git-server

TLA+ specifications of the git server in `src/`: a bare-repository host with an
HTTP front end, a post-receive hook that queues container builds and mirrors
pushes, and a worker that runs builds and shell tasks. The modules model the
parts of it in which several threads, processes or hosts change shared files,
TLC checks them on small instances, and TLAPS proves the main results for all
values of their constants.

- [The system](#the-system): inventory and hazards
- [The modules](#the-modules): what models what
- [The runs](#the-runs): what TLC checks, with which bounds
- [Fairness](#fairness)
- [The proofs](#the-proofs)
- [Disagreements with the documentation](#disagreements-with-the-documentation)
- [Not modelled](#not-modelled) and [what comes next](#what-comes-next)

To repeat a check: `tlc -config BuildQueue.cfg MCBuildQueue`; to repeat a proof:
`tlapm BuildQueue_proofs.tla`.

## The system

```
                 git push (ssh)                                 HTTP
                      |                                           |
              post-receive hook                        app.py (a thread a request,
              |               |                         and one for retention)
   build_submit.py      mirror-sync.sh                   |        |         |
              |         (background)          <repo>.git |        |         | hook logs
   build_dispatcher.py        |                                   |         |
    (socket, queue,      git push to mirrors      variable store (flock)    |
     job files)                                          |                  |
              |                                          |                  |
   build_image.py  --------- reads variables ------------+                  |
    (builds, tasks) -------- writes logs -----------------------------------+
```

Everything below runs under one account on one host and shares only files: no
component has a database, and apart from the dispatcher's lock and the store's
`flock` nothing synchronises them.

| Component | Source | State | Operations | What is hard |
|---|---|---|---|---|
| Build dispatcher | `build_dispatcher.py`, `git-build-dispatcher.initd` | `.job` files, `queue.Queue`, `submit_lock`, worker threads, child processes | submit, recover, run a job, stop, restart | handlers race for the limit; job file and queue are two places; stops at any point; children survive; failing system calls in error paths |
| Submission client | `build_submit.py` | a socket | submit | gives up after two seconds while its handler goes on |
| Pipeline worker | `build_image.py` `execute` | its stage, logs, exit status | configuration, login, builder, builds, variables, tasks | what is skipped after which failure; logs removed under it |
| Task runner | `build_image.py` `run_task` | shell, its process group, a pipe, a reader thread, a log | run with a timeout | timeout against exit, SIGTERM against SIGKILL, background processes that keep the pipe, the log cap |
| Variable store | `repository_variables.py` | a JSON file, a lock file | load, patch, delete | lost updates, failures around `os.replace`, power failure, limits |
| Repository management | `app.py` `create_bare_repo`, `delete_bare_repo`, `do_PATCH` | a directory tree, its hook link, the variable file | create, delete, patch | check-then-act of concurrent threads, partial rmtree |
| Hook logs | `app.py`, `ExecutionLog`, `post-receive` | a directory of files | create, retain, delete | creators, retention and deletion share the directory without a lock |
| Post-receive hook | `post-receive` | none of its own | queue builds, start the mirror process | several pushes at once |
| Mirror sync | `mirror-sync.sh` | branches at the mirrors | repeat a push at every mirror | unordered processes, refused and failing pushes, no retry |
| Redaction of task output | `build_image.py` `stream_task_output` | what is kept back between two reads | replace values, cut the log | values across reads, overlapping values, the log cap, memory |
| `repository.yaml` and its two parsers | `build_image.py` `parse_build_config`, `mirror-sync.sh` (awk) | none; the awk variables | read the same file as YAML and line by line | where the two disagree |
| Readers of logs | `app.py` `list_hook_logs`, `homepage_stats.py` | none, or a cache | show and count executions | a log is its text, written by server and task alike, and read in two steps |
| Pages and browsing, `configure_build_env.py`, deployment scripts | `app.py`, `*.sh`, `*.initd` | none | reading, rendering, installing | out of scope |

How they interact: the hook calls the client, the client the dispatcher's socket,
the dispatcher starts a worker as a child and waits for it; the worker reads the
variable store and writes hook logs; the hook starts a mirror process and does not
wait for it; requests to `app.py` create and delete repositories, variables and
logs under all of them.

What makes each part correct:

- *dispatcher*: an accepted job is on disk until it has run or was visibly given
  up; nothing is queued twice in a boot; jobs run in the order they were accepted;
  the limit holds; every request is answered;
- *worker*: exit status, logs and skipped stages agree with each other and with
  what the configuration declares;
- *task*: success means a complete run and a complete log, a timeout is reported
  and ends the process group, the log cap is exact;
- *store*: every call is atomic, and durable when answered;
- *repositories*: a creation is complete, a deletion final, and variables belong
  to one repository only;
- *logs*: retention removes what is old and nothing else;
- *mirrors*: only what was pushed, never backwards, and in the end the same; and
  only where `repository.yaml` says;
- *redaction*: the log is the redaction of the whole output, however it arrived;
- *readers*: what they show of a log is what happened.

`PROJECT.json` lists the hazards, each at its source line and with the properties
that cover it.

## The modules

An action is one step that others can observe: a system call on shared files, or
the section between two of them. A critical section is split wherever a failure,
a stop or a reader without the lock can tell. Every module with a bound on
failures has a variable `faults` that counts them. Definitions under "Faulty
variants" are plausible bugs, used to check that the properties notice them; no
specification refers to them.

| Module | Models | State and code |
|---|---|---|
| `DurableJobs` | what the dispatcher promises about jobs | `owed`, `ran`, `settled`, `abandoned`, `promised`: the contract of `src/README.md` "Isolated build dispatch", nothing of its mechanism |
| `BuildQueue` | dispatcher, client, stops and restarts, and a build as far as `:latest` | `jobs` the `.job` files, `queue` the `queue.Queue`, `lock` the `submit_lock`, `handler[r]` and `client[r]` the two ends of a submission, `wpc`/`held` the worker threads, of which each start creates one of `Pools` (`GIT_BUILD_WORKERS` may change between two), `procs` the `build_image.py` processes with the boot that started them, `latest` the tag. `recover()` is the sequence of files sorted by `Rank`, which stands for the random part of their names |
| `AtomicVariables` | what a variable store promises | calls that take effect at an instant; `stable` survives power failures |
| `VariableStore` | `repository_variables.py` | `file` and `synced` the visible and the durable content, `holders` of the flock, `loaded` what a caller has in memory. A value has a size as stored (`Encoded`) and as counted |
| `RepoLifecycle` | `create_bare_repo`, `delete_bare_repo`, `do_PATCH` | `dir`, `tree`, `linked` the repository, `unhooked` that it was created with no canonical hook to link, `cut` that its creation or removal was cut short by a stop or a failing call, `vals` the generation the variable file belongs to, `todo[r]` what an `rmtree` has listed. A call of the variable store is one step, which `VariableStore` justifies |
| `RepoJobs` | a repository and what lives beside it under its name, on `RepoLifecycle` | `job`, `gen`, `used` the jobs, the repository each was pushed to and the variables it loaded; `logDir`, `logs` the hook logs; `wiping`, `wipes` the `rmtree` of `delete_hook_logs`, which is one step in `RepoLifecycle` |
| `TaskRunner` | `run_task`, `stream_task_output` | `main` and `reader` the threads, `unread`/`chunk`/`logged` the output in units, `shell`, `alive`, `trait` the processes: whether one keeps the pipe, is in the group, ignores SIGTERM |
| `HookLogs` | the directory of logs; `cleanup_hook_logs`, `delete_hook_logs` | `dir`, `file[l]` with what the footer says, `sweep`/`sweeps` the retention, `wipe`/`wipes` the requests |
| `Pipeline` | `execute`, `ExecutionLog`, and the hook's logs, on `HookLogs` | `pc`, `stage`, `failed` of a worker, `code` how it ended: an exit status, killed, or by an exception nothing catches (`Uncaught`); `hook` of a push. A command is a step with either result |
| `MirrorSync` | `mirror-sync.sh` and what the hook passes to it | `server`, `remote[m]` the branches, `change[p]` the pairs a process got, `entries[p]` the mirrors as its `repository.yaml` lists them, `work[p]` what it has still to push, as pairs of an entry and a change. `Accepts` is git's rule for a push without `--force` |
| `OutputStream` | `redact_task_output`, `safe_redaction_cutoff`, `stream_task_output` over bytes | `pending`, `logged`, `truncated` as in the code; `source` is the whole output, for comparison |
| `MirrorConfig` | the awk program of `mirror-sync.sh`, and the lists of `parse_build_config` | a step is a line of the file: `awk` the variables of the program and what it has printed, `section`, `item`, `declared` what YAML makes of the line |
| `LogReaders` | the text of logs as `ExecutionLog` writes it, `list_hook_logs`/`parse_hook_log`, `failed_builds` | `text[l]` the lines, `phase[l]` what the writer has come to; `head`, `target` a reader between its two windows; `records`, `failed`, `unknown`, `history` what it has found, `listed`, `opened`, `lost` what was there when it began |
| `MC*` | values for TLC; `MCTexts` puts the last three modules beside each other | |
| `*_proofs` | theorems about `BuildQueue`, `VariableStore`, `RepoLifecycle`, `RepoJobs`, `TaskRunner`, `Pipeline` with `HookLogs`, `MirrorSync`; `Texts_proofs` about `MirrorConfig` and `OutputStream` | |

`Pipeline` extends `HookLogs`: the worker and the hook create logs in the directory
that the retention and the requests remove. `RepoJobs` extends `RepoLifecycle` and
implements it (`RepoJobs_proofs`, theorem `Implements`): jobs and logs change nothing
of the repository. `BuildQueue` implements `DurableJobs`
and `VariableStore` implements `AtomicVariables`, each by a refinement mapping at
the end of the module (`KeepsPromise`, `IsAtomic`).

Abstractions worth knowing:

- Build commands, `git init`, `tar` and a call of the store are single steps with
  either result.
- `Pipeline` chooses any configuration that the parser could accept, a rejected
  one, or one on which the worker raises; it does not read `repository.yaml`. `MirrorConfig` has the files
  the parser accepts, in block style, with quotes, and with scripts whose lines
  look like the rest; comments and flow style other than lists of branches are not
  in it.
- In `RepoJobs` all logs of a job are one, and `git archive` may find a commit in
  any repository that is there, also in a later one of the name.
- In `OutputStream` a byte is a symbol and `***` is made of one that a value may
  contain; in `LogReaders` a line is a token, and the windows of 16384 and 4096
  bytes are 4 and 3 lines. A task may print any token, the server's own included.
- A shell task may do anything that a process group with a pipe can do; its
  output is counted in units, `Block` of them to a full read.
- Stops of the dispatcher kill it between any two steps; the children go on, or
  go too when the whole container stops. Job files survive, as the page cache does.
  Power failures are modelled for the variable store, which is the only part with
  an fsync of its directory.
- Time appears as steps that may happen (`ClientTimeout`, `TimeoutExpires`,
  `GraceExpires`, `Age`), never as a clock.

## The runs

Twelve runs. The last column names the hazard side of it, not every property.

| Run | Instance | What it shows |
|---|---|---|
| `build_queue` | 3 submissions, capacity 2, 2 workers, 2 boots, 1 failing call | The limit under racing handlers (`CapacityBound`); a job is in one place (`NoDoubleDispatch`), never forgotten on disk (`NoStrandedJob`), never dispatched without its file (`DispatchedJobHasFile`); order of acceptance (`DispatchInAcceptOrder`); no child without a waiting thread (`EveryBuildIsAwaited`); the refinement of `DurableJobs` (`KeepsPromise`) |
| `build_queue_live` | 2 default-branch jobs, 1 or 2 workers at each of 2 boots, 2 failing calls | Every handler lets go (`EveryHandlerAnswers`); every job is run or given up, by the other thread if one dies, as long as the service stays up and builds end (`EveryJobIsSettled`); with one thread, jobs of this boot move `:latest` forward (`LatestFollowsAcceptance`) |
| `build_queue_repeat` | 2 default-branch jobs, 1 worker, 2 boots, no failing call | expected violation, below |
| `variable_store` | 3 calls out of 6 overlapping ones, 3 names, limit 2, 1 failing call, 1 killed process or power failure | No lost update (`PatchIsCurrent`), the limit (`LimitKept`), no one waits for ever (`EveryCallEnds`), the refinement of `AtomicVariables` (`IsAtomic`) |
| `variable_store_size` | 2 calls, no failures | expected violation, below |
| `repo_jobs` | 3 requests of any kind, 3 entries with `hooks` in the middle, 2 jobs, 1 failing call, 1 stop | What holds, and the exact overlaps that are excepted: complete unless itself cut short (`CreatedIsComplete`), own variables (`VariablesFollowRepo`), final (`DeletedIsGone`), kept (`CreatedStays`), logs of this repository (`LogsFollowRepo`), jobs with the variables of their repository (`JobUsesOwnVariables`) |
| `repo_delete_patch` | 4 requests, no jobs, no failures | expected violation, below |
| `task_runner` | a shell and 2 background processes of every kind, up to 4 units of output with limit 3, reads of 2, a pipe of 1, 1 failing call | A complete log below the cap (`SuccessIsComplete`), a timeout that is reported and ends the group (`TimeoutEndsGroup`), and termination unless something keeps the pipe (`EndsUnlessHeld`) |
| `task_ends` | as above, 1 unit, no failures | expected violation, below |
| `pipeline` | 1 worker with every configuration of up to 2 builds and 2 tasks, 1 push, 1 request, the retention thread, 1 killed process | Failure leaves a log, but for the exceptions named (`FailureIsLogged`), builds before tasks and the first failing task last (`BuildsThenTasks`), what status 0 means (`SuccessIsComplete`), retention takes no fresh log (`LogsSurviveRetention`), and a worker misses its log, a push goes unmirrored or the retention ends only where the log or the directory was removed under it (`LossHasACause`) |
| `mirror_sync` | 3 pushes with up to 3 changes of 2 branches over 3 commits on 2 lines, 3 mirrors, 1 failing push or killed process | `OnlyWhatWasPushed`, `FailureIsIsolated`, never back (`NeverBack`), `Converges` with its exact conditions, `EveryProcessEnds` |
| `texts` | one of three: up to 8 bytes of two kinds, any two values of up to 3 bytes, reads of 3, limit 7; a `repository.yaml` of up to 7 lines, 2 urls, 2 branches; 2 logs, up to 2 lines of output, one reader | The log is the redaction of the whole output (`OutputIsRedacted`), holds no value (`NoValueInLog`), memory is bounded but for chained values (`PendingIsBounded`); mirrors as declared, with the exact exceptions (`MirrorsAsDeclared`), never another url (`OnlyDeclaredUrls`); what readers of logs show (`ListingIsTrue`) and count (`StatsAreTrue`) |

Why the bounds are enough to be interesting: every module's instance reaches each
of its actions and every disjunct of them. Capacity 2 with 3 submissions fills the
queue with a handler left over; 2 workers race for jobs; 2 boots are one restart
with recovery, and a stop may also hit the recovery itself. Two names of a limit
of two make a full store. Three entries with the hook in the middle give an
`rmtree` a before and an after. Limit 3 with reads of 2 puts the cap in the middle
of a read. Two jobs and three requests are a job of a deleted repository, its deletion, a
creation of the name and a job of the new one. Values of up to 3 of 2 bytes are
chained, nested and disjoint ones; reads of 3 cut them at every place, and limit 7
is inside a read. Seven lines hold two mirrors with a filter and a list after them.
The three subjects of `texts` share no state, so its states are the sum of theirs
and not the product.
Three pushes let a process be overtaken twice, and commits on two lines
give fast-forwards, refusals and forced pushes. One fault reaches every error path
once; only the end of both worker threads needs a second one, which `build_queue_live` has. `mirror_sync` was also run with
four changes (2.3 million states) and holds.

Symmetry is used in `repo_jobs` only, over the requests and the jobs, which is
checked for invariants alone. Deadlock is not checked where the system may simply have nothing
left to do: requests, pushes and boots are bounded.

The type invariants (`TypeOK`, `YamlTypeOK`) are not in the configurations: they are
theorems, and the first conjunct of every inductive invariant. Only `LogReaders` has no proof
module.

## Fairness

Only schedulers and finite timeouts are assumed to be fair.

- `BuildQueue`: the handler and worker threads of a running service take their
  steps, and its main thread goes on to listen. That is all: the dispatcher waits
  for a build without a timeout, so nothing says that one exits (`task_ends` shows
  one that does not), and OpenRC does not start a service again that went down.
  `EveryJobIsSettled` has both as hypotheses instead, `StaysUp` and `BuildsEnd`, and
  is violated without either of them. It has two exceptions for worker threads that
  end by an exception (`build_dispatcher.py:125-138`): the job that a dead thread
  still has, and all jobs once no thread is left, which with the default of one
  worker is the first time. Each exception is necessary (without it TLC finds a
  counterexample).
- `VariableStore`: a thread or process that is not killed goes on. Nobody is
  obliged to call, or to fail.
- `TaskRunner`: the two threads run and timeouts expire. Nothing is assumed of
  the task's own processes.
- `MirrorSync`: each background process runs on; every push is limited by
  `timeout 60`.
- The other modules state no liveness and have no fairness.

## The proofs

Each proof module has an inductive invariant with the three facts `Init => IInv`,
`IInv /\ [Next]_vars => IInv'` and `IInv => Inv`, one step per action, and theorems
`Spec => []Inv` for the properties of the runs. Every inductive invariant was
model-checked on the instance of its run before it was proved. The theorems hold for
all values of the constants that satisfy the named assumptions of the module, i.e. for
any number of requests, workers, values, mirrors, failures and so on.

**`BuildQueue_proofs`** holds for every set of requests, workers and repositories,
every capacity and every bound on boots and faults (assumptions: the constants
`BuildQueue` names, i.e. finite requests, bounds in Nat, an injective rank, `None`
outside the sets). Proved: `TypeOK`, `CapacityBound`, `NoDoubleDispatch`,
`NoStrandedJob`, `DispatchedJobHasFile`, `QueuedAnswerIsDurable`,
`DispatchInAcceptOrder`, `EveryBuildIsAwaited` and the refinement `KeepsPromise`.
None of them is inductive alone. The limit needs that between the count and the
`os.replace` the handler holds the lock, and that only the lock's holder writes;
one-place needs how a job's file, its handler and its place exclude each other
(what is queued has been replaced, what is held was taken); the order needs that
`stamp` increases along the queue and that the next stamp is larger than all; the
awaited builds need which thread started which process in this boot; the promise
needs the fate of every job that was ever accepted. These are the conjuncts of
`IInv`.
The action property `LatestFollowsAcceptance` speaks of starts of the service with one
worker thread (`OneThread`, the default of `GIT_BUILD_WORKERS`), whatever other starts had;
with two, jobs of one boot can finish in either order.
It rests on `Sequenced`, which each start establishes anew: at most one process of this boot is alive, processes of earlier
boots run jobs accepted before it, and what is still to run was accepted after both that
process's job and everything `:latest` points to.

**`VariableStore_proofs`**: `TypeOK`, `PatchIsCurrent`, `LimitKept`, and `IsAtomic`,
the refinement of `AtomicVariables`, for any clients, names, values and limits. The
key is that an exclusive holder excludes everybody else in the critical section, so
what a patch has loaded agrees with the file until its rename (`Locking`); the rest of
`IInv` says which kind of call can be at which step (`Progressed`) and that what is
about to be written was counted (`WritesWithinLimit`).

**`RepoLifecycle_proofs`**: `TypeOK`, `VariablesFollowRepo`, `DeletedIsGone`,
`CreatedIsComplete` and `CreatedStays` for any number of requests, faults and stops,
and any listing of the repository's entries.
- `VariablesFollowRepo` needs the history of overlaps to be true of the requests that
  are active together (`Overlaps`), and that a deletion past its clean-up finds the
  variables cleared unless such an overlap was recorded (`Cleared`,
  `PatchesCurrent`).
- `DeletedIsGone` needs that a generation never comes back (`Generations`).
- `CreatedIsComplete` excepts a repository whose own creation or removal a stop or a
  failing call cut short (`cut`), or whose creation overlapped another or a deletion; stops
  and failures elsewhere, and before the repository was created anew, are no excuse. It says
  nothing of one that a deletion is taking apart. The strengthening `Intact` says what such a deletion can
  have left: the rest of the listing (`Rest`), and of several deletions that overlap, the
  one that removed an entry last is not behind any other. The step that removes an
  entry rests on the least entry of what is left, hence on a least-number argument.
- `CreatedStays` needs that nobody begins behind a creation answered 201, and that such a
  creation has linked the hook or found none to link (`Lasting`).

**`RepoJobs_proofs`** for any number of requests and jobs: every step of `RepoJobs`
is one of `RepoLifecycle` or leaves its variables alone (`Simulation`), hence
`JobsSpec => Spec` and the theorems above hold with jobs beside the repository; and
`LogsFollowRepo` and `JobUsesOwnVariables`. The strengthening `JInv` adds to `IInv` that
a job's generation was that of a repository that was there (`Pushed`), that whoever
removed a repository has only its logs left to remove (`Removers`), and that a
repository beside which a deletion wipes logs was created during that deletion
(`Crossed`), which follows from the history of overlaps.

**`TaskRunner_proofs`**: `TypeOK`, `SuccessIsComplete` and `TimeoutEndsGroup` for any
background processes, any amount of output, and any sizes of reads, pipe and log. A
complete log is a matter of accounts (`Accounts`): every unit written is in the pipe,
with the reader, in the log or above the limit, nothing is above it before the log is
full, and a reader that ended without an error has seen the end. `Stages` is what the
main thread knows where it is, `Signals` whom SIGTERM and SIGKILL can have spared.

**`Pipeline_proofs`**: `TypeOK`, `FailureIsLogged`, `BuildsThenTasks`,
`SuccessIsComplete`, `LossHasACause` and the action property
`LogsSurviveRetention`, for any number of workers, hooks, requests, builds and tasks;
`ProcessesAssumption` says that no process is both a worker and a hook. `Progress` is
the state of an execution by stage; `WorkerLogs` and `HookFiles` relate it to the
directory, where a log may be missing only after a request asked for its removal or
after it had become old; the ways to exit status 1 that leave none are apart by `code`
and not by assumption; `Retained` says that only logs of executions that have ended
become old, which is why the retention takes no log under its writer.

**`MirrorSync_proofs`**: `TypeOK`, `OnlyWhatWasPushed`, `FailureIsIsolated`,
`Converges` and the action property `NeverBack`, for any history of commits that is a
strict order (`BeforeAssumption`), any configuration at each commit and any number of
pushes. A `repository.yaml` may list a mirror twice, so a process works through pairs of
an entry and a change. `Progress` is what a process has tried and what has arrived; `Owned`
says that a branch at the server is where the last push that named it has put it; `Lineage`
and `Arrived` carry `Converges` for branches that were only moved forward, `Calm` for the
others: where no pushes overlapped, the mirror has the branch or the only process at work
on it will be accepted.

**`Texts_proofs`**, for any sets of urls and branches, any bytes, patterns and sizes:
- `MirrorsAsDeclared`, `OnlyDeclaredUrls` and `YamlTypeOK` of the awk program. `Reading`
  relates the variables of the program to the section and item that YAML is in, `KeepsUp`
  the mirrors printed and the one being read to those declared, one by one. The proof
  attempt showed that an earlier `MirrorsAsDeclared` compared mirrors by name and did not
  need its exception for quotes; it now compares what is printed, and every exception is
  necessary.
- `CutSplitsNoValue`: for every text and every list of values, `SafeCutoff` is a place
  in the text that no occurrence of a value crosses. `SafeCutoff` is a recursive function;
  that it is defined everywhere and ends at such a place (`CutoffIsDescent`, `CutoffEnds`)
  is an induction along the descent.
- `PendingIsBounded`: the cut moves a second time only to a value that the end of another
  one has begun (`SplitsChain`, `CutoffMovesOnce`), so without chained values less than
  two values are kept.
- `OutputIsRedacted` and `NoValueInLog`, for values without the byte of the mask. `RedactInv`
  divides the output read so far into a part that has been redacted into the log, what is
  pending, and what came when the log was full, such that no value crosses from the first
  into what follows, whatever is read later (`Clean`). A cut keeps that true because no
  occurrence crosses it (`CutSplitsNoValue`) and it leaves room for every value that may
  still be incomplete (`CutIsClean`). And it is enough because the redaction of two texts
  between which no value crosses is the two redactions joined (`RedactJoined`), and no value
  is in what a redaction returns (`RedactFree`): every byte of `Replace` is one of the text
  or one of a mask (`Comes`), so replacing one value cannot make an occurrence of another.

Inductions over numbers, along a text or down a list of values, are done by the least
number for which something fails (`LeastNumber`, from the well-foundedness of the order), because the induction theorems of the
library take an operator.

Proved and in no run: the type invariants; `QueuedAnswerIsDurable`, that a client
is told "queued" only about a job on disk; `CutSplitsNoValue`.

Only model-checked:
- all liveness (`EveryJobIsSettled`, `EveryHandlerAnswers`, `EveryCallEnds`,
  `EndsUnlessHeld`, `EveryProcessEnds`), which is out of the proof system's reach as it
  rests on fairness;
- `ListingIsTrue` and `StatsAreTrue` of `LogReaders`.

## Disagreements with the documentation

Four runs are expected to violate their property. Each states a sentence of the
repository's documentation, and TLC finds how the code breaks it.

- `build_queue_repeat` / `RepeatedJobIsSafe`: "A repeated job is safe because it
  publishes the same commit-derived tag" (`src/README.md:76`). It also publishes
  `:latest`, and recovery sorts job files by random names: a job that ran before
  the restart runs again behind a later one and moves `:latest` back.
- `variable_store_size` / `StoredIsReadable`: "at most 128 values of at most 64 KiB
  each" (`src/README.md:158`). A load refuses files above a size computed from raw
  bytes, while JSON doubles newlines, quotes and backslashes; such a store can be
  written and then neither read nor patched.
- `repo_delete_patch` / `DeleteRemovesVariables`: "Deleting a repository also
  deletes its logs and managed variable file" (`src/README.md:186`). A patch that checked
  the repository before the deletion writes the file after it.
- `task_ends` / `TaskEnds`: "`timeout_seconds` ... may not exceed 3600"
  (`src/README.md:145`). A background process that keeps the output open blocks the
  worker in `proc.stdout.close()` for as long as it lives.

Three more disagreements are reached by steps of the models and are exceptions of what
they promise, without a run of their own:

- "Build configuration, authentication, or builder failures create a diagnostic entry"
  (`src/README.md:174`): a `repository.yaml` that is not UTF-8 raises past the handler of
  `execute` (`build_image.py:616`, `626`): exit status 1, a traceback to `/dev/null`, and
  no log (`ConfigRaises`, excepted in `FailureIsLogged`).
- "`POST /create` [...] creates a bare repository using `GIT_DEFAULT_BRANCH` and installs
  the canonical hook" (`src/README.md:191`): where the canonical hook is not a file it is
  skipped and the answer is 201 (`app.py:413`; `SkipHook`, and `unhooked` in `Complete`).
- "The `.job` file is deleted only after the worker returns" (`src/README.md:74`): it is
  also deleted when there never was a worker, because the repository has gone, or the job
  cannot be read or started (`build_dispatcher.py:134-138`; `RepositoryGone`,
  `CannotStart`). `DurableJobs` has `Abandon` for it, so `KeepsPromise` does not show
  that sentence.

The same behaviours are the exceptions written into the passing properties
(`LatestFollowsAcceptance`, `CreatedStays`, `VariablesFollowRepo`, `FailureIsLogged`,
`EndsUnlessHeld`), which say that nothing else goes wrong there.

Further behaviours that a maintainer may not expect are exceptions of properties that
pass, each of them necessary (without it TLC finds a counterexample):

- `CreatedStays`: two overlapping creations pass the check, `git init` accepts both,
  and the one that finds the hook link in place removes the repository that the other
  has answered 201 (`app.py:417`).
- `LogsFollowRepo`: a job that outlives its repository makes the directory of logs
  again; a deletion whose `rmtree` of the logs meets a new log raises after the
  repository is gone; a late one takes the logs of the next repository of the name.
- `JobUsesOwnVariables`: a job may run with the variables of a later repository of the
  name.
- `MirrorsAsDeclared`: the awk program does not leave the `mirrors` section, so a list
  after it, tasks or builds, becomes a branch filter of the last mirror; quoted urls
  and branches keep their quotes, and a mirror whose first key is `branches` is not
  seen. `OnlyDeclaredUrls`: the text of a task's script can look like a mirror.
- `PendingIsBounded`: output that repeats a value which begins with its own end is
  kept in memory, and searched again at every read.
- `ListingIsTrue`: output that looks like a footer or a header changes the status and
  type shown, and a line `# hook-log: mtime=` makes the page of logs fail.
- `CreatedIsComplete`: a stop between `git init` and the hook link leaves a repository
  that no later creation completes; the next deployment links its hook (`deploy.sh:72`).
- `EveryJobIsSettled`: an exception in the error path of a job ends the worker thread
  for good, and the service goes on accepting jobs that nobody runs.
- `StatsAreTrue`: one unfinished log of the last day, output without a final
  newline, or a log removed between the listing and the read hides all failed builds
  (`null`); unfinished output that ends like a failed log is counted, or hides them too.

`Converges` does the same for mirroring, which ADR-0003 calls eventually consistent.
A branch that was only ever moved forward is right at a mirror as soon as the push
that moved it last has succeeded there, whatever the processes overtook each other.
A branch that was deleted and created again, or pushed with `--force`, is right only
if no two pushes overlapped and none was forced: the mirror refuses a forced push for
good, because the script does not pass `--force` on.

## Not modelled

- `repository.yaml` validation, path resolution and environment checks
  (`build_image.py:48-282`): pure functions; the models take their outcome.
- The bytes of logs, requests and responses, command lines, environments, file
  modes and ownership.
- HTML pages, markdown, browsing of trees, blobs and history.
- The UTF-8 decoder behind the redaction, whose replacement characters take three
  bytes: a log of invalid bytes may exceed the cap of 10 MiB threefold.
- `running_jobs`, the sizes of repositories and the cache of the homepage statistics:
  they read `/proc` and the repositories and change nothing another part reads.
- The legacy aggregate log files, which are only listed and removed, and the
  retention a listing runs first (it is modelled as the hourly thread).
- Deployment, start and check scripts, among them the step of `deploy.sh` that links
  the hook of every repository anew.
- A failing `mktemp` or `tar` at `mirror-sync.sh:71-72`: for the mirrors it is what a
  process killed at that point is, except that its log says so.
- In `LogReaders`, directories of logs and the time budget: a directory that goes while
  it is read counts as its logs do, and a collection that takes more than three seconds
  answers `null` as well.
- The loss of an unsynced job file in a power failure: `atomic_write_job` syncs the
  file and not its directory.

## What comes next

1. Theorems about `LogReaders`: `ListingIsTrue` and `StatsAreTrue`.
2. Power failure in `BuildQueue`, for the job file whose directory is not synced.
3. The homepage's count of running builds against the processes of `BuildQueue`.
