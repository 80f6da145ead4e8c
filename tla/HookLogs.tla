------------------------------ MODULE HookLogs ------------------------------
(***************************************************************************)
(* The directory of hook logs of one repository, and what app.py does to   *)
(* it: the retention that runs every hour (cleanup_hook_logs) and the      *)
(* requests that delete all logs or one (delete_hook_logs; the deletion of *)
(* the repository makes the same call).  Neither is ordered with those who *)
(* write logs there, which are the subject of Pipeline.                    *)
(***************************************************************************)
EXTENDS Integers, FiniteSets

CONSTANTS
  Logs,      \* log files; every execution has names of its own (mkstemp)
  Place,     \* where a log is in the listing of the directory: any order
             \* can occur
  Requests,  \* DELETE requests, for all logs or for one
  MaxFaults  \* bound: failing system calls and killed processes

ASSUME PlaceAssumption ==
  /\ Place \in [Logs -> Nat]
  /\ \A l, m \in Logs : Place[l] = Place[m] => l = m
ASSUME FaultsAssumption == MaxFaults \in Nat

VARIABLES
  dir,     \* the directory exists
  file,    \* every log: "none", "temp" (not yet named *.log), "open", i.e.
           \* without a footer, or "ok" or "failed", as the footer says
  old,     \* logs older than GIT_HOOK_LOG_RETENTION_DAYS
  sweep,   \* the retention thread
  sweeps,  \* the entries it has still to look at
  wipe,    \* the DELETE requests
  wipes,   \* the entries each has still to remove
  faults,
  asked,   \* history: logs removed by requests
  gone     \* history: who has removed the directory

logvars == <<dir, file, old, sweep, sweeps, wipe, wipes, faults, asked, gone>>

Complete == {"ok", "failed"}
Present == {l \in Logs : file[l] # "none"}
First(l, S) == l \in S /\ \A m \in S : Place[l] <= Place[m]
Faulty == faults < MaxFaults /\ faults' = faults + 1

LogsInit ==
  /\ dir = FALSE
  /\ file = [l \in Logs |-> "none"]
  /\ old = {}
  /\ sweep = "asleep" /\ sweeps = {}
  /\ wipe = [r \in Requests |-> "idle"] /\ wipes = [r \in Requests |-> {}]
  /\ faults = 0
  /\ asked = {} /\ gone = {}

(***************************************************************************)
(* Faulty variants of definitions below; no specification uses them.       *)
(***************************************************************************)
\* shutil.rmtree in place of os.rmdir.
SweepDirWithLogs ==
  /\ sweep = "empty"
  /\ dir' = FALSE /\ file' = [l \in Logs |-> "none"] /\ gone' = gone \cup {"sweep"}
  /\ sweep' = "asleep"
  /\ UNCHANGED <<old, sweeps, wipe, wipes, faults, asked>>

------------------------------------------------------------------------------
(***************************************************************************)
(* cleanup_hook_logs, called by maintain_hook_logs.                        *)
(***************************************************************************)
SweepStart ==
  /\ sweep = "asleep" /\ dir
  /\ sweep' = "listing"
  /\ UNCHANGED <<dir, file, old, sweeps, wipe, wipes, faults, asked, gone>>

\* The entries to remove: what is older than the cutoff computed before.
\* os.listdir of a directory that has been removed since raises, and ends
\* the retention thread.
SweepList ==
  /\ sweep = "listing"
  /\ \/ dir /\ sweep' = "removing" /\ sweeps' = Present \cap old
     \/ ~dir /\ sweep' = "dead" /\ UNCHANGED sweeps
  /\ UNCHANGED <<dir, file, old, wipe, wipes, faults, asked, gone>>

SweepEntry(l) ==
  /\ sweep = "removing" /\ First(l, sweeps)
  /\ sweeps' = sweeps \ {l}
  /\ file' = [file EXCEPT ![l] = "none"]
  /\ UNCHANGED <<dir, old, sweep, wipe, wipes, faults, asked, gone>>

SweepCheck ==
  /\ sweep = "removing" /\ sweeps = {}
  /\ sweep' = IF dir /\ Present = {} THEN "empty" ELSE "asleep"
  /\ UNCHANGED <<dir, file, old, sweeps, wipe, wipes, faults, asked, gone>>

\* os.rmdir does not remove a directory in which a log has appeared.
SweepDir ==
  /\ sweep = "empty"
  /\ \/ dir /\ Present = {} /\ dir' = FALSE /\ gone' = gone \cup {"sweep"}
     \/ (~dir \/ Present # {}) /\ UNCHANGED <<dir, gone>>
  /\ sweep' = "asleep"
  /\ UNCHANGED <<file, old, sweeps, wipe, wipes, faults, asked>>

(***************************************************************************)
(* delete_hook_logs.                                                       *)
(***************************************************************************)
\* os.path.isdir
Wipe(r) ==
  /\ wipe[r] = "idle"
  /\ wipe' = [wipe EXCEPT ![r] = IF dir THEN "listing" ELSE "ok"]
  /\ UNCHANGED <<dir, file, old, sweep, sweeps, wipes, faults, asked, gone>>

\* shutil.rmtree lists the directory first ...
WipeList(r) ==
  /\ wipe[r] = "listing"
  /\ \/ /\ dir
        /\ wipe' = [wipe EXCEPT ![r] = "removing"]
        /\ wipes' = [wipes EXCEPT ![r] = Present]
     \/ /\ ~dir
        /\ wipe' = [wipe EXCEPT ![r] = "raised"] /\ UNCHANGED wipes
  /\ UNCHANGED <<dir, file, old, sweep, sweeps, faults, asked, gone>>

\* ... then removes what it has listed, and raises if an entry is missing ...
WipeEntry(r, l) ==
  /\ wipe[r] = "removing" /\ First(l, wipes[r])
  /\ \/ /\ file[l] # "none"
        /\ file' = [file EXCEPT ![l] = "none"] /\ asked' = asked \cup {l}
        /\ UNCHANGED wipe
     \/ /\ file[l] = "none"
        /\ wipe' = [wipe EXCEPT ![r] = "raised"] /\ UNCHANGED <<file, asked>>
  /\ wipes' = [wipes EXCEPT ![r] = @ \ {l}]
  /\ UNCHANGED <<dir, old, sweep, sweeps, faults, gone>>

\* ... and at last the directory, unless there is something in it.
WipeDir(r) ==
  /\ wipe[r] = "removing" /\ wipes[r] = {}
  /\ \/ /\ dir /\ Present = {}
        /\ dir' = FALSE /\ gone' = gone \cup {"request"}
        /\ wipe' = [wipe EXCEPT ![r] = "ok"]
     \/ /\ ~dir \/ Present # {}
        /\ wipe' = [wipe EXCEPT ![r] = "raised"] /\ UNCHANGED <<dir, gone>>
  /\ UNCHANGED <<file, old, sweep, sweeps, wipes, faults, asked>>

\* DELETE of one log, which may still be written.
DeleteOne(r, l) ==
  /\ wipe[r] = "idle"
  /\ file[l] \in Complete \cup {"open"}
  /\ file' = [file EXCEPT ![l] = "none"] /\ asked' = asked \cup {l}
  /\ wipe' = [wipe EXCEPT ![r] = "ok"]
  /\ UNCHANGED <<dir, old, sweep, sweeps, wipes, faults, gone>>

Retention ==
  SweepStart \/ SweepList \/ (\E l \in Logs : SweepEntry(l)) \/ SweepCheck \/ SweepDir

Deletion ==
  \E r \in Requests :
    \/ Wipe(r) \/ WipeList(r) \/ WipeDir(r)
    \/ \E l \in Logs : WipeEntry(r, l) \/ DeleteOne(r, l)

LogsTypeOK ==
  /\ dir \in BOOLEAN
  /\ file \in [Logs -> {"none", "temp", "open", "ok", "failed"}]
  /\ old \subseteq Logs /\ asked \subseteq Logs /\ sweeps \subseteq Logs
  /\ sweep \in {"asleep", "listing", "removing", "empty", "dead"}
  /\ wipe \in [Requests -> {"idle", "listing", "removing", "ok", "raised"}]
  /\ wipes \in [Requests -> SUBSET Logs]
  /\ faults \in 0..MaxFaults
  /\ gone \subseteq {"sweep", "request"}
  /\ Present # {} => dir

==============================================================================
