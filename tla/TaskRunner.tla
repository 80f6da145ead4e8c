----------------------------- MODULE TaskRunner -----------------------------
(***************************************************************************)
(* build_image.py, run_task: one shell task.  The main thread starts       *)
(* /bin/sh in a process group of its own and waits for it, at most for     *)
(* timeout_seconds; a reader thread copies what the shell and its children *)
(* write into the hook log until nobody holds the pipe any more.           *)
(*                                                                         *)
(* Output is counted in units, Block of them being the 65536 bytes that    *)
(* one read asks for: source.read(65536) returns with Block units or at    *)
(* the end of the file, and until it does it owns the lock of the buffered *)
(* stream, which close() needs too.                                        *)
(***************************************************************************)
EXTENDS Integers, FiniteSets, FiniteSetsExt

CONSTANTS
  Kids,      \* processes the shell may leave in the background
  Block,     \* units that one read asks for
  PipeSize,  \* units the pipe holds while nobody reads
  Limit,     \* MAX_TASK_LOG_BYTES, in units
  MaxOutput, \* bound: units written altogether
  MaxFaults  \* bound: failing system calls

ASSUME SizesAssumption ==
  /\ Block \in Nat \ {0} /\ PipeSize \in Nat \ {0} /\ Limit \in Nat
  /\ MaxOutput \in Nat /\ MaxFaults \in Nat

\* A process left in the background: still in the process group of the
\* shell or in a session of its own, with the pipe as its output or not,
\* ignoring SIGTERM or not.
Traits == [group : BOOLEAN, pipe : BOOLEAN, stubborn : BOOLEAN]

VARIABLES
  shell,     \* "none", "running" or "exited"
  stubborn,  \* the shell ignores SIGTERM
  status,    \* its exit status: 0, 1 or 143 (killed)
  alive,     \* background processes
  unborn,    \* those not yet started
  trait,
  unread,    \* units in the pipe and in the reader's buffer
  output,    \* units written so far (history)
  reader,    \* "none", "reading", "writing" or "ended"
  chunk,     \* units the reader holds
  logged,    \* units in the log
  dropped,   \* units not logged because of Limit
  error,     \* output_state["error"] is set
  closed,    \* the main thread has closed the pipe
  main,      \* where the main thread is
  timedOut,
  code,      \* what the task reports
  log,       \* "open" or "closed"
  faults

procs == <<shell, stubborn, status, alive, unborn, trait>>
copying == <<unread, reader, chunk, logged, dropped, error>>
vars == <<shell, stubborn, status, alive, unborn, trait, unread, output, reader,
          chunk, logged, dropped, error, closed, main, timedOut, code, log, faults>>

\* As long as somebody may still write, the pipe has no end.
Held == shell = "running" \/ \E k \in alive : trait[k].pipe

Init ==
  /\ shell = "none" /\ stubborn = FALSE /\ status = 0
  /\ alive = {} /\ unborn = Kids
  /\ trait = [k \in Kids |-> [group |-> TRUE, pipe |-> TRUE, stubborn |-> FALSE]]
  /\ unread = 0 /\ output = 0
  /\ reader = "none" /\ chunk = 0
  /\ logged = 0 /\ dropped = 0
  /\ error = FALSE /\ closed = FALSE
  /\ main = "start" /\ timedOut = FALSE /\ code = 0 /\ log = "open"
  /\ faults = 0

Faulty == faults < MaxFaults /\ faults' = faults + 1

(***************************************************************************)
(* Faulty variants of definitions below; no specification uses them.       *)
(***************************************************************************)
\* The shell is terminated, not its process group.
TerminatedShellOnly == {}

\* What is left in memory at the end of the pipe is not flushed.
EndDropsRest ==
  /\ reader = "reading"
  /\ ~Held /\ unread < Block
  /\ reader' = "ended"
  /\ unread' = 0
  /\ UNCHANGED <<procs, output, chunk, logged, dropped, error, closed, main,
                 timedOut, code, log, faults>>

\* proc.wait() without a timeout after SIGTERM.
GraceNeverExpires == FALSE /\ UNCHANGED vars

------------------------------------------------------------------------------
(***************************************************************************)
(* The task's processes (external).                                        *)
(***************************************************************************)
ShellForks(k) ==
  /\ shell = "running" /\ k \in unborn
  /\ unborn' = unborn \ {k} /\ alive' = alive \cup {k}
  /\ \E t \in Traits : trait' = [trait EXCEPT ![k] = t]
  /\ UNCHANGED <<shell, stubborn, status, output, copying, closed, main, timedOut,
                 code, log, faults>>

\* A write blocks when the pipe is full and nobody reads it; with the pipe
\* closed it would kill the writer, whose exit is possible anyhow.
Writes ==
  /\ Held /\ ~closed
  /\ output < MaxOutput
  /\ reader = "ended" => unread < PipeSize
  /\ output' = output + 1 /\ unread' = unread + 1
  /\ UNCHANGED <<procs, reader, chunk, logged, dropped, error, closed, main,
                 timedOut, code, log, faults>>

ShellExits ==
  /\ shell = "running"
  /\ shell' = "exited" /\ status' \in {0, 1}
  /\ UNCHANGED <<stubborn, alive, unborn, trait, output, copying, closed, main,
                 timedOut, code, log, faults>>

KidExits(k) ==
  /\ k \in alive
  /\ alive' = alive \ {k}
  /\ UNCHANGED <<shell, stubborn, status, unborn, trait, output, copying, closed,
                 main, timedOut, code, log, faults>>

(***************************************************************************)
(* The reader thread: stream_task_output.                                  *)
(***************************************************************************)
Read ==
  /\ reader = "reading"
  /\ unread >= Block
  /\ chunk' = Block /\ unread' = unread - Block
  /\ reader' = "writing"
  /\ UNCHANGED <<procs, output, logged, dropped, error, closed, main, timedOut,
                 code, log, faults>>

\* At the end of the file what is left is read as well.
End ==
  /\ reader = "reading"
  /\ ~Held /\ unread < Block
  /\ \/ unread = 0 /\ reader' = "ended"
     \/ unread > 0 /\ reader' = "writing"
  /\ chunk' = unread /\ unread' = 0
  /\ UNCHANGED <<procs, output, logged, dropped, error, closed, main, timedOut,
                 code, log, faults>>

\* Nothing above the limit is logged.  The next read of a closed pipe fails.
WriteLog ==
  /\ reader = "writing" /\ log = "open"
  /\ LET fits == Min({chunk, Limit - logged}) IN
       /\ logged' = logged + fits
       /\ dropped' = dropped + (chunk - fits)
  /\ chunk' = 0
  /\ IF closed THEN reader' = "ended" /\ error' = TRUE
               ELSE reader' = "reading" /\ UNCHANGED error
  /\ UNCHANGED <<procs, unread, output, closed, main, timedOut, code, log, faults>>

\* The main thread has closed the log, or the disk is full.
WriteLogFails ==
  /\ reader = "writing"
  /\ \/ log = "closed" /\ UNCHANGED faults
     \/ Faulty
  /\ reader' = "ended" /\ error' = TRUE
  /\ UNCHANGED <<procs, unread, output, chunk, logged, dropped, closed, main,
                 timedOut, code, log>>

(***************************************************************************)
(* The main thread: run_task.                                              *)
(***************************************************************************)
Start ==
  /\ main = "start"
  /\ shell' = "running" /\ stubborn' \in BOOLEAN
  /\ reader' = "reading"
  /\ main' = "waiting"
  /\ UNCHANGED <<status, alive, unborn, trait, unread, output, chunk, logged,
                 dropped, error, closed, timedOut, code, log, faults>>

StartFails ==
  /\ main = "start"
  /\ Faulty
  /\ code' = 127 /\ main' = "finishing"
  /\ UNCHANGED <<procs, output, copying, closed, timedOut, log>>

ShellReaped ==
  /\ main = "waiting" /\ shell = "exited"
  /\ code' = status /\ main' = "joining"
  /\ UNCHANGED <<procs, output, copying, closed, timedOut, log, faults>>

\* The processes that SIGTERM to the group ends at once.
Terminated == {k \in alive : trait[k].group /\ ~trait[k].stubborn}

\* The shell may have exited since the last poll; it is not reaped, so the
\* group can still be signalled.
TimeoutExpires ==
  /\ main = "waiting"
  /\ timedOut' = TRUE
  /\ alive' = alive \ Terminated
  /\ IF stubborn \/ shell = "exited"
       THEN UNCHANGED <<shell, status>>
       ELSE shell' = "exited" /\ status' = 143
  /\ main' = "grace"
  /\ UNCHANGED <<stubborn, unborn, trait, output, copying, closed, code, log, faults>>

CodeOfTimeout == 124

ReapedInGrace ==
  /\ main = "grace" /\ shell = "exited"
  /\ code' = CodeOfTimeout /\ main' = "joining"
  /\ UNCHANGED <<procs, output, copying, closed, timedOut, log, faults>>

\* Five seconds later: SIGKILL to the group.
GraceExpires ==
  /\ main = "grace"
  /\ shell' = "exited"
  /\ status' = IF shell = "running" THEN 137 ELSE status
  /\ alive' = {k \in alive : ~trait[k].group}
  /\ code' = CodeOfTimeout /\ main' = "joining"
  /\ UNCHANGED <<stubborn, unborn, trait, output, copying, closed, timedOut, log,
                 faults>>

\* What the task reports once the reader is joined or given up.
Settle ==
  /\ code' = IF error /\ code = 0 THEN 1 ELSE code
  /\ main' = "finishing"

Joined ==
  /\ main \in {"joining", "rejoining"} /\ reader = "ended"
  /\ Settle
  /\ UNCHANGED <<procs, output, copying, closed, timedOut, log, faults>>

\* The reader is still alive after five seconds.
JoinExpires ==
  /\ main = "joining" /\ reader # "ended"
  /\ main' = "closing"
  /\ UNCHANGED <<procs, output, copying, closed, timedOut, code, log, faults>>

\* proc.stdout.close() waits for the read in progress.
ClosePipe ==
  /\ main = "closing" /\ reader # "reading"
  /\ closed' = TRUE
  /\ main' = "rejoining"
  /\ UNCHANGED <<procs, output, copying, timedOut, code, log, faults>>

\* One more second, then the reader is left to itself.
RejoinExpires ==
  /\ main = "rejoining" /\ reader # "ended"
  /\ Settle
  /\ UNCHANGED <<procs, output, copying, closed, timedOut, log, faults>>

Finish ==
  /\ main = "finishing"
  /\ log' = "closed" /\ main' = "done"
  /\ UNCHANGED <<procs, output, copying, closed, timedOut, code, faults>>

\* The last lines of the log cannot be written: run_task raises.
FinishFails ==
  /\ main = "finishing"
  /\ Faulty
  /\ main' = "raised"
  /\ UNCHANGED <<procs, output, copying, closed, timedOut, code, log>>

Processes ==
  \/ \E k \in Kids : ShellForks(k) \/ KidExits(k)
  \/ Writes
  \/ ShellExits

Reader == Read \/ End \/ WriteLog \/ WriteLogFails

Main ==
  \/ Start \/ StartFails
  \/ ShellReaped \/ TimeoutExpires \/ ReapedInGrace \/ GraceExpires
  \/ Joined \/ JoinExpires \/ ClosePipe \/ RejoinExpires
  \/ Finish \/ FinishFails

Next == Processes \/ Reader \/ Main

Spec == Init /\ [][Next]_vars

\* Both threads are scheduled and timeouts expire.  Nothing is assumed of
\* the task's own processes.
FairSpec == Spec /\ WF_vars(Reader) /\ WF_vars(Main)

------------------------------------------------------------------------------
\* Types.
TypeOK ==
  /\ shell \in {"none", "running", "exited"}
  /\ stubborn \in BOOLEAN
  /\ status \in {0, 1, 137, 143}
  /\ alive \subseteq Kids /\ unborn \subseteq Kids
  /\ trait \in [Kids -> Traits]
  /\ {unread, output, chunk, logged, dropped, faults} \subseteq Nat
  /\ reader \in {"none", "reading", "writing", "ended"}
  /\ {error, closed, timedOut} \subseteq BOOLEAN
  /\ main \in {"start", "waiting", "grace", "joining", "closing", "rejoining",
               "finishing", "done", "raised"}
  /\ code \in {0, 1, 124, 127}
  /\ log \in {"open", "closed"}

Over == main \in {"joining", "closing", "rejoining", "finishing", "done", "raised"}

\* A task that reports success has run to its end, in time, and its log holds
\* all it has written up to the limit, unless the reader had to be given up.
SuccessIsComplete ==
  main = "done" /\ code = 0 =>
    /\ shell = "exited" /\ status = 0 /\ ~timedOut
    /\ \/ closed
       \/ /\ reader = "ended" /\ logged + dropped = output
          /\ logged = Limit \/ dropped = 0

\* A task that ran out of time says so, whatever its shell made of SIGTERM, and
\* ADR-0006, decision 3: a timeout "can terminate child processes as well as
\* the shell".  What survives it has left the group, or the shell has ended
\* before SIGKILL and the process or the shell itself has ignored SIGTERM.
TimeoutEndsGroup ==
  Over /\ timedOut =>
    /\ code = 124
    /\ shell = "exited"
    /\ \A k \in alive : trait[k].group =>
         status # 137 /\ (trait[k].stubborn \/ stubborn)

\* The main thread gets to the end of the task, unless some background
\* process holds the pipe for ever.
EndsUnlessHeld ==
  <>(main \in {"done", "raised"}) \/ <>[](\E k \in alive : trait[k].pipe)

\* README "Post-build tasks": timeout_seconds "may not exceed 3600".
TaskEnds == <>(main \in {"done", "raised"})

==============================================================================
