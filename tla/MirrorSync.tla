----------------------------- MODULE MirrorSync -----------------------------
(***************************************************************************)
(* mirror-sync.sh: what is pushed to the server is pushed on to the        *)
(* mirrors that repository.yaml declares.  Every push starts a background  *)
(* process (run_mirror_logged of post-receive) that repeats its changes of *)
(* branches at each mirror, one git push at a time; nothing orders the     *)
(* processes of successive pushes, and nothing is tried again.             *)
(*                                                                         *)
(* A git push without --force creates a branch or moves it forward, and is *)
(* refused otherwise.                                                      *)
(***************************************************************************)
EXTENDS Integers, Sequences, FiniteSetsExt

CONSTANTS
  Commits,
  Before,     \* the pairs of a commit and one of its descendants
  Refs,       \* branches
  HeadRef,    \* the branch that HEAD of the server names
  Mirrors,    \* urls
  Valid,      \* those that begin with ssh://, git@, http:// or https://
  ConfigOf,   \* the mirrors that repository.yaml of a commit declares, each
              \* with the branches it is for
  MaxPushes,  \* bound: pushes to the server
  MaxChanges, \* bound: changes of branches that they make together
  MaxFaults,  \* bound: failing pushes to a mirror and killed processes
  Gone        \* the value of a branch that does not exist

ASSUME RefsAssumption == IsFiniteSet(Refs) /\ HeadRef \in Refs
ASSUME CommitsAssumption == Gone \notin Commits /\ Before \subseteq Commits \X Commits
ASSUME BeforeAssumption ==
  /\ \A c \in Commits : <<c, c>> \notin Before
  /\ \A b, c, d \in Commits : <<b, c>> \in Before /\ <<c, d>> \in Before => <<b, d>> \in Before
ASSUME MirrorsAssumption == Valid \subseteq Mirrors
Entries == Seq([mirror : Mirrors, refs : SUBSET Refs])

ASSUME ConfigAssumption == ConfigOf \in [Commits -> Entries]
ASSUME BoundsAssumption == MaxPushes \in Nat /\ MaxChanges \in Nat /\ MaxFaults \in Nat

Pushes == 1..MaxPushes
Values == Commits \cup {Gone}

VARIABLES
  server,  \* the branches at the server
  remote,  \* and at each mirror
  pushed,  \* number of pushes; each has a process of the same number
  changed, \* number of changes they have made
  change,  \* the changes of a push, in the order of the hook's input
  at,      \* where its process is
  entries, \* MIRRORS, what it has read from repository.yaml
  work,    \* the pushes to mirrors it has still to make: an entry and a change
  status,  \* MIRROR_STATUS, and the exit status
  faults,
  tried,   \* history: those it has made
  good,    \* history: and those that have succeeded
  owner,   \* history: the push that gave a branch its value at the server
  linear,  \* history: branches never deleted and never pushed with --force
  calm     \* history: mirror and branch, as long as no push overlaps with a
           \* process at work on the branch, every change is for the mirror,
           \* and none is forced

processes == <<change, at, entries, work, status, tried, good>>
history == <<owner, linear, calm>>
vars == <<server, remote, pushed, changed, processes, faults, history>>

Init ==
  /\ server = [r \in Refs |-> Gone]
  /\ remote = [m \in Mirrors |-> [r \in Refs |-> Gone]]
  /\ pushed = 0 /\ changed = 0
  /\ change = [p \in Pushes |-> <<>>]
  /\ at = [p \in Pushes |-> "none"]
  /\ entries = [p \in Pushes |-> <<>>]
  /\ work = [p \in Pushes |-> {}]
  /\ status = [p \in Pushes |-> 0]
  /\ faults = 0
  /\ tried = [p \in Pushes |-> {}] /\ good = [p \in Pushes |-> {}]
  /\ owner = [r \in Refs |-> 0]
  /\ linear = Refs
  /\ calm = Mirrors \X Refs

\* A branch is created, not changed, or moved forward.
Forward(from, to) == to # Gone /\ (from \in {Gone, to} \/ <<from, to>> \in Before)

\* Faulty variant of Accepts, which no specification uses: git push --force.
AcceptsForced(m, r, v) == v = Gone => remote[m][r] # Gone

\* What a mirror accepts: git push --delete needs the branch to exist.
Accepts(m, r, v) ==
  IF v = Gone THEN remote[m][r] # Gone ELSE Forward(remote[m][r], v)

RefsOf(c) == {c[i].ref : i \in DOMAIN c}
AtWork(p) == at[p] \in {"started", "pushing"}

\* Faulty variant of New, which no specification uses: every branch is pushed
\* with the last commit of the push.
NewOfLast(p, job) == change[p][Len(change[p])].new

\* A push to a mirror: the url, the branch and its new value.
Mirror(p, job) == entries[p][job[1]].mirror
Ref(p, job) == change[p][job[2]].ref
New(p, job) == change[p][job[2]].new

\* The loops: for every mirror, every change in turn.
Turn(p, job) ==
  /\ \A x \in work[p] : job[1] < x[1] \/ (job[1] = x[1] /\ job[2] <= x[2])
  /\ work' = [work EXCEPT ![p] = @ \ {job}]
  /\ tried' = [tried EXCEPT ![p] = @ \cup {job}]

Accepted(p, job) == Accepts(Mirror(p, job), Ref(p, job), New(p, job))
Taken(p, job) == remote' = [remote EXCEPT ![Mirror(p, job)][Ref(p, job)] = New(p, job)]

(***************************************************************************)
(* Faulty variants of definitions below; no specification uses them.       *)
(***************************************************************************)
\* The loop is left at the first failure.
TryExits(p) ==
  /\ at[p] = "pushing"
  /\ \E job \in work[p] :
       /\ Turn(p, job)
       /\ IF Accepted(p, job)
          THEN /\ Taken(p, job)
               /\ good' = [good EXCEPT ![p] = @ \cup {job}]
               /\ UNCHANGED <<status, at>>
          ELSE /\ status' = [status EXCEPT ![p] = 1]
               /\ at' = [at EXCEPT ![p] = "ended"]
               /\ UNCHANGED <<remote, good>>
  /\ UNCHANGED <<server, pushed, changed, change, entries, faults, history>>

\* A push is repeated until the mirror accepts it.
TryUntilAccepted(p) ==
  /\ at[p] = "pushing"
  /\ \E job \in work[p] :
       /\ Turn(p, job) /\ Accepted(p, job) /\ Taken(p, job)
       /\ good' = [good EXCEPT ![p] = @ \cup {job}]
  /\ UNCHANGED <<server, pushed, changed, change, at, entries, status, faults, history>>

\* The exit status of git push is that of a pipeline it is part of.
TryFailsUnnoticed(p) ==
  /\ at[p] = "pushing"
  /\ faults < MaxFaults /\ faults' = faults + 1
  /\ \E job \in work[p] : Turn(p, job) /\ good' = [good EXCEPT ![p] = @ \cup {job}]
  /\ UNCHANGED <<server, remote, pushed, changed, change, at, entries, status, history>>

------------------------------------------------------------------------------
\* A push to the server: any changes of some branches at once; git refuses
\* the deletion of the branch that HEAD names.  Its hook starts a process.
Push(c) ==
  /\ pushed < MaxPushes /\ changed + Len(c) <= MaxChanges
  /\ \A i, j \in DOMAIN c : c[i].ref = c[j].ref => i = j
  /\ \A i \in DOMAIN c : c[i].new # server[c[i].ref] /\ (c[i].new = Gone => c[i].ref # HeadRef)
  /\ LET p == pushed + 1
         new == [r \in Refs |-> IF r \in RefsOf(c)
                                THEN c[CHOOSE i \in DOMAIN c : c[i].ref = r].new
                                ELSE server[r]]
         busy == UNION {RefsOf(change[q]) : q \in {x \in Pushes : AtWork(x)}}
         forced == {r \in Refs : new[r] # Gone /\ ~Forward(server[r], new[r])}
     IN /\ server' = new
        /\ pushed' = p /\ changed' = changed + Len(c)
        /\ change' = [change EXCEPT ![p] = c]
        /\ at' = [at EXCEPT ![p] = "started"]
        /\ owner' = [r \in Refs |-> IF r \in RefsOf(c) THEN p ELSE owner[r]]
        /\ linear' = {r \in linear : r \notin forced /\ (server[r] # Gone => new[r] # Gone)}
        /\ calm' = {x \in calm : x[2] \notin forced \cup (RefsOf(c) \cap busy)}
  /\ UNCHANGED <<remote, entries, work, status, tried, good, faults>>

\* The commit whose repository.yaml counts: the last one of the push, or for
\* a push of deletions that of HEAD.
Kept(p) == {i \in DOMAIN change[p] : change[p][i].new # Gone}
ConfigCommit(p) ==
  IF Kept(p) # {} THEN change[p][Max(Kept(p))].new ELSE server[HeadRef]

\* For every mirror every change, less those its url or its branches exclude.
Jobs(e, c) ==
  {job \in (DOMAIN e) \X (DOMAIN c) :
     e[job[1]].mirror \in Valid /\ c[job[2]].ref \in e[job[1]].refs}

\* Without a commit to unpack (HEAD names a branch that does not exist) the
\* script fails; without mirrors in it there is nothing to do.
Configure(p) ==
  /\ at[p] = "started"
  /\ LET sha == ConfigCommit(p)
         read == IF sha = Gone THEN <<>> ELSE ConfigOf[sha]
         todo == Jobs(read, change[p])
     IN /\ entries' = [entries EXCEPT ![p] = read]
        /\ work' = [work EXCEPT ![p] = todo]
        /\ status' = [status EXCEPT ![p] = IF sha = Gone THEN 3 ELSE 0]
        /\ at' = [at EXCEPT ![p] = IF todo = {} THEN "ended" ELSE "pushing"]
        /\ calm' = {x \in calm : x[2] \in RefsOf(change[p]) =>
                      \E job \in todo : x = <<read[job[1]].mirror, change[p][job[2]].ref>>}
  /\ UNCHANGED <<server, remote, pushed, changed, change, tried, good, faults, owner, linear>>

\* One git push to a mirror; a refusal is remembered and the next one made.
Try(p) ==
  /\ at[p] = "pushing"
  /\ \E job \in work[p] :
       /\ Turn(p, job)
       /\ IF Accepted(p, job)
          THEN /\ Taken(p, job)
               /\ good' = [good EXCEPT ![p] = @ \cup {job}]
               /\ UNCHANGED status
          ELSE /\ status' = [status EXCEPT ![p] = 1]
               /\ UNCHANGED <<remote, good>>
  /\ UNCHANGED <<server, pushed, changed, change, at, entries, faults, history>>

\* It cannot connect, loses to another push, or is killed after 60 seconds,
\* when the mirror may have taken the change.
TryFails(p) ==
  /\ at[p] = "pushing"
  /\ faults < MaxFaults /\ faults' = faults + 1
  /\ \E job \in work[p] :
       /\ Turn(p, job)
       /\ (Accepted(p, job) /\ Taken(p, job)) \/ UNCHANGED remote
  /\ status' = [status EXCEPT ![p] = 1]
  /\ UNCHANGED <<server, pushed, changed, change, at, entries, good, history>>

Exit(p) ==
  /\ at[p] = "pushing" /\ work[p] = {}
  /\ at' = [at EXCEPT ![p] = "ended"]
  /\ UNCHANGED <<server, remote, pushed, changed, change, entries, work, status, tried, good,
                 faults, history>>

Killed(p) ==
  /\ AtWork(p)
  /\ faults < MaxFaults /\ faults' = faults + 1
  /\ at' = [at EXCEPT ![p] = "killed"]
  /\ work' = [work EXCEPT ![p] = {}]
  /\ UNCHANGED <<server, remote, pushed, changed, change, entries, status, tried, good, history>>

Changes == UNION {[1..n -> [ref : Refs, new : Values]] : n \in 1..Cardinality(Refs)}

Process(p) == Configure(p) \/ Try(p) \/ TryFails(p) \/ Exit(p) \/ Killed(p)

Next == (\E c \in Changes : Push(c)) \/ (\E p \in Pushes : Process(p))

\* Background processes are scheduled, and a git push takes 60 seconds at most.
Spec == Init /\ [][Next]_vars /\ \A p \in Pushes : WF_vars(Process(p))

------------------------------------------------------------------------------
\* Types; a process has a number once its push is made, and makes each of its
\* pushes to mirrors once.
TypeOK ==
  /\ server \in [Refs -> Values]
  /\ remote \in [Mirrors -> [Refs -> Values]]
  /\ pushed \in 0..MaxPushes /\ changed \in 0..MaxChanges
  /\ change \in [Pushes -> Changes \cup {<<>>}]
  /\ at \in [Pushes -> {"none", "started", "pushing", "ended", "killed"}]
  /\ \A p \in Pushes :
       /\ at[p] = "none" <=> p > pushed
       /\ change[p] = <<>> <=> p > pushed
  /\ entries \in [Pushes -> {<<>>} \cup {ConfigOf[c] : c \in Commits}]
  /\ status \in [Pushes -> {0, 1, 3}]
  /\ \A f \in {work, tried, good} : DOMAIN f = Pushes
  /\ \A p \in Pushes :
       /\ work[p] \cup tried[p] \subseteq Jobs(entries[p], change[p])
       /\ work[p] \cap tried[p] = {} /\ good[p] \subseteq tried[p]
       /\ work[p] # {} => at[p] = "pushing"
  /\ faults \in 0..MaxFaults
  /\ owner \in [Refs -> 0..pushed]
  /\ linear \subseteq Refs /\ calm \subseteq Mirrors \X Refs

\* ADR-0003-D2: "what was pushed is what gets mirrored (same refs, same
\* SHAs)".  A branch of a mirror is where some push has put that branch.
OnlyWhatWasPushed ==
  \A m \in Mirrors, r \in Refs : remote[m][r] # Gone =>
    m \in Valid /\ \E p \in Pushes : \E i \in DOMAIN change[p] :
                       change[p][i] = [ref |-> r, new |-> remote[m][r]]

\* mirror-sync.sh:18, "One failing mirror never stops the others": every change
\* is tried at every mirror that the commit pushed declares for its branch,
\* and the exit status tells whether one of these pushes has failed.
FailureIsIsolated ==
  \A p \in Pushes : at[p] = "ended" /\ status[p] # 3 =>
    /\ Kept(p) # {} => tried[p] = Jobs(ConfigOf[ConfigCommit(p)], change[p])
    /\ status[p] = 0 <=> good[p] = tried[p]

\* A mirror does not go back, in whatever order the processes get there.
NeverBack ==
  [][\A m \in Mirrors, r \in linear' :
       remote[m][r] # remote'[m][r] => Forward(remote[m][r], remote'[m][r])]_vars

\* ADR-0003-D2: "Mirroring is eventually consistent".  It is, for a branch
\* that is only moved forward, as soon as the push that moved it last has
\* been made at the mirror; and for any branch without forced or overlapping
\* pushes, once the processes have ended without a fault.
Converges ==
  \A m \in Valid, r \in Refs :
    /\ r \in linear /\ owner[r] # 0 =>
         \A job \in good[owner[r]] :
           Mirror(owner[r], job) = m /\ Ref(owner[r], job) = r => remote[m][r] = server[r]
    /\ <<m, r>> \in calm /\ faults = 0 /\ (\A p \in Pushes : ~AtWork(p)) =>
         remote[m][r] = server[r]

\* Once nothing more is pushed, all processes come to an end.
EveryProcessEnds == <>[](\A p \in Pushes : ~AtWork(p))

==============================================================================
