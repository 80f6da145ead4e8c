-------------------------- MODULE BuildQueue_proofs --------------------------
(***************************************************************************)
(* Proofs about BuildQueue for every number of requests, workers, boots    *)
(* and failures and every capacity.  The inductive invariant IInv has four *)
(* parts, each proved from the ones before it: who is inside the lock      *)
(* (Intake), which requests have become jobs (Fate), where the jobs are    *)
(* (Dispatch), and what the order of acceptance and the processes look     *)
(* like (Order, Builds).                                                   *)
(***************************************************************************)
EXTENDS BuildQueue, SequenceTheorems, FiniteSetTheorems, TLAPS

Inside == {"locked", "writing", "replaced"}

\* Handlers that have not created a job file.
Early == {"received", "valid", "locked", "writing", "rejected"}

Known == jobs \cup returned \cup dropped

\* At most one handler is inside the with statement, the one that has the
\* lock; and nothing is in memory while the service is down.
Intake ==
  /\ \A r \in Requests : handler[r] \in Inside <=> lock = r
  /\ phase = "down" =>
       /\ \A r \in Requests : handler[r] = "none"
       /\ queue = <<>>
       /\ \A w \in Workers : held[w] = None /\ wpc[w] \in {"none", "dead"}

\* A request is known to the dispatcher from os.replace on, and never
\* before; its stamp tells the two apart.
Fate ==
  /\ \A r \in Requests : r \in Known <=> stamp[r] > 0
  /\ \A r \in Requests : client[r] = "idle" =>
                           handler[r] = "none" /\ stamp[r] = 0
  /\ \A r \in Requests : handler[r] \in Early => stamp[r] = 0
  /\ \A r \in Requests : handler[r] \in {"replaced", "queued"} => stamp[r] > 0
  /\ QueuedAnswerIsDurable

\* The files are within the limit, and strictly while one is written.
Capacitated ==
  /\ IsFiniteSet(jobs)
  /\ Cardinality(jobs) <= Capacity
  /\ \A r \in Requests :
       handler[r] = "writing" => Cardinality(jobs) < Capacity

\* A job between os.replace and put is nowhere else.
Unqueued ==
  \A r \in Requests : handler[r] = "replaced" =>
    /\ r \in jobs
    /\ r \notin Range(queue)
    /\ \A w \in Workers : held[w] # r

Dispatch ==
  /\ NoDoubleDispatch
  /\ NoStrandedJob
  /\ DispatchedJobHasFile
  /\ Unqueued

\* The stamps count the acceptances, and the job about to be put has the
\* highest.
Order ==
  /\ \A r \in Requests : stamp[r] <= accepts
  /\ base <= accepts
  /\ \A r, s \in Requests : stamp[r] = stamp[s] /\ stamp[r] > 0 => r = s
  /\ \A r \in Requests : handler[r] = "replaced" => stamp[r] = accepts
  /\ DispatchInAcceptOrder

\* A process belongs to a known job; a worker that waits has a live process
\* or one that has ended.
Builds ==
  /\ \A p \in procs : stamp[p.job] > 0 /\ p.boot <= boot
  /\ \A r \in ended : stamp[r] > 0
  /\ EveryBuildIsAwaited
  /\ \A w \in Workers : wpc[w] = "running" =>
       \/ held[w] \in ended
       \/ \E p \in procs : p.job = held[w] /\ p.boot = boot

IInv == TypeOK /\ Intake /\ Fate /\ Capacitated /\ Dispatch /\ Order /\ Builds

------------------------------------------------------------------------------
(***************************************************************************)
(* Facts about sequences and the helpers of the model.                     *)
(***************************************************************************)

\* queue.put: what the queue holds after Append.
LEMMA PutFacts ==
  ASSUME NEW S, NEW q \in Seq(S), NEW r \in S
  PROVE  /\ Append(q, r) \in Seq(S)
         /\ DOMAIN Append(q, r) = 1 .. Len(q) + 1
         /\ \A i \in 1 .. Len(q) : Append(q, r)[i] = q[i]
         /\ Append(q, r)[Len(q) + 1] = r
         /\ DOMAIN q = 1 .. Len(q)
         /\ Len(q) \in Nat
         /\ Range(Append(q, r)) = Range(q) \cup {r}
  <1>1. /\ Append(q, r) \in Seq(S)
        /\ Len(Append(q, r)) = Len(q) + 1
        /\ \A i \in 1 .. Len(q) : Append(q, r)[i] = q[i]
        /\ Append(q, r)[Len(q) + 1] = r
    BY AppendProperties
  <1>2. DOMAIN q = 1 .. Len(q) /\ Len(q) \in Nat
    BY LenProperties
  <1>3. DOMAIN Append(q, r) = 1 .. Len(q) + 1
    BY <1>1, LenProperties
  <1>4. Range(Append(q, r)) = Range(q) \cup {r}
    BY <1>1, <1>2, <1>3 DEF Range
  <1> QED
    BY <1>1, <1>2, <1>3, <1>4

\* queue.get: what the queue holds after Tail.
LEMMA GetFacts ==
  ASSUME NEW S, NEW q \in Seq(S), q # <<>>
  PROVE  /\ Tail(q) \in Seq(S)
         /\ Head(q) \in S
         /\ Head(q) = q[1]
         /\ 1 \in DOMAIN q
         /\ \A i \in DOMAIN Tail(q) : i + 1 \in DOMAIN q /\ Tail(q)[i] = q[i + 1]
         /\ DOMAIN Tail(q) \subseteq Nat
         /\ Range(q) = Range(Tail(q)) \cup {Head(q)}
  <1>1. /\ Head(q) \in S
        /\ Tail(q) \in Seq(S)
        /\ Len(Tail(q)) = Len(q) - 1
        /\ \A i \in 1 .. Len(Tail(q)) : Tail(q)[i] = q[i + 1]
    BY HeadTailProperties
  <1>2. DOMAIN q = 1 .. Len(q) /\ Len(q) \in Nat /\ Len(q) # 0
    BY LenProperties, EmptySeq
  <1>3. DOMAIN Tail(q) = 1 .. Len(q) - 1
    BY <1>1, LenProperties
  <1>4. Head(q) = q[1]
    BY <1>2
  <1>5. 1 \in DOMAIN q
    BY <1>2
  <1>6. \A i \in DOMAIN Tail(q) : i + 1 \in DOMAIN q /\ Tail(q)[i] = q[i + 1]
    BY <1>1, <1>2, <1>3
  <1>7. Range(q) = Range(Tail(q)) \cup {Head(q)}
    <2>1. ASSUME NEW x \in Range(q) PROVE x \in Range(Tail(q)) \cup {Head(q)}
      <3>1. PICK i \in 1 .. Len(q) : q[i] = x
        BY <2>1, <1>2 DEF Range
      <3>2. CASE i = 1
        BY <3>1, <3>2, <1>4
      <3>3. CASE i # 1
        <4>1. i - 1 \in DOMAIN Tail(q) /\ (i - 1) + 1 = i
          BY <3>3, <1>2, <1>3
        <4>2. Tail(q)[i - 1] = x
          BY <4>1, <1>6, <3>1
        <4> QED
          BY <4>1, <4>2 DEF Range
      <3> QED
        BY <3>2, <3>3
    <2>2. Range(Tail(q)) \subseteq Range(q)
      BY <1>6 DEF Range
    <2>3. Head(q) \in Range(q)
      BY <1>4, <1>5 DEF Range
    <2> QED
      BY <2>1, <2>2, <2>3
  <1> QED
    BY <1>1, <1>3, <1>4, <1>5, <1>6, <1>7

\* recover(): the sorted listing is a queue that holds each file once.
LEMMA ListingFacts ==
  ASSUME TypeOK, IsFiniteSet(jobs),
         NEW q \in [1 .. Cardinality(jobs) -> jobs], Listing(q)
  PROVE  /\ q \in Seq(Requests)
         /\ Range(q) = jobs
         /\ \A i, j \in DOMAIN q : q[i] = q[j] => i = j
  <1>1. Cardinality(jobs) \in Nat
    BY FS_CardinalityType
  <1>2. q \in Seq(Requests)
    <2>1. jobs \subseteq Requests
      BY DEF TypeOK
    <2>2. q \in [1 .. Cardinality(jobs) -> Requests]
      BY <2>1
    <2> QED
      BY <1>1, <2>2, SeqDef
  <1>3. \A i, j \in DOMAIN q : i < j => Rank[q[i]] # Rank[q[j]]
    <2> TAKE i, j \in DOMAIN q
    <2>1. Rank[q[i]] \in Nat /\ Rank[q[j]] \in Nat
      BY RankAssumption DEF TypeOK
    <2> QED
      BY <2>1 DEF Listing
  <1>4. \A i, j \in DOMAIN q : q[i] = q[j] => i = j
    <2> SUFFICES ASSUME NEW i \in DOMAIN q, NEW j \in DOMAIN q, q[i] = q[j], i # j
                 PROVE  FALSE
      OBVIOUS
    <2>1. i < j \/ j < i
      BY <1>1
    <2> QED
      BY <2>1, <1>3
  <1> QED
    BY <1>2, <1>4 DEF Listing

------------------------------------------------------------------------------
(***************************************************************************)
(* Type correctness.                                                       *)
(***************************************************************************)

\* jobs is finite in every state, so that recover() lists it.
LEMMA JobsFinite == TypeOK => IsFiniteSet(jobs)
  BY RequestsAssumption, FS_Subset DEF TypeOK

LEMMA TypeInit == Init => TypeOK
  BY EmptySeq DEF Init, TypeOK, Phases, Clients, Handlers, WorkerPc, Procs

LEMMA TypeStep == TypeOK /\ [Next]_vars => TypeOK'
  <1> SUFFICES ASSUME TypeOK, [Next]_vars PROVE TypeOK'
    OBVIOUS
  <1> USE DEF Phases, Clients, Handlers, WorkerPc, service, world, intake,
              threads, outside, past, fates
  <1>1. ASSUME NEW r \in Requests, Client(r) PROVE TypeOK'
    BY <1>1 DEF TypeOK, Client, Connect, ConnectFails, ClientTimeout
  <1>2. ASSUME NEW r \in Requests, Validate(r) PROVE TypeOK'
    BY <1>2 DEF TypeOK, Validate
  <1>3. ASSUME NEW r \in Requests, Acquire(r) PROVE TypeOK'
    BY <1>3 DEF TypeOK, Acquire
  <1>4. ASSUME NEW r \in Requests, RejectFull(r) PROVE TypeOK'
    BY <1>4 DEF TypeOK, RejectFull, Reject
  <1>5. ASSUME NEW r \in Requests, BeginWrite(r) PROVE TypeOK'
    BY <1>5 DEF TypeOK, BeginWrite
  <1>6. ASSUME NEW r \in Requests, Replace(r) PROVE TypeOK'
    BY <1>6 DEF TypeOK, Replace
  <1>7. ASSUME NEW r \in Requests, Put(r) PROVE TypeOK'
    <2>1. queue' \in Seq(Requests)
      BY <1>7, PutFacts DEF TypeOK, Put
    <2> QED
      BY <1>7, <2>1 DEF TypeOK, Put
  <1>8. ASSUME NEW r \in Requests, Respond(r) PROVE TypeOK'
    BY <1>8 DEF TypeOK, Respond
  <1>9. ASSUME NEW r \in Requests, WriteFails(r) PROVE TypeOK'
    BY <1>9 DEF TypeOK, WriteFails, Reject
  <1>10. ASSUME NEW w \in Workers, Take(w) PROVE TypeOK'
    <2>1. queue' \in Seq(Requests) /\ Head(queue) \in Requests
      BY <1>10, GetFacts DEF TypeOK, Take
    <2> QED
      BY <1>10, <2>1, RequestsAssumption DEF TypeOK, Take
  <1>11. ASSUME NEW w \in Workers, Start(w) PROVE TypeOK'
    <2>1. held[w] \in Requests
      BY <1>11 DEF TypeOK, Start
    <2>2. [job |-> held[w], boot |-> boot, stage |-> "building"] \in Procs
      BY <2>1 DEF TypeOK, Procs
    <2> QED
      BY <1>11, <2>2 DEF TypeOK, Start
  <1>12. ASSUME NEW w \in Workers, Finish(w) PROVE TypeOK'
    BY <1>12 DEF TypeOK, Finish
  <1>13. ASSUME NEW w \in Workers,
                RepositoryGone(w) \/ CannotStart(w) \/ CannotStartNorLog(w)
         PROVE  TypeOK'
    <2>1. CASE RepositoryGone(w)
      BY <2>1 DEF TypeOK, RepositoryGone, Discard
    <2>2. CASE CannotStart(w)
      BY <2>2 DEF TypeOK, CannotStart, Discard
    <2>3. CASE CannotStartNorLog(w)
      BY <2>3 DEF TypeOK, CannotStartNorLog, Discard
    <2> QED
      BY <1>13, <2>1, <2>2, <2>3
  <1>14. ASSUME NEW w \in Workers, UnlinkFails(w) PROVE TypeOK'
    BY <1>14 DEF TypeOK, UnlinkFails
  <1>15. ASSUME NEW p \in procs, PushLatest(p) PROVE TypeOK'
    <2>1. p \in Procs /\ RepoOf[p.job] \in Repos
      BY RepoOfAssumption DEF TypeOK, Procs
    <2>2. [p EXCEPT !.stage = "pushed"] \in Procs /\ p.job \in Requests
      BY <2>1 DEF Procs
    <2> QED
      BY <1>15, <2>1, <2>2 DEF TypeOK, PushLatest
  <1>16. ASSUME NEW p \in procs, Exit(p) PROVE TypeOK'
    BY <1>16 DEF TypeOK, Exit, Procs
  <1>17. CASE Boot
    <2>1. PICK q \in [1 .. Cardinality(jobs) -> jobs] : Listing(q) /\ queue' = q
      BY <1>17 DEF Boot
    <2>2. queue' \in Seq(Requests)
      BY <2>1, ListingFacts, JobsFinite
    <2> QED
      BY <1>17, <2>2 DEF TypeOK, Boot, StartThreads
  <1>18. CASE Listen
    BY <1>18 DEF TypeOK, Listen
  <1>19. CASE ServiceStop \/ HostRestart
    <2>1. queue' \in Seq(Requests)
      BY <1>19, EmptySeq DEF ServiceStop, HostRestart, Stop
    <2> QED
      BY <1>19, <2>1 DEF TypeOK, ServiceStop, HostRestart, Stop
  <1>20. ASSUME NEW p \in Repos, DeleteRepo(p) PROVE TypeOK'
    BY <1>20 DEF TypeOK, DeleteRepo
  <1>21. CASE UNCHANGED vars
    BY <1>21 DEF TypeOK, vars
  <1> QED
    BY <1>1, <1>2, <1>3, <1>4, <1>5, <1>6, <1>7, <1>8, <1>9, <1>10, <1>11,
       <1>12, <1>13, <1>14, <1>15, <1>16, <1>17, <1>18, <1>19, <1>20, <1>21
       DEF Next, HandlerStep, WorkerStep, WorkerFault

\* Every variable of the dispatcher keeps its type.
THEOREM TypeCorrect == Spec => []TypeOK
  BY TypeInit, TypeStep, PTL DEF Spec

------------------------------------------------------------------------------
(***************************************************************************)
(* The lock, and which requests are known.                                 *)
(***************************************************************************)

LEMMA IntakeStep == TypeOK /\ Intake /\ Fate /\ [Next]_vars => Intake'
  <1> SUFFICES ASSUME TypeOK, Intake, Fate, [Next]_vars PROVE Intake'
    OBVIOUS
  <1> USE RequestsAssumption DEF Inside, service, world, intake, threads,
          outside, past, fates
  <1>1. ASSUME NEW r \in Requests, Client(r) PROVE Intake'
    <2>1. CASE Connect(r)
      <3>1. handler[r] = "none"
        BY <2>1 DEF Fate, Connect
      <3> QED
        BY <2>1, <3>1 DEF TypeOK, Intake, Connect
    <2>2. CASE ConnectFails(r) \/ ClientTimeout(r)
      BY <2>2 DEF Intake, ConnectFails, ClientTimeout
    <2> QED
      BY <1>1, <2>1, <2>2 DEF Client
  <1>2. ASSUME NEW r \in Requests,
               \/ Validate(r) \/ Acquire(r) \/ RejectFull(r) \/ BeginWrite(r)
               \/ Replace(r) \/ Put(r) \/ Respond(r) \/ WriteFails(r)
        PROVE  Intake'
    <2>1. phase # "down" /\ phase' = phase
      BY <1>2 DEF Intake, Validate, Acquire, RejectFull, Reject, BeginWrite,
                  Replace, Put, Respond, WriteFails
    <2> SUFFICES (\A s \in Requests : handler[s] \in Inside <=> lock = s)'
      BY <2>1 DEF Intake
    <2>2. CASE Validate(r)
      BY <2>2 DEF TypeOK, Intake, Validate
    <2>3. CASE Acquire(r)
      BY <2>3 DEF TypeOK, Intake, Acquire
    <2>4. CASE RejectFull(r) \/ WriteFails(r)
      BY <2>4 DEF TypeOK, Intake, RejectFull, WriteFails, Reject
    <2>5. CASE BeginWrite(r)
      BY <2>5 DEF TypeOK, Intake, BeginWrite
    <2>6. CASE Replace(r)
      BY <2>6 DEF TypeOK, Intake, Replace
    <2>7. CASE Put(r)
      BY <2>7 DEF TypeOK, Intake, Put
    <2>8. CASE Respond(r)
      BY <2>8 DEF TypeOK, Intake, Respond
    <2> QED
      BY <1>2, <2>2, <2>3, <2>4, <2>5, <2>6, <2>7, <2>8
  <1>3. ASSUME NEW w \in Workers, WorkerStep(w) \/ WorkerFault(w)
        PROVE  Intake'
    <2>1. phase # "down"
      BY <1>3 DEF Intake, WorkerStep, WorkerFault, Take, Start, Finish,
                  RepositoryGone, CannotStart, CannotStartNorLog, UnlinkFails,
                  Discard
    <2>2. phase' = phase /\ handler' = handler /\ lock' = lock
      BY <1>3 DEF WorkerStep, WorkerFault, Take, Start, Finish, Discard,
                  RepositoryGone, CannotStart, CannotStartNorLog, UnlinkFails
    <2> QED
      BY <2>1, <2>2 DEF Intake
  <1>4. ASSUME NEW p \in procs, PushLatest(p) \/ Exit(p) PROVE Intake'
    BY <1>4 DEF Intake, PushLatest, Exit
  <1>5. CASE Boot
    BY <1>5 DEF Intake, Boot
  <1>6. CASE Listen
    BY <1>6 DEF Intake, Listen
  <1>7. CASE ServiceStop \/ HostRestart
    BY <1>7 DEF Intake, ServiceStop, HostRestart, Stop
  <1>8. ASSUME NEW p \in Repos, DeleteRepo(p) PROVE Intake'
    BY <1>8 DEF Intake, DeleteRepo
  <1>9. CASE UNCHANGED vars
    BY <1>9 DEF Intake, vars
  <1> QED
    BY <1>1, <1>2, <1>3, <1>4, <1>5, <1>6, <1>7, <1>8, <1>9
       DEF Next, HandlerStep

LEMMA FateStep == TypeOK /\ Intake /\ DispatchedJobHasFile /\ Fate
                    /\ [Next]_vars => Fate'
  <1> SUFFICES ASSUME TypeOK, Intake, DispatchedJobHasFile, Fate, [Next]_vars
               PROVE  Fate'
    OBVIOUS
  <1> USE DEF Fate, Known, Early, QueuedAnswerIsDurable, service, world,
              intake, threads, outside, past, fates, Clients, Handlers
  <1>1. ASSUME NEW r \in Requests, Client(r) PROVE Fate'
    <2>1. CASE Connect(r)
      BY <2>1 DEF TypeOK, Connect
    <2>2. CASE ConnectFails(r)
      BY <2>2 DEF TypeOK, ConnectFails
    <2>3. CASE ClientTimeout(r)
      BY <2>3 DEF TypeOK, ClientTimeout
    <2> QED
      BY <1>1, <2>1, <2>2, <2>3 DEF Client
  <1>2. ASSUME NEW r \in Requests, Validate(r) PROVE Fate'
    BY <1>2 DEF TypeOK, Validate
  <1>3. ASSUME NEW r \in Requests, Acquire(r) PROVE Fate'
    BY <1>3 DEF TypeOK, Acquire
  <1>4. ASSUME NEW r \in Requests, RejectFull(r) \/ WriteFails(r) PROVE Fate'
    BY <1>4 DEF TypeOK, RejectFull, WriteFails, Reject
  <1>5. ASSUME NEW r \in Requests, BeginWrite(r) PROVE Fate'
    BY <1>5 DEF TypeOK, BeginWrite
  <1>6. ASSUME NEW r \in Requests, Replace(r) PROVE Fate'
    BY <1>6 DEF TypeOK, Replace
  <1>7. ASSUME NEW r \in Requests, Put(r) PROVE Fate'
    BY <1>7 DEF TypeOK, Put
  <1>8. ASSUME NEW r \in Requests, Respond(r) PROVE Fate'
    BY <1>8 DEF TypeOK, Respond
  <1>9. ASSUME NEW w \in Workers, WorkerStep(w) \/ WorkerFault(w) PROVE Fate'
    <2>1. /\ Known' = Known
          /\ UNCHANGED <<stamp, client, handler>>
      <3>1. CASE Take(w) \/ Start(w) \/ UnlinkFails(w)
        BY <3>1 DEF Take, Start, UnlinkFails
      <3>2. CASE Finish(w)
        <4>1. held[w] \in jobs
          BY <3>2 DEF Finish, TypeOK, DispatchedJobHasFile
        <4> QED
          BY <3>2, <4>1 DEF Finish
      <3>3. CASE RepositoryGone(w) \/ CannotStart(w) \/ CannotStartNorLog(w)
        <4>1. Discard(w)
          BY <3>3 DEF RepositoryGone, CannotStart, CannotStartNorLog
        <4>2. held[w] \in jobs
          BY <4>1 DEF Discard, TypeOK, DispatchedJobHasFile
        <4> QED
          BY <4>1, <4>2 DEF Discard
      <3> QED
        BY <1>9, <3>1, <3>2, <3>3 DEF WorkerStep, WorkerFault
    <2> QED
      BY <2>1
  <1>10. ASSUME NEW p \in procs, PushLatest(p) \/ Exit(p) PROVE Fate'
    BY <1>10 DEF PushLatest, Exit
  <1>11. CASE Boot
    BY <1>11 DEF Boot
  <1>12. CASE Listen
    BY <1>12 DEF Listen
  <1>13. CASE ServiceStop \/ HostRestart
    BY <1>13 DEF TypeOK, ServiceStop, HostRestart, Stop
  <1>14. ASSUME NEW p \in Repos, DeleteRepo(p) PROVE Fate'
    BY <1>14 DEF DeleteRepo
  <1>15. CASE UNCHANGED vars
    BY <1>15 DEF vars
  <1> QED
    BY <1>1, <1>2, <1>3, <1>4, <1>5, <1>6, <1>7, <1>8, <1>9, <1>10, <1>11,
       <1>12, <1>13, <1>14, <1>15 DEF Next, HandlerStep

------------------------------------------------------------------------------
(***************************************************************************)
(* The limit on job files.                                                 *)
(***************************************************************************)

\* A step that removes files or leaves them alone, and starts no write,
\* keeps the limit.
LEMMA ShrinkKeepsLimit ==
  ASSUME TypeOK, Capacitated, jobs' \subseteq jobs,
         \A r \in Requests : handler'[r] = "writing" => handler[r] = "writing"
  PROVE  Capacitated'
  <1>1. IsFiniteSet(jobs') /\ Cardinality(jobs') <= Cardinality(jobs)
    BY FS_Subset DEF Capacitated
  <1>2. Cardinality(jobs) \in Nat /\ Cardinality(jobs') \in Nat
    BY <1>1, FS_CardinalityType DEF Capacitated
  <1> QED
    BY <1>1, <1>2, CapacityAssumption DEF Capacitated

LEMMA CapacityStep == TypeOK /\ Intake /\ Capacitated /\ [Next]_vars
                        => Capacitated'
  <1> SUFFICES ASSUME TypeOK, Intake, Capacitated, [Next]_vars
               PROVE  Capacitated'
    OBVIOUS
  <1> USE DEF service, world, intake, threads, outside, past, fates
  <1>1. Cardinality(jobs) \in Nat
    BY FS_CardinalityType DEF Capacitated
  <1>2. ASSUME NEW r \in Requests, BeginWrite(r) PROVE Capacitated'
    BY <1>1, <1>2, CapacityAssumption DEF BeginWrite, Capacitated
  <1>3. ASSUME NEW r \in Requests, Replace(r) PROVE Capacitated'
    <2>1. /\ IsFiniteSet(jobs')
          /\ Cardinality(jobs') <= Cardinality(jobs) + 1
          /\ Cardinality(jobs') \in Nat
      <3>1. jobs' = jobs \cup {r} /\ IsFiniteSet(jobs)
        BY <1>3 DEF Replace, Capacitated
      <3>2. /\ IsFiniteSet(jobs \cup {r})
            /\ \/ Cardinality(jobs \cup {r}) = Cardinality(jobs)
               \/ Cardinality(jobs \cup {r}) = Cardinality(jobs) + 1
        BY <3>1, FS_AddElement
      <3> QED
        BY <1>1, <3>1, <3>2
    <2>2. Cardinality(jobs) < Capacity
      BY <1>3 DEF Replace, Capacitated
    <2>3. \A s \in Requests : handler'[s] # "writing"
      BY <1>3 DEF Replace, Intake, Inside, TypeOK
    <2> QED
      BY <1>1, <2>1, <2>2, <2>3, CapacityAssumption DEF Capacitated
  <1>4. ASSUME NEW r \in Requests,
               \/ Client(r) \/ Validate(r) \/ Acquire(r) \/ RejectFull(r)
               \/ Put(r) \/ Respond(r) \/ WriteFails(r)
        PROVE  Capacitated'
    <2>1. jobs' = jobs
      BY <1>4 DEF Client, Connect, ConnectFails, ClientTimeout, Validate,
                  Acquire, RejectFull, Put, Respond, WriteFails, Reject
    <2>2. \A s \in Requests :
            handler'[s] = "writing" => handler[s] = "writing"
      BY <1>4 DEF TypeOK, Client, Connect, ConnectFails, ClientTimeout,
                  Validate, Acquire, RejectFull, Put, Respond, WriteFails,
                  Reject
    <2> QED
      BY <2>1, <2>2, ShrinkKeepsLimit
  <1>5. ASSUME NEW w \in Workers, WorkerStep(w) \/ WorkerFault(w)
        PROVE  Capacitated'
    <2>1. jobs' \subseteq jobs /\ handler' = handler
      BY <1>5 DEF WorkerStep, WorkerFault, Take, Start, Finish, Discard,
                  RepositoryGone, CannotStart, CannotStartNorLog, UnlinkFails
    <2> QED
      BY <2>1, ShrinkKeepsLimit
  <1>6. ASSUME NEW p \in procs, PushLatest(p) \/ Exit(p) PROVE Capacitated'
    BY <1>6 DEF PushLatest, Exit, Capacitated
  <1>7. CASE Boot \/ Listen \/ \E p \in Repos : DeleteRepo(p)
    BY <1>7 DEF Boot, Listen, DeleteRepo, Capacitated
  <1>8. CASE ServiceStop \/ HostRestart
    BY <1>8, ShrinkKeepsLimit DEF ServiceStop, HostRestart, Stop
  <1>9. CASE UNCHANGED vars
    BY <1>9 DEF vars, Capacitated
  <1> QED
    BY <1>2, <1>3, <1>4, <1>5, <1>6, <1>7, <1>8, <1>9 DEF Next, HandlerStep

------------------------------------------------------------------------------
(***************************************************************************)
(* Where the jobs are.                                                     *)
(***************************************************************************)

\* Steps that leave the queue, the workers' jobs and the files alone, and
\* whose handlers do not enter or leave the gap between os.replace and put.
LEMMA DispatchFrame ==
  ASSUME TypeOK, Dispatch, UNCHANGED <<queue, held, jobs>>,
         phase = "down" => phase' = "down",
         \A r \in Requests : handler'[r] = "replaced" <=> handler[r] = "replaced"
  PROVE  Dispatch'
  <1>1. NoDoubleDispatch'
    BY DEF Dispatch, NoDoubleDispatch
  <1>2. NoStrandedJob'
    <2>1. Up' => Up
      BY DEF Up
    <2>2. \A r \in jobs : r \in Requests
      BY DEF TypeOK
    <2> QED
      BY <2>1, <2>2 DEF Dispatch, NoStrandedJob
  <1>3. DispatchedJobHasFile' /\ Unqueued'
    BY DEF Dispatch, DispatchedJobHasFile, Unqueued
  <1> QED
    BY <1>1, <1>2, <1>3 DEF Dispatch

LEMMA DispatchStep == TypeOK /\ Intake /\ Fate /\ Dispatch /\ [Next]_vars
                        => Dispatch'
  <1> SUFFICES ASSUME TypeOK, Intake, Fate, Dispatch, [Next]_vars
               PROVE  Dispatch'
    OBVIOUS
  <1> USE DEF service, world, intake, threads, outside, past, fates
  <1>1. ASSUME NEW r \in Requests,
               \/ Client(r) \/ Validate(r) \/ Acquire(r) \/ RejectFull(r)
               \/ BeginWrite(r) \/ Respond(r) \/ WriteFails(r)
        PROVE  Dispatch'
    <2>1. UNCHANGED <<queue, held, jobs, phase>>
      BY <1>1 DEF Client, Connect, ConnectFails, ClientTimeout, Validate,
                  Acquire, RejectFull, BeginWrite, Respond, WriteFails, Reject
    <2>2. \A s \in Requests :
            handler'[s] = "replaced" <=> handler[s] = "replaced"
      <3>1. CASE Client(r)
        BY <3>1 DEF TypeOK, Fate, Client, Connect, ConnectFails, ClientTimeout
      <3>2. CASE Validate(r) \/ Acquire(r) \/ BeginWrite(r)
        BY <3>2 DEF TypeOK, Validate, Acquire, BeginWrite
      <3>3. CASE RejectFull(r) \/ WriteFails(r)
        BY <3>3 DEF TypeOK, RejectFull, WriteFails, Reject
      <3>4. CASE Respond(r)
        BY <3>4 DEF TypeOK, Respond
      <3> QED
        BY <1>1, <3>1, <3>2, <3>3, <3>4
    <2> QED
      BY <2>1, <2>2, DispatchFrame
  <1>2. ASSUME NEW r \in Requests, Replace(r) PROVE Dispatch'
    <2>1. stamp[r] = 0 /\ r \notin jobs
      BY <1>2 DEF Replace, Fate, Early, Known
    <2>2. r \notin Range(queue) /\ \A w \in Workers : held[w] # r
      BY <2>1, RequestsAssumption DEF Dispatch, DispatchedJobHasFile
    <2>3. \A s \in Requests :
            handler'[s] = "replaced" <=> handler[s] = "replaced" \/ s = r
      BY <1>2 DEF Replace, TypeOK
    <2> QED
      BY <1>2, <2>2, <2>3 DEF Replace, Dispatch, NoDoubleDispatch,
         NoStrandedJob, DispatchedJobHasFile, Unqueued, Up
  <1>3. ASSUME NEW r \in Requests, Put(r) PROVE Dispatch'
    <2>1. r \in jobs /\ r \notin Range(queue) /\ \A w \in Workers : held[w] # r
      BY <1>3 DEF Put, Dispatch, Unqueued
    <2>2. /\ DOMAIN queue' = 1 .. Len(queue) + 1
          /\ \A i \in 1 .. Len(queue) : queue'[i] = queue[i]
          /\ queue'[Len(queue) + 1] = r
          /\ DOMAIN queue = 1 .. Len(queue)
          /\ Len(queue) \in Nat
          /\ Range(queue') = Range(queue) \cup {r}
      BY <1>3, PutFacts DEF Put, TypeOK
    <2>3. \A i \in 1 .. Len(queue) : queue[i] # r
      BY <2>1, <2>2 DEF Range
    <2>4. UNCHANGED <<jobs, held, phase>>
      BY <1>3 DEF Put
    <2>5. \A s \in Requests :
            handler'[s] = "replaced" <=> handler[s] = "replaced" /\ s # r
      BY <1>3 DEF Put, TypeOK
    <2>6. NoDoubleDispatch'
      <3>1. \A i, j \in DOMAIN queue' : queue'[i] = queue'[j] => i = j
        BY <2>2, <2>3 DEF Dispatch, NoDoubleDispatch
      <3>2. \A w \in Workers, i \in DOMAIN queue' : held'[w] # queue'[i]
        BY <2>1, <2>2, <2>4 DEF Dispatch, NoDoubleDispatch
      <3> QED
        BY <3>1, <3>2, <2>4 DEF Dispatch, NoDoubleDispatch
    <2>7. NoStrandedJob'
      <3>1. jobs' = jobs /\ (Up' <=> Up) /\ jobs \subseteq Requests
        BY <2>4 DEF TypeOK, Up
      <3> QED
        BY <2>2, <2>4, <2>5, <3>1 DEF Dispatch, NoStrandedJob
    <2>8. DispatchedJobHasFile'
      BY <2>1, <2>2, <2>4 DEF Dispatch, DispatchedJobHasFile
    <2>9. Unqueued'
      BY <2>2, <2>4, <2>5 DEF Dispatch, Unqueued
    <2> QED
      BY <2>6, <2>7, <2>8, <2>9 DEF Dispatch
  <1>4. ASSUME NEW w \in Workers, Take(w) PROVE Dispatch'
    <2> DEFINE r == Head(queue)
    <2>1. /\ r \in Requests
          /\ r = queue[1]
          /\ 1 \in DOMAIN queue
          /\ \A i \in DOMAIN queue' :
               i + 1 \in DOMAIN queue /\ queue'[i] = queue[i + 1]
          /\ DOMAIN queue' \subseteq Nat
          /\ Range(queue) = Range(queue') \cup {r}
      BY <1>4, GetFacts DEF Take, TypeOK
    <2>2. /\ held[w] = None
          /\ \A v \in Workers : held'[v] = IF v = w THEN r ELSE held[v]
      BY <1>4 DEF Take, TypeOK
    <2>3. UNCHANGED <<jobs, handler, phase>>
      BY <1>4 DEF Take
    <2>4. \A i \in DOMAIN queue' : queue'[i] # r
      <3> SUFFICES ASSUME NEW i \in DOMAIN queue', queue'[i] = r PROVE FALSE
        OBVIOUS
      <3>1. i + 1 \in DOMAIN queue /\ queue[i + 1] = queue[1] /\ i \in Nat
        BY <2>1
      <3>2. i + 1 = 1
        BY <2>1, <3>1 DEF Dispatch, NoDoubleDispatch
      <3>3. i \in DOMAIN queue' => i # 0
        BY <1>4, GetFacts, LenProperties DEF Take, TypeOK
      <3> QED
        BY <3>1, <3>2, <3>3
    <2> HIDE DEF r
    <2>5. NoDoubleDispatch'
      <3>1. \A i, j \in DOMAIN queue' : queue'[i] = queue'[j] => i = j
        <4> SUFFICES ASSUME NEW i \in DOMAIN queue', NEW j \in DOMAIN queue',
                            queue'[i] = queue'[j]
                     PROVE  i = j
          OBVIOUS
        <4>1. /\ i + 1 \in DOMAIN queue
              /\ j + 1 \in DOMAIN queue
              /\ queue[i + 1] = queue[j + 1]
              /\ i \in Nat
              /\ j \in Nat
          BY <2>1
        <4>2. i + 1 = j + 1
          BY <4>1 DEF Dispatch, NoDoubleDispatch
        <4> QED
          BY <4>1, <4>2
      <3>2. \A v \in Workers, i \in DOMAIN queue' : held'[v] # queue'[i]
        BY <2>1, <2>2, <2>4 DEF Dispatch, NoDoubleDispatch
      <3>3. \A v \in Workers : held[v] # r
        BY <2>1 DEF Dispatch, NoDoubleDispatch
      <3> QED
        BY <2>2, <3>1, <3>2, <3>3 DEF Dispatch, NoDoubleDispatch
    <2>6. NoStrandedJob'
      <3> SUFFICES ASSUME NEW s \in jobs, Up
                   PROVE  \/ s \in Range(queue')
                          \/ \E v \in Workers : held'[v] = s
                          \/ handler[s] = "replaced"
        BY <2>3 DEF NoStrandedJob, Up
      <3>1. CASE s \in Range(queue)
        BY <2>1, <2>2, <3>1
      <3>2. CASE \E v \in Workers : held[v] = s
        BY <2>2, <3>2, RequestsAssumption DEF TypeOK
      <3> QED
        BY <3>1, <3>2 DEF Dispatch, NoStrandedJob
    <2>7. DispatchedJobHasFile'
      BY <2>1, <2>2, <2>3 DEF Dispatch, DispatchedJobHasFile
    <2>8. Unqueued'
      BY <2>1, <2>2, <2>3 DEF Dispatch, Unqueued
    <2> QED
      BY <2>5, <2>6, <2>7, <2>8 DEF Dispatch

  <1>5. ASSUME NEW w \in Workers, Start(w) \/ UnlinkFails(w) PROVE Dispatch'
    BY <1>5, DispatchFrame DEF Start, UnlinkFails
  <1>6. ASSUME NEW w \in Workers,
               Finish(w) \/ RepositoryGone(w) \/ CannotStart(w)
                 \/ CannotStartNorLog(w)
        PROVE  Dispatch'
    <2> DEFINE r == held[w]
    <2>1. /\ jobs' = jobs \ {r}
          /\ held' = [held EXCEPT ![w] = None]
          /\ UNCHANGED <<queue, handler, phase>>
          /\ wpc[w] \in {"taken", "running"}
      BY <1>6 DEF Finish, RepositoryGone, CannotStart, CannotStartNorLog,
                  Discard
    <2>2. r # None /\ r \in Requests
      BY <2>1 DEF TypeOK
    <2>3. \A v \in Workers : held'[v] = IF v = w THEN None ELSE held[v]
      BY <2>1 DEF TypeOK
    <2>4. \A v \in Workers : held'[v] # r
      BY <2>2, <2>3 DEF Dispatch, NoDoubleDispatch
    <2>5. r \notin Range(queue)
      BY DEF Range, Dispatch, NoDoubleDispatch
    <2>6. r \in jobs
      BY <2>2 DEF Dispatch, DispatchedJobHasFile
    <2>7. \A i \in DOMAIN queue : queue[i] \in Requests
      BY DEF TypeOK
    <2> HIDE DEF r
    <2>8. NoDoubleDispatch'
      BY <2>1, <2>3, <2>7, RequestsAssumption DEF Dispatch, NoDoubleDispatch
    <2>9. NoStrandedJob'
      <3> SUFFICES ASSUME NEW s \in jobs, s # r, Up
                   PROVE  \/ s \in Range(queue)
                          \/ \E v \in Workers : held'[v] = s
                          \/ handler[s] = "replaced"
        BY <2>1 DEF NoStrandedJob, Up
      <3>1. CASE \E v \in Workers : held[v] = s
        BY <2>3, <3>1 DEF r
      <3> QED
        BY <3>1 DEF Dispatch, NoStrandedJob
    <2>10. DispatchedJobHasFile'
      BY <2>1, <2>3, <2>4, <2>5 DEF Dispatch, DispatchedJobHasFile
    <2>11. Unqueued'
      <3> SUFFICES ASSUME NEW s \in Requests, handler[s] = "replaced"
                   PROVE  /\ s \in jobs'
                          /\ s \notin Range(queue)
                          /\ \A v \in Workers : held'[v] # s
        BY <2>1 DEF Unqueued
      <3>1. s # r
        BY DEF r, Dispatch, Unqueued
      <3> QED
        BY <2>1, <2>3, <3>1, RequestsAssumption DEF Dispatch, Unqueued
    <2> QED
      BY <2>8, <2>9, <2>10, <2>11 DEF Dispatch
  <1>7. ASSUME NEW p \in procs, PushLatest(p) \/ Exit(p) PROVE Dispatch'
    BY <1>7, DispatchFrame DEF PushLatest, Exit
  <1>8. CASE Boot
    <2>1. PICK q \in [1 .. Cardinality(jobs) -> jobs] : Listing(q) /\ queue' = q
      BY <1>8 DEF Boot
    <2>2. /\ queue' \in Seq(Requests)
          /\ Range(queue') = jobs
          /\ \A i, j \in DOMAIN queue' : queue'[i] = queue'[j] => i = j
      BY <2>1, ListingFacts, JobsFinite
    <2>3. /\ \A w \in Workers : held'[w] = None
          /\ UNCHANGED <<jobs, handler>>
          /\ \A r \in Requests : handler[r] = "none"
      BY <1>8 DEF Boot, Intake
    <2>4. \A i \in DOMAIN queue' : queue'[i] # None
      BY <2>2, RequestsAssumption
    <2>5. NoDoubleDispatch'
      BY <2>2, <2>3, <2>4 DEF NoDoubleDispatch
    <2>6. NoStrandedJob' /\ DispatchedJobHasFile' /\ Unqueued'
      BY <2>2, <2>3 DEF NoStrandedJob, DispatchedJobHasFile, Unqueued
    <2> QED
      BY <2>5, <2>6 DEF Dispatch
  <1>9. CASE Listen \/ \E p \in Repos : DeleteRepo(p)
    BY <1>9, DispatchFrame DEF Listen, DeleteRepo
  <1>10. CASE ServiceStop \/ HostRestart
    <2>1. Stop
      BY <1>10 DEF ServiceStop, HostRestart
    <2>2. /\ queue' = <<>>
          /\ \A w \in Workers : held'[w] = None
          /\ \A r \in Requests : handler'[r] = "none"
          /\ phase' = "down"
      BY <2>1 DEF Stop
    <2>3. DOMAIN queue' = {} /\ Range(queue') = {}
      BY <2>2 DEF Range
    <2> QED
      BY <2>2, <2>3 DEF Dispatch, NoDoubleDispatch, NoStrandedJob, Up,
                        DispatchedJobHasFile, Unqueued
  <1>11. CASE UNCHANGED vars
    BY <1>11, DispatchFrame DEF vars
  <1> QED
    BY <1>1, <1>2, <1>3, <1>4, <1>5, <1>6, <1>7, <1>8, <1>9, <1>10, <1>11
       DEF Next, HandlerStep, WorkerStep, WorkerFault

------------------------------------------------------------------------------
(***************************************************************************)
(* The order of acceptance.                                                *)
(***************************************************************************)

\* Steps that accept nothing and leave the queue alone.
LEMMA OrderFrame ==
  ASSUME Order, UNCHANGED <<stamp, accepts, base, queue>>,
         \A r \in Requests : handler'[r] = "replaced" => handler[r] = "replaced"
  PROVE  Order'
  BY DEF Order, DispatchInAcceptOrder

LEMMA OrderStep == TypeOK /\ Intake /\ Fate /\ Dispatch /\ Order /\ [Next]_vars
                     => Order'
  <1> SUFFICES ASSUME TypeOK, Intake, Fate, Dispatch, Order, [Next]_vars
               PROVE  Order'
    OBVIOUS
  <1> USE DEF service, world, intake, threads, outside, past, fates
  <1>0. \A i \in DOMAIN queue : queue[i] \in Requests
    BY DEF TypeOK
  <1>1. ASSUME NEW r \in Requests,
               \/ Client(r) \/ Validate(r) \/ Acquire(r) \/ RejectFull(r)
               \/ BeginWrite(r) \/ Respond(r) \/ WriteFails(r)
        PROVE  Order'
    <2>1. UNCHANGED <<stamp, accepts, base, queue>>
      BY <1>1 DEF Client, Connect, ConnectFails, ClientTimeout, Validate,
                  Acquire, RejectFull, BeginWrite, Respond, WriteFails, Reject
    <2>2. \A s \in Requests :
            handler'[s] = "replaced" => handler[s] = "replaced"
      BY <1>1 DEF TypeOK, Client, Connect, ConnectFails, ClientTimeout,
                  Validate, Acquire, RejectFull, BeginWrite, Respond,
                  WriteFails, Reject
    <2> QED
      BY <2>1, <2>2, OrderFrame
  <1>2. ASSUME NEW r \in Requests, Replace(r) PROVE Order'
    <2>1. /\ stamp[r] = 0 /\ r \notin jobs
          /\ accepts' = accepts + 1
          /\ \A s \in Requests :
               stamp'[s] = IF s = r THEN accepts + 1 ELSE stamp[s]
          /\ UNCHANGED <<queue, base>>
      BY <1>2 DEF Replace, Fate, Early, Known, TypeOK
    <2>2. \A s \in Requests : handler'[s] = "replaced" => s = r
      BY <1>2 DEF Replace, Intake, Inside, TypeOK
    <2>3. \A i \in DOMAIN queue : queue[i] # r
      BY <2>1 DEF Dispatch, DispatchedJobHasFile, Range
    <2>4. accepts \in Nat /\ base \in Nat /\ \A s \in Requests : stamp[s] \in Nat
      BY DEF TypeOK
    <2>5. DispatchInAcceptOrder'
      BY <1>0, <2>1, <2>3 DEF Order, DispatchInAcceptOrder
    <2> QED
      BY <2>1, <2>2, <2>4, <2>5 DEF Order
  <1>3. ASSUME NEW r \in Requests, Put(r) PROVE Order'
    <2>1. /\ DOMAIN queue' = 1 .. Len(queue) + 1
          /\ \A i \in 1 .. Len(queue) : queue'[i] = queue[i]
          /\ queue'[Len(queue) + 1] = r
          /\ DOMAIN queue = 1 .. Len(queue)
          /\ Len(queue) \in Nat
      BY <1>3, PutFacts DEF Put, TypeOK
    <2>2. /\ stamp[r] = accepts
          /\ stamp[r] > 0
          /\ \A i \in DOMAIN queue : queue[i] # r
      BY <1>3 DEF Put, Order, Fate, Dispatch, Unqueued, Range
    <2>3. \A i \in DOMAIN queue : stamp[queue[i]] < stamp[r]
      <3> SUFFICES ASSUME NEW i \in DOMAIN queue PROVE stamp[queue[i]] < stamp[r]
        OBVIOUS
      <3>1. stamp[queue[i]] <= accepts /\ stamp[queue[i]] # accepts
        BY <1>0, <2>2 DEF Order
      <3>2. stamp[queue[i]] \in Nat /\ accepts \in Nat
        BY <1>0 DEF TypeOK
      <3> QED
        BY <2>2, <3>1, <3>2
    <2>4. UNCHANGED <<stamp, accepts, base>>
      BY <1>3 DEF Put
    <2>5. DispatchInAcceptOrder'
      BY <2>1, <2>3, <2>4 DEF Order, DispatchInAcceptOrder
    <2>6. \A s \in Requests :
            handler'[s] = "replaced" => handler[s] = "replaced"
      BY <1>3 DEF Put, TypeOK
    <2> QED
      BY <2>4, <2>5, <2>6 DEF Order
  <1>4. ASSUME NEW w \in Workers, Take(w) PROVE Order'
    <2>1. /\ \A i \in DOMAIN queue' :
               i + 1 \in DOMAIN queue /\ queue'[i] = queue[i + 1]
          /\ DOMAIN queue' \subseteq Nat
      BY <1>4, GetFacts DEF Take, TypeOK
    <2>2. UNCHANGED <<stamp, accepts, base, handler>>
      BY <1>4 DEF Take
    <2>3. DispatchInAcceptOrder'
      <3> SUFFICES ASSUME NEW i \in DOMAIN queue', NEW j \in DOMAIN queue',
                          i < j, stamp[queue'[j]] > base
                   PROVE  stamp[queue'[i]] < stamp[queue'[j]]
        BY <2>2 DEF DispatchInAcceptOrder
      <3>1. i + 1 < j + 1
        BY <2>1
      <3> QED
        BY <2>1, <3>1 DEF Order, DispatchInAcceptOrder
    <2> QED
      BY <2>2, <2>3 DEF Order
  <1>5. ASSUME NEW w \in Workers,
               \/ Start(w) \/ UnlinkFails(w) \/ Finish(w) \/ RepositoryGone(w)
               \/ CannotStart(w) \/ CannotStartNorLog(w)
        PROVE  Order'
    BY <1>5, OrderFrame DEF Start, UnlinkFails, Finish, RepositoryGone,
                            CannotStart, CannotStartNorLog, Discard
  <1>6. ASSUME NEW p \in procs, PushLatest(p) \/ Exit(p) PROVE Order'
    BY <1>6, OrderFrame DEF PushLatest, Exit
  <1>7. CASE Boot
    <2>1. PICK q \in [1 .. Cardinality(jobs) -> jobs] : Listing(q) /\ queue' = q
      BY <1>7 DEF Boot
    <2>2. queue' \in Seq(Requests)
      BY <2>1, ListingFacts, JobsFinite
    <2>3. \A i \in DOMAIN queue' : queue'[i] \in Requests
      BY <2>2
    <2>4. base' = accepts /\ UNCHANGED <<stamp, accepts, handler>>
      BY <1>7 DEF Boot
    <2>5. accepts \in Nat /\ \A r \in Requests : stamp[r] \in Nat
      BY DEF TypeOK
    <2>6. \A r \in Requests : ~(stamp[r] > base')
      BY <2>4, <2>5 DEF Order
    <2>7. DispatchInAcceptOrder'
      BY <2>3, <2>4, <2>6 DEF DispatchInAcceptOrder
    <2> QED
      BY <2>4, <2>5, <2>7 DEF Order
  <1>8. CASE Listen \/ \E p \in Repos : DeleteRepo(p)
    BY <1>8, OrderFrame DEF Listen, DeleteRepo
  <1>9. CASE ServiceStop \/ HostRestart
    <2>1. /\ DOMAIN queue' = {}
          /\ \A r \in Requests : handler'[r] = "none"
          /\ UNCHANGED <<stamp, accepts, base>>
      BY <1>9 DEF ServiceStop, HostRestart, Stop
    <2> QED
      BY <2>1 DEF Order, DispatchInAcceptOrder
  <1>10. CASE UNCHANGED vars
    BY <1>10, OrderFrame DEF vars
  <1> QED
    BY <1>1, <1>2, <1>3, <1>4, <1>5, <1>6, <1>7, <1>8, <1>9, <1>10
       DEF Next, HandlerStep, WorkerStep, WorkerFault

------------------------------------------------------------------------------
(***************************************************************************)
(* The build processes.                                                    *)
(***************************************************************************)

\* Steps that leave the processes and the waiting workers alone.
LEMMA BuildsFrame ==
  ASSUME TypeOK, Builds, UNCHANGED <<procs, ended, boot, wpc, held>>,
         phase = "down" => phase' = "down",
         \A r \in Requests : stamp[r] > 0 => stamp'[r] > 0
  PROVE  Builds'
  <1>1. \A p \in procs : p.job \in Requests
    BY DEF TypeOK, Procs
  <1>2. Up' => Up
    BY DEF Up
  <1> QED
    BY <1>1, <1>2 DEF TypeOK, Builds, EveryBuildIsAwaited

LEMMA BuildsStep == TypeOK /\ Intake /\ Fate /\ Dispatch /\ Builds /\ [Next]_vars
                      => Builds'
  <1> SUFFICES ASSUME TypeOK, Intake, Fate, Dispatch, Builds, [Next]_vars
               PROVE  Builds'
    OBVIOUS
  <1> USE DEF service, world, intake, threads, outside, past, fates
  <1>1. ASSUME NEW r \in Requests,
               Client(r) \/ HandlerStep(r) \/ WriteFails(r)
        PROVE  Builds'
    <2>1. UNCHANGED <<procs, ended, boot, wpc, held, phase>>
      BY <1>1 DEF Client, Connect, ConnectFails, ClientTimeout, HandlerStep,
                  Validate, Acquire, RejectFull, BeginWrite, Replace, Put,
                  Respond, WriteFails, Reject
    <2>2. \A s \in Requests : stamp[s] > 0 => stamp'[s] > 0
      <3>1. CASE Replace(r)
        BY <3>1 DEF Replace, TypeOK
      <3>2. CASE ~Replace(r)
        BY <1>1, <3>2 DEF Client, Connect, ConnectFails, ClientTimeout,
           HandlerStep, Validate, Acquire, RejectFull, BeginWrite, Put,
           Respond, WriteFails, Reject
      <3> QED
        BY <3>1, <3>2
    <2> QED
      BY <2>1, <2>2, BuildsFrame
  <1>2. ASSUME NEW w \in Workers, Take(w) PROVE Builds'
    <2>1. /\ wpc[w] = "idle"
          /\ wpc' = [wpc EXCEPT ![w] = "taken"]
          /\ held' = [held EXCEPT ![w] = Head(queue)]
          /\ UNCHANGED <<procs, ended, boot, phase, stamp>>
      BY <1>2 DEF Take
    <2> QED
      BY <2>1 DEF TypeOK, Builds, EveryBuildIsAwaited, Up
  <1>3. ASSUME NEW w \in Workers, Start(w) PROVE Builds'
    <2> DEFINE new == [job |-> held[w], boot |-> boot, stage |-> "building"]
    <2>1. /\ wpc[w] = "taken"
          /\ wpc' = [wpc EXCEPT ![w] = "running"]
          /\ procs' = procs \cup {new}
          /\ UNCHANGED <<held, ended, boot, phase, stamp>>
      BY <1>3 DEF Start
    <2>2. held[w] \in Requests /\ stamp[held[w]] > 0
      BY <2>1 DEF TypeOK, Fate, Known, Dispatch, DispatchedJobHasFile
    <2>3. new.job = held[w] /\ new.boot = boot /\ boot <= boot
      BY DEF TypeOK
    <2> HIDE DEF new
    <2> QED
      BY <2>1, <2>2, <2>3 DEF TypeOK, Builds, EveryBuildIsAwaited, Up
  <1>4. ASSUME NEW w \in Workers,
               Finish(w) \/ RepositoryGone(w) \/ CannotStart(w)
                 \/ CannotStartNorLog(w) \/ UnlinkFails(w)
        PROVE  Builds'
    <2>1. wpc[w] = "taken" \/ (wpc[w] = "running" /\ ChildGone(w))
      BY <1>4 DEF Finish, RepositoryGone, CannotStart, CannotStartNorLog,
                  UnlinkFails, Discard
    <2>2. /\ \A v \in Workers \ {w} : wpc'[v] = wpc[v] /\ held'[v] = held[v]
          /\ wpc'[w] \in {"idle", "dead"}
          /\ UNCHANGED <<procs, ended, boot, phase, stamp>>
      BY <1>4 DEF TypeOK, Finish, RepositoryGone, CannotStart,
                  CannotStartNorLog, UnlinkFails, Discard
    <2>3. EveryBuildIsAwaited'
      <3> SUFFICES ASSUME NEW p \in procs, Up, p.boot = boot
                   PROVE  \E v \in Workers : wpc'[v] = "running"
                                               /\ held'[v] = p.job
        BY <2>2 DEF EveryBuildIsAwaited, Up
      <3>1. PICK v \in Workers : wpc[v] = "running" /\ held[v] = p.job
        BY DEF Builds, EveryBuildIsAwaited
      <3>2. v # w
        BY <2>1, <3>1 DEF ChildGone
      <3> QED
        BY <2>2, <3>1, <3>2
    <2> QED
      BY <2>2, <2>3 DEF Builds
  <1>5. ASSUME NEW p \in procs, PushLatest(p) PROVE Builds'
    <2> DEFINE new == [p EXCEPT !.stage = "pushed"]
    <2>1. /\ procs' = (procs \ {p}) \cup {new}
          /\ UNCHANGED <<wpc, held, ended, boot, phase, stamp>>
      BY <1>5 DEF PushLatest
    <2>2. new.job = p.job /\ new.boot = p.boot
      BY DEF TypeOK, Procs
    <2> HIDE DEF new
    <2> QED
      BY <2>1, <2>2 DEF Builds, EveryBuildIsAwaited, Up
  <1>6. ASSUME NEW p \in procs, Exit(p) PROVE Builds'
    BY <1>6 DEF Exit, Builds, EveryBuildIsAwaited, Up
  <1>7. CASE Boot
    <2>1. /\ boot' = boot + 1
          /\ \A w \in Workers : wpc'[w] # "running"
          /\ UNCHANGED <<procs, ended, stamp>>
      BY <1>7 DEF Boot, StartThreads
    <2>2. \A p \in procs : p.boot \in Nat /\ boot \in Nat
      BY DEF TypeOK, Procs
    <2>3. \A p \in procs : p.boot <= boot' /\ p.boot # boot'
      BY <2>1, <2>2 DEF Builds
    <2> QED
      BY <2>1, <2>3 DEF Builds, EveryBuildIsAwaited
  <1>8. CASE Listen \/ \E p \in Repos : DeleteRepo(p)
    BY <1>8, BuildsFrame DEF Listen, DeleteRepo
  <1>9. CASE ServiceStop \/ HostRestart
    <2>1. /\ phase' = "down"
          /\ procs' \subseteq procs
          /\ \A w \in Workers : wpc'[w] # "running"
          /\ UNCHANGED <<ended, boot, stamp>>
      BY <1>9 DEF ServiceStop, HostRestart, Stop
    <2> QED
      BY <2>1 DEF Builds, EveryBuildIsAwaited, Up
  <1>10. CASE UNCHANGED vars
    BY <1>10, BuildsFrame DEF vars
  <1> QED
    BY <1>1, <1>2, <1>3, <1>4, <1>5, <1>6, <1>7, <1>8, <1>9, <1>10
       DEF Next, WorkerStep, WorkerFault

------------------------------------------------------------------------------
(***************************************************************************)
(* The inductive invariant, and what follows from it.                      *)
(***************************************************************************)

LEMMA IInvInit == Init => IInv
  <1> SUFFICES ASSUME Init PROVE IInv
    OBVIOUS
  <1> USE DEF Init
  <1>1. TypeOK
    BY TypeInit
  <1>2. Intake
    BY RequestsAssumption DEF Intake, Inside
  <1>3. Fate
    BY DEF Fate, Known, Early, QueuedAnswerIsDurable
  <1>4. Capacitated
    BY FS_EmptySet, CapacityAssumption DEF Capacitated
  <1>5. DOMAIN queue = {} /\ Range(queue) = {}
    BY DEF Range
  <1>6. Dispatch
    BY <1>5 DEF Dispatch, NoDoubleDispatch, NoStrandedJob, Up,
                DispatchedJobHasFile, Unqueued
  <1>7. Order
    BY <1>5 DEF Order, DispatchInAcceptOrder
  <1>8. Builds
    BY DEF Builds, EveryBuildIsAwaited
  <1> QED
    BY <1>1, <1>2, <1>3, <1>4, <1>6, <1>7, <1>8 DEF IInv

LEMMA IInvStep == IInv /\ [Next]_vars => IInv'
  <1> SUFFICES ASSUME IInv, [Next]_vars PROVE IInv'
    OBVIOUS
  <1>1. TypeOK /\ Intake /\ Fate /\ Capacitated /\ Dispatch /\ Order /\ Builds
    BY DEF IInv
  <1>2. DispatchedJobHasFile
    BY <1>1 DEF Dispatch
  <1> QED
    BY <1>1, <1>2, TypeStep, IntakeStep, FateStep, CapacityStep, DispatchStep,
       OrderStep, BuildsStep DEF IInv

THEOREM Inductive == Spec => []IInv
  BY IInvInit, IInvStep, PTL DEF Spec

\* However many connections race, the job files never exceed the limit.
THEOREM CapacityHolds == Spec => []CapacityBound
  <1>1. IInv => CapacityBound
    BY DEF IInv, Capacitated, CapacityBound
  <1> QED
    BY <1>1, Inductive, PTL

\* No job is in two places of the dispatcher at once.
THEOREM DispatchedOnce == Spec => []NoDoubleDispatch
  <1>1. IInv => NoDoubleDispatch
    BY DEF IInv, Dispatch
  <1> QED
    BY <1>1, Inductive, PTL

\* No job file is forgotten while the service runs.
THEOREM NothingStranded == Spec => []NoStrandedJob
  <1>1. IInv => NoStrandedJob
    BY DEF IInv, Dispatch
  <1> QED
    BY <1>1, Inductive, PTL

\* A worker never finds its job file removed by somebody else.
THEOREM FilesOutliveDispatch == Spec => []DispatchedJobHasFile
  <1>1. IInv => DispatchedJobHasFile
    BY DEF IInv, Dispatch
  <1> QED
    BY <1>1, Inductive, PTL

\* A positive answer is given only about a job that was written to disk.
THEOREM AnswersAreDurable == Spec => []QueuedAnswerIsDurable
  <1>1. IInv => QueuedAnswerIsDurable
    BY DEF IInv, Fate
  <1> QED
    BY <1>1, Inductive, PTL

\* Jobs leave the queue in the order in which they were accepted.
THEOREM FirstInFirstOut == Spec => []DispatchInAcceptOrder
  <1>1. IInv => DispatchInAcceptOrder
    BY DEF IInv, Order
  <1> QED
    BY <1>1, Inductive, PTL

\* Every build process of this boot has a worker thread that waits for it.
THEOREM BuildsAwaited == Spec => []EveryBuildIsAwaited
  <1>1. IInv => EveryBuildIsAwaited
    BY DEF IInv, Builds
  <1> QED
    BY <1>1, Inductive, PTL

------------------------------------------------------------------------------
(***************************************************************************)
(* Which job has :latest while there is one worker thread, the default of  *)
(* GIT_BUILD_WORKERS.                                                      *)
(***************************************************************************)
\* Accepted in this boot.
Recent(r) == stamp[r] > base

\* Whatever :latest points to was accepted before r, or is r itself.
LatestBefore(r) ==
  \A x \in Repos : latest[x] # None => stamp[latest[x]] <= stamp[r]

Published == \A x \in Repos : latest[x] # None => stamp[latest[x]] > 0

\* Jobs accepted in this boot run one after the other: at most one process of
\* this boot is alive, and what is still to run was accepted after it and after
\* everything that :latest points to.
Sequenced ==
  /\ Published
  /\ \A p \in procs : Recent(p.job) => p.boot = boot /\ LatestBefore(p.job)
  /\ \A p, q \in procs : p.boot = boot /\ q.boot = boot => p.job = q.job
  /\ \A w \in Workers :
       held[w] # None /\ Recent(held[w]) => LatestBefore(held[w])
  /\ \A r \in Range(queue) : Recent(r) =>
       /\ LatestBefore(r)
       /\ \A w \in Workers : held[w] # None => stamp[held[w]] <= stamp[r]
       /\ \A p \in procs : stamp[p.job] <= stamp[r]

\* The numbers and jobs that Sequenced is about.
LEMMA SequencedTypes ==
  ASSUME TypeOK
  PROVE  /\ base \in Nat /\ accepts \in Nat /\ boot \in Nat
         /\ \A r \in Requests : stamp[r] \in Nat
         /\ \A x \in Repos : latest[x] # None => latest[x] \in Requests
         /\ \A w \in Workers : held[w] # None => held[w] \in Requests
         /\ \A p \in procs : p.job \in Requests /\ p.boot \in Nat
         /\ Range(queue) \subseteq Requests
  BY DEF TypeOK, Procs, Range

\* Steps that start no process, push nothing and queue nothing.
LEMMA SequencedFrame ==
  ASSUME Sequenced, UNCHANGED <<stamp, base, boot, latest>>,
         procs' \subseteq procs, Range(queue)' \subseteq Range(queue),
         \A w \in Workers : held'[w] \in {held[w], None}
  PROVE  Sequenced'
  BY DEF Sequenced, Published, Recent, LatestBefore

\* A start of the service begins anew: what is there was accepted before it.
LEMMA SequencedBoot ==
  ASSUME TypeOK, Order, Builds, Published, Boot
  PROVE  Sequenced'
  <1> USE DEF outside, past
  <1>0. /\ base \in Nat /\ accepts \in Nat /\ boot \in Nat
        /\ \A r \in Requests : stamp[r] \in Nat
        /\ \A p \in procs : p.job \in Requests /\ p.boot \in Nat
    BY SequencedTypes
  <1>1. /\ boot' = boot + 1 /\ base' = accepts
        /\ \A w \in Workers : held'[w] = None
        /\ UNCHANGED <<procs, latest, stamp>>
    BY DEF Boot
  <1>2. \A r \in Requests : ~Recent(r)'
    BY <1>0, <1>1 DEF Order, Recent
  <1>3. \A p \in procs : p.boot # boot'
    BY <1>0, <1>1 DEF Builds
  <1>4. Range(queue)' \subseteq Requests
    <2>1. TypeOK'
      BY TypeStep DEF Next
    <2> QED
      BY <2>1 DEF TypeOK, Range
  <1> HIDE DEF Range
  <1>5. \A p \in procs' : ~Recent(p.job)'
    BY <1>0, <1>1, <1>2
  <1>6. \A r \in Range(queue)' : ~Recent(r)'
    BY <1>2, <1>4
  <1> QED
    BY <1>1, <1>3, <1>5, <1>6 DEF Sequenced, Published

\* Only a start of the service adds threads.
LEMMA ThreadsStay ==
  ASSUME TypeOK, [Next]_vars, ~Boot, OneThread'
  PROVE  OneThread
  <1> USE DEF service, world, intake, threads, outside, past, fates
  <1>1. \A w \in Workers : wpc[w] # "none" => wpc'[w] # "none"
    BY DEF TypeOK, Next, vars, Client, Connect, ConnectFails, ClientTimeout,
       HandlerStep, Validate, Acquire, RejectFull, BeginWrite, Replace, Put,
       Respond, WriteFails, Reject, WorkerStep, WorkerFault, Take, Start,
       Finish, RepositoryGone, CannotStart, CannotStartNorLog, UnlinkFails,
       Discard, PushLatest, Exit, Listen, ServiceStop, HostRestart, Stop, DeleteRepo
  <1> QED
    BY <1>1 DEF OneThread

\* Only processes of accepted jobs push.
LEMMA PublishedStep ==
  ASSUME TypeOK, Fate, Builds, Published, [Next]_vars
  PROVE  Published'
  <1> USE DEF service, world, intake, threads, outside, past, fates
  <1>1. CASE UNCHANGED <<latest, stamp>>
    BY <1>1 DEF Published
  <1>2. ASSUME NEW p \in procs, PushLatest(p) PROVE Published'
    <2>1. stamp[p.job] > 0 /\ stamp' = stamp
      BY <1>2 DEF Builds, PushLatest
    <2>2. \A x \in Repos : latest'[x] \in {latest[x], p.job}
      BY <1>2 DEF PushLatest, TypeOK
    <2> QED
      BY <2>1, <2>2 DEF Published
  <1>3. ASSUME NEW r \in Requests, Replace(r) PROVE Published'
    <2>1. /\ latest' = latest /\ accepts \in Nat
          /\ stamp' = [stamp EXCEPT ![r] = accepts + 1]
      BY <1>3 DEF Replace, TypeOK
    <2>2. \A s \in Requests : stamp[s] > 0 => stamp'[s] > 0
      BY <2>1 DEF TypeOK
    <2>3. \A x \in Repos : latest[x] # None => latest[x] \in Requests
      BY SequencedTypes
    <2> QED
      BY <2>1, <2>2, <2>3 DEF Published
  <1> QED
    BY <1>1, <1>2, <1>3
       DEF Next, vars, Client, Connect, ConnectFails, ClientTimeout,
       HandlerStep, Validate, Acquire, RejectFull, BeginWrite, Put,
       Respond, WriteFails, Reject, WorkerStep, WorkerFault, Take, Start,
       Finish, RepositoryGone, CannotStart, CannotStartNorLog, UnlinkFails,
       Discard, Exit, Boot, Listen, ServiceStop, HostRestart, Stop, DeleteRepo

LEMMA SequencedStep ==
  ASSUME OneThread, TypeOK, Intake, Fate, Dispatch, Order, Builds, Sequenced,
         [Next]_vars, ~Boot
  PROVE  Sequenced'
  <1> USE DEF service, world, intake, threads, outside, past, fates
  <1>0. /\ base \in Nat /\ accepts \in Nat /\ boot \in Nat
        /\ \A r \in Requests : stamp[r] \in Nat
        /\ \A x \in Repos : latest[x] # None => latest[x] \in Requests
        /\ \A w \in Workers : held[w] # None => held[w] \in Requests
        /\ \A p \in procs : p.job \in Requests /\ p.boot \in Nat
        /\ Range(queue) \subseteq Requests
    BY SequencedTypes
  <1>1. ASSUME NEW r \in Requests,
               \/ Client(r) \/ Validate(r) \/ Acquire(r) \/ RejectFull(r)
               \/ BeginWrite(r) \/ Respond(r) \/ WriteFails(r)
        PROVE  Sequenced'
    BY <1>1, SequencedFrame
       DEF Client, Connect, ConnectFails, ClientTimeout, Validate, Acquire,
           RejectFull, BeginWrite, Respond, WriteFails, Reject, Range
  <1>2. ASSUME NEW r \in Requests, Replace(r) PROVE Sequenced'
    <2>1. /\ stamp[r] = 0
          /\ \A s \in Requests :
               stamp'[s] = IF s = r THEN accepts + 1 ELSE stamp[s]
          /\ UNCHANGED <<queue, base, boot, procs, latest, held>>
      BY <1>2 DEF Replace, Fate, Early, TypeOK
    <2>2. \A s \in Requests : stamp[s] > 0 => s # r /\ stamp'[s] = stamp[s]
      BY <1>0, <2>1
    <2>3. /\ \A x \in Repos : latest[x] # None => stamp[latest[x]] > 0
          /\ \A p \in procs : stamp[p.job] > 0
      BY DEF Sequenced, Published, Builds
    <2>4. \A s \in jobs : stamp[s] > 0
      BY DEF Fate, Known, TypeOK
    <2>5. /\ \A s \in Range(queue) : stamp[s] > 0
          /\ \A w \in Workers : held[w] # None => stamp[held[w]] > 0
      BY <2>4 DEF Dispatch, DispatchedJobHasFile
    <2>6. Range(queue)' = Range(queue)
      BY <2>1 DEF Range
    <2>7. /\ \A x \in Repos : latest[x] # None => stamp'[latest[x]] = stamp[latest[x]]
          /\ \A p \in procs : stamp'[p.job] = stamp[p.job]
          /\ \A s \in Range(queue) : stamp'[s] = stamp[s]
          /\ \A w \in Workers : held[w] # None => stamp'[held[w]] = stamp[held[w]]
      BY <1>0, <2>2, <2>3, <2>5
    <2> HIDE DEF Range
    <2> QED
      BY <2>1, <2>6, <2>7 DEF Sequenced, Published, Recent, LatestBefore
  <1>3. ASSUME NEW r \in Requests, Put(r) PROVE Sequenced'
    <2>1. /\ Range(queue)' = Range(queue) \cup {r}
          /\ UNCHANGED <<stamp, base, boot, procs, latest, held>>
      <3>1. Range(Append(queue, r)) = Range(queue) \cup {r}
        BY PutFacts DEF TypeOK
      <3>2. queue' = Append(queue, r)
        BY <1>3 DEF Put
      <3>3. Range(queue)' = Range(Append(queue, r))
        BY <3>2 DEF Range
      <3> QED
        BY <1>3, <3>1, <3>3 DEF Put
    <2>2. \A s \in Requests : stamp[s] <= stamp[r]
      BY <1>3 DEF Put, Order
    <2>3. LatestBefore(r)
      BY <1>0, <2>2 DEF LatestBefore
    <2>4. \A w \in Workers : held[w] # None => stamp[held[w]] <= stamp[r]
      BY <1>0, <2>2
    <2>5. \A p \in procs : stamp[p.job] <= stamp[r]
      BY <1>0, <2>2
    <2> HIDE DEF Range
    <2> QED
      BY <2>1, <2>3, <2>4, <2>5 DEF Sequenced, Published, Recent, LatestBefore
  <1>4. ASSUME NEW w \in Workers, Take(w) PROVE Sequenced'
    <2>1. PICK h : h = Head(queue)
      OBVIOUS
    <2>2. /\ wpc[w] = "idle"
          /\ held' = [held EXCEPT ![w] = h]
          /\ UNCHANGED <<stamp, base, boot, procs, latest>>
      BY <1>4, <2>1 DEF Take
    <2>3. /\ h \in Range(queue)
          /\ \A r \in Range(queue)' :
               r \in Range(queue) /\ (Recent(r) => stamp[h] < stamp[r])
      <3>1. queue \in Seq(Requests) /\ queue # <<>> /\ queue' = Tail(queue)
        BY <1>4 DEF Take, TypeOK
      <3>2. /\ h = queue[1] /\ 1 \in DOMAIN queue
            /\ \A i \in DOMAIN queue' :
                 i + 1 \in DOMAIN queue /\ queue'[i] = queue[i + 1]
            /\ DOMAIN queue' \subseteq Nat
            /\ DOMAIN queue' = 1 .. Len(queue')
            /\ Len(queue') \in Nat
        BY <2>1, <3>1, GetFacts, LenProperties
      <3>3. ASSUME NEW i \in DOMAIN queue', Recent(queue'[i])
            PROVE  stamp[h] < stamp[queue'[i]]
        <4>1. 1 < i + 1 /\ i + 1 \in DOMAIN queue
          BY <3>2
        <4> QED
          BY <3>2, <3>3, <4>1 DEF Order, DispatchInAcceptOrder, Recent
      <3>4. ASSUME NEW r \in Range(queue)' 
            PROVE  r \in Range(queue) /\ (Recent(r) => stamp[h] < stamp[r])
        <4>1. PICK i \in DOMAIN queue' : r = queue'[i]
          BY DEF Range
        <4> QED
          BY <3>2, <3>3, <4>1 DEF Range
      <3> QED
        BY <3>2, <3>4 DEF Range
    <2>4. held'[w] = h /\ \A v \in Workers \ {w} : held'[v] = None
      BY <2>2 DEF OneThread, TypeOK
    <2>5. \A r \in Range(queue)' : Recent(r) => stamp[h] <= stamp[r]
      BY <1>0, <2>3
    <2> HIDE DEF Range
    <2> QED
      BY <2>2, <2>3, <2>4, <2>5 DEF Sequenced, Published, Recent, LatestBefore
  <1>5. ASSUME NEW w \in Workers, Start(w) PROVE Sequenced'
    <2>1. PICK new : new = [job |-> held[w], boot |-> boot, stage |-> "building"]
      OBVIOUS
    <2>2. /\ wpc[w] = "taken"
          /\ procs' = procs \cup {new}
          /\ UNCHANGED <<stamp, base, boot, latest, held, queue, phase>>
      BY <1>5, <2>1 DEF Start
    <2>3. held[w] # None /\ new.job = held[w] /\ new.boot = boot
      BY <2>1, <2>2 DEF TypeOK
    <2>4. Up
      BY <2>2 DEF Intake, Up
    <2>5. \A p \in procs : p.boot # boot
      BY <2>2, <2>4 DEF OneThread, Builds, EveryBuildIsAwaited
    <2>6. Range(queue)' = Range(queue)
      BY <2>2 DEF Range
    <2> QED
      BY <2>2, <2>3, <2>5, <2>6 DEF Sequenced, Published, Recent, LatestBefore
  <1>6. ASSUME NEW w \in Workers,
               \/ UnlinkFails(w) \/ Finish(w) \/ RepositoryGone(w)
               \/ CannotStart(w) \/ CannotStartNorLog(w)
        PROVE  Sequenced'
    <2>1. /\ UNCHANGED <<stamp, base, boot, latest, procs, queue>>
          /\ \A v \in Workers : held'[v] \in {held[v], None}
      BY <1>6 DEF UnlinkFails, Finish, RepositoryGone, CannotStart,
                  CannotStartNorLog, Discard, TypeOK
    <2>2. Range(queue)' = Range(queue)
      BY <2>1 DEF Range
    <2> QED
      BY <2>1, <2>2, SequencedFrame
  <1>7. ASSUME NEW p \in procs, PushLatest(p) PROVE Sequenced'
    <2>1. PICK new : new = [p EXCEPT !.stage = "pushed"]
      OBVIOUS
    <2>2. /\ procs' = (procs \ {p}) \cup {new}
          /\ latest' = [latest EXCEPT ![RepoOf[p.job]] = p.job]
          /\ UNCHANGED <<stamp, base, boot, held, queue>>
      BY <1>7, <2>1 DEF PushLatest
    <2>3. new.job = p.job /\ new.boot = p.boot
      BY <2>1 DEF TypeOK, Procs
    <2>4. \A x \in Repos : latest'[x] \in {latest[x], p.job}
      BY <2>2 DEF TypeOK
    <2>5. stamp[p.job] > 0
      BY DEF Builds
    <2>6. p.boot # boot => ~Recent(p.job)
      BY DEF Sequenced
    <2>7. ASSUME NEW s \in Requests, Recent(s), ~Recent(p.job)
          PROVE  stamp[p.job] <= stamp[s]
      BY <1>0, <2>7 DEF Recent
    <2>8. ASSUME NEW q \in procs, Recent(q.job) PROVE stamp[p.job] <= stamp[q.job]
      <3>1. q.boot = boot
        BY <2>8 DEF Sequenced
      <3>2. CASE p.boot = boot
        <4>1. p.job = q.job
          BY <3>1, <3>2 DEF Sequenced
        <4> QED
          BY <1>0, <4>1
      <3>3. CASE p.boot # boot
        BY <1>0, <2>6, <2>7, <2>8, <3>3
      <3> QED
        BY <3>2, <3>3
    <2>9. ASSUME NEW w \in Workers, held[w] # None, Recent(held[w])
          PROVE  stamp[p.job] <= stamp[held[w]]
      <3>1. CASE p.boot = boot
        <4>1. Up
          BY <2>9 DEF Intake, Up
        <4>2. held[w] = p.job
          BY <2>9, <3>1, <4>1 DEF TypeOK, OneThread, Builds, EveryBuildIsAwaited
        <4> QED
          BY <1>0, <4>2
      <3>2. CASE p.boot # boot
        BY <1>0, <2>6, <2>7, <2>9, <3>2
      <3> QED
        BY <3>1, <3>2
    <2>10. ASSUME NEW r \in Range(queue), Recent(r) PROVE stamp[p.job] <= stamp[r]
      BY <2>10 DEF Sequenced
    <2>11. Range(queue)' = Range(queue)
      BY <2>2 DEF Range
    <2>12. \A x \in Repos : latest'[x] # None => stamp[latest'[x]] > 0
      BY <2>4, <2>5 DEF Sequenced, Published
    <2>13. ASSUME NEW s \in Requests, LatestBefore(s), stamp[p.job] <= stamp[s]
           PROVE  LatestBefore(s)'
      BY <2>2, <2>4, <2>13 DEF LatestBefore
    <2>14. \A q \in procs' : \E o \in procs : q.job = o.job /\ q.boot = o.boot
      BY <2>2, <2>3
    <2>15. ASSUME NEW q \in procs', Recent(q.job)
           PROVE  q.boot = boot /\ LatestBefore(q.job)'
      <3>1. PICK o \in procs : q.job = o.job /\ q.boot = o.boot
        BY <2>14
      <3>2. Recent(o.job) /\ o.job \in Requests
        BY <1>0, <2>15, <3>1
      <3>3. o.boot = boot /\ LatestBefore(o.job)
        BY <3>2 DEF Sequenced
      <3>4. LatestBefore(o.job)'
        BY <2>8, <2>13, <3>2, <3>3
      <3> QED
        BY <3>1, <3>3, <3>4 DEF LatestBefore
    <2>16. ASSUME NEW w \in Workers, held[w] # None, Recent(held[w])
           PROVE  LatestBefore(held[w])'
      <3>1. LatestBefore(held[w]) /\ held[w] \in Requests
        BY <1>0, <2>16 DEF Sequenced
      <3> QED
        BY <2>2, <2>4, <2>9, <2>16, <3>1 DEF LatestBefore
    <2>17. ASSUME NEW r \in Range(queue), Recent(r)
           PROVE  /\ LatestBefore(r)'
                  /\ \A w \in Workers : held[w] # None => stamp[held[w]] <= stamp[r]
                  /\ \A q \in procs' : stamp[q.job] <= stamp[r]
      <3>1. /\ LatestBefore(r)
            /\ \A w \in Workers : held[w] # None => stamp[held[w]] <= stamp[r]
            /\ \A q \in procs : stamp[q.job] <= stamp[r]
        BY <2>17 DEF Sequenced
      <3>2. r \in Requests
        BY <1>0
      <3>3. LatestBefore(r)'
        BY <2>10, <2>13, <2>17, <3>1, <3>2
      <3> QED
        BY <2>14, <3>1, <3>3
    <2> HIDE DEF Range
    <2>18. \A q, s \in procs' : q.boot = boot /\ s.boot = boot => q.job = s.job
      BY <2>14 DEF Sequenced
    <2>19. \A q \in procs' :
             stamp'[q.job] > base' => q.boot = boot' /\ LatestBefore(q.job)'
      BY <2>2, <2>15 DEF Recent
    <2>20. \A w \in Workers :
             held'[w] # None /\ stamp'[held'[w]] > base'
               => \A x \in Repos :
                    latest'[x] # None => stamp'[latest'[x]] <= stamp'[held'[w]]
      BY <2>2, <2>16 DEF Recent, LatestBefore
    <2>21. \A r \in Range(queue)' : stamp'[r] > base' =>
             /\ LatestBefore(r)'
             /\ \A w \in Workers : held'[w] # None => stamp'[held'[w]] <= stamp'[r]
             /\ \A q \in procs' : stamp'[q.job] <= stamp'[r]
      BY <2>2, <2>11, <2>17 DEF Recent
    <2> QED
      BY <2>2, <2>12, <2>18, <2>19, <2>20, <2>21 DEF Sequenced, Published, Recent, LatestBefore
  <1>8. ASSUME NEW p \in procs, Exit(p) PROVE Sequenced'
    BY <1>8, SequencedFrame DEF Exit, Range
  <1>9. CASE Listen \/ \E p \in Repos : DeleteRepo(p)
    BY <1>9, SequencedFrame DEF Listen, DeleteRepo, Range
  <1>10. CASE ServiceStop \/ HostRestart
    <2>1. /\ queue' = <<>>
          /\ procs' \subseteq procs
          /\ \A w \in Workers : held'[w] = None
          /\ UNCHANGED <<stamp, base, boot, latest>>
      BY <1>10 DEF ServiceStop, HostRestart, Stop
    <2>2. Range(queue)' = {}
      BY <2>1 DEF Range
    <2> QED
      BY <2>1, <2>2, SequencedFrame
  <1>11. CASE UNCHANGED vars
    BY <1>11, SequencedFrame DEF vars, Range
  <1> QED
    BY <1>1, <1>2, <1>3, <1>4, <1>5, <1>6, <1>7, <1>8, <1>9, <1>10, <1>11
       DEF Next, HandlerStep, WorkerStep, WorkerFault

\* What a push does to :latest when everything is in sequence.
LEMMA PushesForward ==
  ASSUME IInv, Sequenced, [Next]_vars, NEW x \in Repos,
         latest[x] # None, latest'[x] # latest[x], stamp[latest'[x]] > base
  PROVE  stamp[latest'[x]] > stamp[latest[x]]
  <1> USE DEF service, world, intake, threads, outside, past, fates
  <1>1. TypeOK /\ Order /\ Builds
    BY DEF IInv
  <1>2. PICK p \in procs : PushLatest(p)
    <2>1. latest' # latest
      OBVIOUS
    <2> QED
      BY <2>1 DEF Next, vars, Client, Connect, ConnectFails, ClientTimeout,
         HandlerStep, Validate, Acquire, RejectFull, BeginWrite, Replace, Put,
         Respond, WriteFails, Reject, WorkerStep, WorkerFault, Take, Start,
         Finish, RepositoryGone, CannotStart, CannotStartNorLog, UnlinkFails,
         Discard, Exit, Boot, Listen, ServiceStop, HostRestart, Stop, DeleteRepo
  <1>3. latest'[x] = p.job
    BY <1>1, <1>2 DEF PushLatest, TypeOK
  <1>4. stamp[latest[x]] <= stamp[p.job] /\ stamp[latest[x]] > 0
    BY <1>3 DEF Sequenced, Published, Recent, LatestBefore
  <1>5. p.job \in Requests /\ latest[x] \in Requests /\ p.job # latest[x]
    BY <1>1, <1>3, SequencedTypes
  <1>6. stamp[p.job] \in Nat /\ stamp[latest[x]] \in Nat
    BY <1>1, <1>5, SequencedTypes
  <1>7. stamp[latest[x]] # stamp[p.job]
    BY <1>1, <1>4, <1>5 DEF Order
  <1> QED
    BY <1>3, <1>4, <1>6, <1>7

(***************************************************************************)
(* While the service has one worker thread, whatever other starts of it    *)
(* had, a job accepted in this boot never takes :latest back, whichever    *)
(* processes of earlier boots are still alive, for any number of jobs,     *)
(* repositories, stops and failures (build_dispatcher.py worker_loop;      *)
(* build_image.py pushes :latest for the default branch).                  *)
(***************************************************************************)
THEOREM LatestMovesForward == Spec => LatestFollowsAcceptance
  <1> DEFINE InSequence == Published /\ (OneThread => Sequenced)
             Forward == \A p \in Repos :
               OneThread /\ latest[p] # None /\ latest'[p] # latest[p]
                 /\ stamp[latest'[p]] > base
                 => stamp[latest'[p]] > stamp[latest[p]]
  <1>1. Init => InSequence
    <2> SUFFICES ASSUME Init PROVE Published /\ Sequenced
      OBVIOUS
    <2>1. Range(queue) = {}
      BY DEF Init, Range
    <2> QED
      BY <2>1 DEF Init, Sequenced, Published
  <1>2. IInv /\ InSequence /\ [Next]_vars => InSequence'
    <2> SUFFICES ASSUME IInv, InSequence, [Next]_vars PROVE InSequence'
      OBVIOUS
    <2>1. Published'
      BY PublishedStep DEF IInv
    <2>2. CASE Boot
      BY <2>1, <2>2, SequencedBoot DEF IInv
    <2>3. CASE ~Boot
      <3>1. ASSUME OneThread' PROVE Sequenced'
        <4>1. OneThread
          BY <2>3, <3>1, ThreadsStay DEF IInv
        <4> QED
          BY <2>3, <4>1, SequencedStep DEF IInv
      <3> QED
        BY <2>1, <3>1
    <2> QED
      BY <2>2, <2>3
  <1>3. IInv /\ InSequence /\ [Next]_vars => Forward
    BY PushesForward
  <1>4. [][Forward]_vars <=> LatestFollowsAcceptance
    BY PTL DEF LatestFollowsAcceptance
  <1> QED
    BY <1>1, <1>2, <1>3, <1>4, Inductive, PTL DEF Spec

------------------------------------------------------------------------------
(***************************************************************************)
(* The dispatcher implements DurableJobs.                                  *)
(***************************************************************************)

Promised == {r \in Requests : client[r] = "queued"}

LEMMA RefinementInit == Init => Durable!Init
  BY DEF Init, Durable!Init

LEMMA RefinementStep == IInv /\ [Next]_vars => [Durable!Next]_(Durable!vars)
  <1> SUFFICES ASSUME IInv, [Next]_vars
               PROVE  \/ Durable!Next
                      \/ UNCHANGED <<jobs, ended, returned, dropped, Promised>>
    BY DEF Durable!vars, Promised
  <1> USE DEF service, world, intake, threads, outside, past, fates
  <1>0. TypeOK /\ Fate /\ Capacitated /\ Dispatch /\ Builds /\ Intake
    BY DEF IInv
  <1>1. ASSUME NEW r \in Requests,
               \/ Client(r) \/ Validate(r) \/ Acquire(r) \/ RejectFull(r)
               \/ BeginWrite(r) \/ Put(r) \/ WriteFails(r)
        PROVE  UNCHANGED <<jobs, ended, returned, dropped, Promised>>
    <2>1. UNCHANGED <<jobs, ended, returned, dropped>>
      BY <1>1 DEF Client, Connect, ConnectFails, ClientTimeout, Validate,
                  Acquire, RejectFull, BeginWrite, Put, WriteFails, Reject
    <2>2. \A s \in Requests : client'[s] = "queued" <=> client[s] = "queued"
      BY <1>0, <1>1 DEF TypeOK, Client, Connect, ConnectFails, ClientTimeout,
         Validate, Acquire, RejectFull, BeginWrite, Put, WriteFails, Reject
    <2> QED
      BY <2>1, <2>2 DEF Promised
  <1>2. ASSUME NEW r \in Requests, Replace(r) PROVE Durable!Next
    <2>1. r \notin jobs \cup returned \cup dropped
      BY <1>0, <1>2 DEF Replace, Fate, Early, Known
    <2>2. Cardinality(jobs) < Capacity
      BY <1>0, <1>2 DEF Replace, Capacitated
    <2>3. Promised' = Promised /\ jobs' = jobs \cup {r}
      BY <1>2 DEF Replace, Promised
    <2>4. UNCHANGED <<ended, returned, dropped>>
      BY <1>2 DEF Replace
    <2>5. Durable!Cardinality(jobs) < Capacity
      BY <2>2 DEF Cardinality, Durable!Cardinality
    <2>6. Durable!Accept(r)
      BY <2>1, <2>3, <2>4, <2>5
         DEF Durable!Accept, Durable!Known, Promised
    <2> QED
      BY <2>6 DEF Durable!Next
  <1>3. ASSUME NEW r \in Requests, Respond(r)
        PROVE  \/ Durable!Next
               \/ UNCHANGED <<jobs, ended, returned, dropped, Promised>>
    <2>1. UNCHANGED <<jobs, ended, returned, dropped>>
      BY <1>3 DEF Respond
    <2>2. CASE client[r] = "waiting" /\ handler[r] = "queued"
      <3>1. r \in jobs \cup returned \cup dropped
        BY <1>0, <2>2 DEF Fate, Known, TypeOK
      <3>2. \A s \in Requests :
              client'[s] = "queued" <=> client[s] = "queued" \/ s = r
        BY <1>0, <1>3, <2>2 DEF Respond, TypeOK
      <3>3. Promised' = Promised \cup {r}
        BY <3>2 DEF Promised
      <3>4. Durable!Promise(r)
        BY <2>1, <3>1, <3>3 DEF Durable!Promise, Durable!Known, Promised
      <3> QED
        BY <3>4 DEF Durable!Next
    <2>3. CASE ~(client[r] = "waiting" /\ handler[r] = "queued")
      <3>1. \A s \in Requests : client'[s] = "queued" <=> client[s] = "queued"
        BY <1>0, <1>3, <2>3 DEF Respond, TypeOK
      <3> QED
        BY <2>1, <3>1 DEF Promised
    <2> QED
      BY <2>2, <2>3
  <1>4. ASSUME NEW w \in Workers, Take(w) \/ Start(w) \/ UnlinkFails(w)
        PROVE  UNCHANGED <<jobs, ended, returned, dropped, Promised>>
    BY <1>4 DEF Take, Start, UnlinkFails, Promised
  <1>5. ASSUME NEW w \in Workers, Finish(w) PROVE Durable!Next
    <2>1. held[w] \in Requests /\ held[w] \in jobs
      BY <1>0, <1>5 DEF Finish, TypeOK, Dispatch, DispatchedJobHasFile
    <2>2. held[w] \in ended
      BY <1>0, <1>5 DEF Finish, ChildGone, Builds
    <2>3. Durable!Settle(held[w])
      BY <1>5, <2>1, <2>2 DEF Finish, Durable!Settle
    <2> QED
      BY <2>1, <2>3 DEF Durable!Next
  <1>6. ASSUME NEW w \in Workers,
               RepositoryGone(w) \/ CannotStart(w) \/ CannotStartNorLog(w)
        PROVE  Durable!Next
    <2>1. Discard(w)
      BY <1>6 DEF RepositoryGone, CannotStart, CannotStartNorLog
    <2>2. held[w] \in Requests /\ held[w] \in jobs
      BY <1>0, <2>1 DEF Discard, TypeOK, Dispatch, DispatchedJobHasFile
    <2>3. Durable!Abandon(held[w])
      BY <2>1, <2>2 DEF Discard, Durable!Abandon
    <2> QED
      BY <2>2, <2>3 DEF Durable!Next
  <1>7. ASSUME NEW p \in procs, PushLatest(p)
        PROVE  UNCHANGED <<jobs, ended, returned, dropped, Promised>>
    BY <1>7 DEF PushLatest, Promised
  <1>8. ASSUME NEW p \in procs, Exit(p) PROVE Durable!Next
    <2>1. p.job \in Requests /\ stamp[p.job] > 0
      BY <1>0 DEF TypeOK, Procs, Builds
    <2>2. p.job \in jobs \cup returned \cup dropped
      BY <1>0, <2>1 DEF Fate, Known
    <2>3. Durable!Run(p.job)
      BY <1>8, <2>2 DEF Exit, Durable!Run, Durable!Known
    <2> QED
      BY <2>1, <2>3 DEF Durable!Next
  <1>9. CASE Boot \/ Listen \/ \E p \in Repos : DeleteRepo(p)
    BY <1>9 DEF Boot, Listen, DeleteRepo, Promised
  <1>10. CASE ServiceStop \/ HostRestart
    <2>1. \A s \in Requests : client'[s] = "queued" <=> client[s] = "queued"
      BY <1>10 DEF ServiceStop, HostRestart, Stop
    <2>2. UNCHANGED <<jobs, ended, returned, dropped>>
      BY <1>10 DEF ServiceStop, HostRestart, Stop
    <2> QED
      BY <2>1, <2>2 DEF Promised
  <1>11. CASE UNCHANGED vars
    BY <1>11 DEF vars, Promised
  <1> QED
    BY <1>1, <1>2, <1>3, <1>4, <1>5, <1>6, <1>7, <1>8, <1>9, <1>10, <1>11
       DEF Next, HandlerStep, WorkerStep, WorkerFault

\* The dispatcher keeps the promise of DurableJobs: bounded acceptance, an
\* answer only for an accepted job, removal only after a run ended or by one
\* of the abandonments named there.
THEOREM Implements == Spec => KeepsPromise
  BY RefinementInit, RefinementStep, Inductive, PTL
     DEF Spec, KeepsPromise, Durable!Spec

==============================================================================
