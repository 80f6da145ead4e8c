-------------------------- MODULE MirrorSync_proofs --------------------------
(***************************************************************************)
(* Proofs about MirrorSync, for any number of pushes, branches, mirrors    *)
(* and failures, any history of commits and any repository.yaml.           *)
(***************************************************************************)
EXTENDS MirrorSync, WellFoundedInduction, TLAPS

Deals(p, r) == r \in RefsOf(change[p])
Targets(p, job, m, r) == Mirror(p, job) = m /\ Ref(p, job) = r

\* A push changes a branch once.
Once(p) ==
  \A i, j \in DOMAIN change[p] : change[p][i].ref = change[p][j].ref => i = j

\* What a process has done where it is.
Progress(p) ==
  /\ at[p] \in {"none", "started"} => work[p] = {} /\ tried[p] = {} /\ status[p] = 0
  /\ at[p] \in {"pushing", "ended"} => work[p] \cup tried[p] = Jobs(entries[p], change[p])
  /\ at[p] = "pushing" => status[p] # 3
  /\ at[p] \in {"pushing", "ended"} /\ status[p] # 3 =>
       /\ Kept(p) # {} => entries[p] = ConfigOf[ConfigCommit(p)]
       /\ status[p] = 0 <=> good[p] = tried[p]

\* A branch at the server is where the push that owns it has put it.
Owned(r) ==
  /\ owner[r] = 0 => server[r] = Gone /\ \A p \in Pushes : ~Deals(p, r)
  /\ owner[r] # 0 => \E i \in DOMAIN change[owner[r]] :
                       change[owner[r]][i] = [ref |-> r, new |-> server[r]]

\* The values of a linear branch lead to the present one.
Lineage(r) ==
  \A p \in Pushes : \A i \in DOMAIN change[p] : change[p][i].ref = r =>
    change[p][i].new # Gone /\ Forward(change[p][i].new, server[r])

\* A mirror that has the last push of a linear branch keeps it.
Arrived(m, r) ==
  owner[r] # 0 =>
    \A job \in good[owner[r]] : Targets(owner[r], job, m, r) => remote[m][r] = server[r]

\* Where all is calm a mirror has the branch, or the only process at work on it
\* will be accepted there.
Calm(m, r) ==
  /\ (\A p \in Pushes : AtWork(p) => ~Deals(p, r)) => remote[m][r] = server[r]
  /\ \A p \in Pushes : AtWork(p) /\ Deals(p, r) =>
       /\ owner[r] = p
       /\ at[p] = "pushing" =>
            \E job \in Jobs(entries[p], change[p]) : Targets(p, job, m, r)
       /\ (\E job \in tried[p] : Targets(p, job, m, r)) => remote[m][r] = server[r]
       /\ (\A job \in tried[p] : ~Targets(p, job, m, r)) => Accepts(m, r, server[r])

IInv ==
  /\ TypeOK
  /\ \A p \in Pushes : Once(p) /\ Progress(p)
  /\ OnlyWhatWasPushed
  /\ \A r \in Refs : Owned(r)
  /\ \A r \in linear : Lineage(r)
  /\ \A m \in Mirrors, r \in linear : Arrived(m, r)
  /\ faults = 0 => \A m \in Mirrors, r \in Refs : <<m, r>> \in calm => Calm(m, r)

------------------------------------------------------------------------------
(***************************************************************************)
(* Branches and changes.                                                   *)
(***************************************************************************)

\* The changes of a push are a sequence of pairs of a branch and a value.
LEMMA ChangeType ==
  ASSUME NEW c \in Changes
  PROVE  /\ Len(c) \in Nat \ {0} /\ DOMAIN c = 1..Len(c)
         /\ c # <<>>
         /\ \A i \in DOMAIN c : c[i] \in [ref : Refs, new : Values]
         /\ RefsOf(c) \subseteq Refs
  <1>1. PICK n \in 1..Cardinality(Refs) : c \in [1..n -> [ref : Refs, new : Values]]
    BY DEF Changes
  <1>2. n \in Nat \ {0}
    OBVIOUS
  <1>3. DOMAIN c = 1..n /\ \A i \in 1..n : c[i] \in [ref : Refs, new : Values]
    BY <1>1
  <1>4. Len(c) = n
    BY <1>1, <1>2
  <1>5. c # <<>>
    BY <1>2, <1>4
  <1> QED
    BY <1>2, <1>3, <1>4, <1>5 DEF RefsOf

\* The changes of any process.
LEMMA ChangesOf ==
  ASSUME TypeOK, NEW p \in Pushes
  PROVE  /\ \A i \in DOMAIN change[p] : change[p][i] \in [ref : Refs, new : Values]
         /\ RefsOf(change[p]) \subseteq Refs
  <1>1. change[p] \in Changes \/ change[p] = <<>>
    BY DEF TypeOK
  <1>2. CASE change[p] \in Changes
    BY <1>2, ChangeType
  <1>3. CASE change[p] = <<>>
    BY <1>3 DEF RefsOf
  <1> QED
    BY <1>1, <1>2, <1>3

LEMMA EntriesOf ==
  ASSUME TypeOK, NEW p \in Pushes
  PROVE  \A i \in DOMAIN entries[p] : entries[p][i] \in [mirror : Mirrors, refs : SUBSET Refs]
  <1> DEFINE E == [mirror : Mirrors, refs : SUBSET Refs]
  <1>1. \A s \in Seq(E) : \A i \in DOMAIN s : s[i] \in E
    <2> HIDE DEF E
    <2> QED
      OBVIOUS
  <1>2. entries[p] = <<>> \/ \E c \in Commits : entries[p] = ConfigOf[c]
    BY DEF TypeOK
  <1>3. \A c \in Commits : ConfigOf[c] \in Seq(E)
    BY ConfigAssumption DEF Entries
  <1>4. CASE entries[p] = <<>>
    BY <1>4
  <1>5. ASSUME NEW c \in Commits, entries[p] = ConfigOf[c]
        PROVE  \A i \in DOMAIN entries[p] : entries[p][i] \in E
    <2> HIDE DEF E
    <2> QED
      BY <1>1, <1>3, <1>5
  <1> QED
    BY <1>2, <1>4, <1>5

\* A push to a mirror that a process has to make is of a change of its, to a
\* mirror with a url.
LEMMA JobOf ==
  ASSUME TypeOK, NEW p \in Pushes, NEW job \in work[p] \cup tried[p]
  PROVE  /\ Mirror(p, job) \in Valid /\ Mirror(p, job) \in Mirrors
         /\ Ref(p, job) \in Refs /\ Deals(p, Ref(p, job))
         /\ New(p, job) \in Values
         /\ job[2] \in DOMAIN change[p]
         /\ change[p][job[2]] = [ref |-> Ref(p, job), new |-> New(p, job)]
         /\ job \in Jobs(entries[p], change[p])
  <1>1. job \in Jobs(entries[p], change[p])
    BY DEF TypeOK
  <1>2. /\ job[2] \in DOMAIN change[p] /\ job[1] \in DOMAIN entries[p]
        /\ entries[p][job[1]].mirror \in Valid
    BY <1>1 DEF Jobs
  <1>3. change[p][job[2]] \in [ref : Refs, new : Values]
    BY <1>2, ChangesOf
  <1> QED
    BY <1>1, <1>2, <1>3, MirrorsAssumption DEF Mirror, Ref, New, Deals, RefsOf

\* A set of numbers up to n has a greatest one.
LEMMA MaxIsMember ==
  ASSUME NEW n \in Nat, NEW S, S \subseteq 1..n, S # {}
  PROVE  Max(S) \in S
  <1> DEFINE R == {ss \in Nat \X Nat : ss[1] < ss[2]}
             Gaps == {n - i : i \in S}
  <1>1. OpToRel(<, Nat) = R
    BY DEF OpToRel
  <1>2. IsWellFoundedOn(R, Nat)
    BY <1>1, NatLessThanWellFounded
  <1>3. \A x, y \in Nat : <<y, x>> \in R <=> y < x
    OBVIOUS
  <1>4. Gaps \subseteq Nat /\ Gaps # {}
    <2>1. ASSUME NEW i \in S PROVE n - i \in Nat
      <3>1. i \in 1..n
        OBVIOUS
      <3> QED
        BY <3>1
    <2> QED
      BY <2>1
  <1>5. PICK g \in Gaps : \A h \in Gaps : ~ (<<h, g>> \in R)
    <2> HIDE DEF R, Gaps
    <2> QED
      BY <1>2, <1>4, WFMin
  <1>6. PICK m \in S : g = n - m
    OBVIOUS
  <1>7. ASSUME NEW i \in S PROVE m >= i
    <2>1. i \in 1..n /\ m \in 1..n
      OBVIOUS
    <2>2. n - i \in Nat /\ g \in Nat /\ n - i \in Gaps
      BY <1>4
    <2>3. ~ (n - i < g)
      <3> HIDE DEF R, Gaps
      <3> QED
        BY <1>3, <1>5, <2>2
    <2> QED
      BY <1>6, <2>1, <2>3
  <1> QED
    BY <1>7 DEF Max

\* Moving forward is transitive, and never leads back.
LEMMA ForwardTransitive ==
  ASSUME NEW a \in Values, NEW b \in Values, NEW c \in Values,
         a # Gone, Forward(a, b), Forward(b, c)
  PROVE  Forward(a, c)
  BY BeforeAssumption, CommitsAssumption DEF Forward, Values

LEMMA ForwardOnce ==
  ASSUME NEW a \in Values, NEW b \in Values, a # Gone, Forward(a, b), Forward(b, a)
  PROVE  a = b
  BY BeforeAssumption, CommitsAssumption DEF Forward, Values

------------------------------------------------------------------------------
LEMMA Initially == Init => IInv
  <1> SUFFICES ASSUME Init PROVE IInv
    OBVIOUS
  <1>1. /\ pushed = 0 /\ \A p \in Pushes : p > pushed
        /\ change = [p \in Pushes |-> <<>>] /\ \A p \in Pushes : change[p] = <<>>
        /\ \A p \in Pushes : work[p] = {} /\ tried[p] = {} /\ good[p] = {}
        /\ entries = [p \in Pushes |-> <<>>]
        /\ at = [p \in Pushes |-> "none"] /\ status = [p \in Pushes |-> 0]
        /\ server = [r \in Refs |-> Gone] /\ owner = [r \in Refs |-> 0]
        /\ remote = [m \in Mirrors |-> [r \in Refs |-> Gone]]
    BY DEF Init, Pushes
  <1>2. \A p \in Pushes : DOMAIN change[p] = {} /\ \A r : ~Deals(p, r)
    BY <1>1 DEF Deals, RefsOf
  <1>3. TypeOK
    <2>1. pushed \in 0..MaxPushes /\ changed \in 0..MaxChanges /\ faults \in 0..MaxFaults
      BY BoundsAssumption DEF Init
    <2>2. \A f \in {work, tried, good} : DOMAIN f = Pushes
      BY DEF Init
    <2>3. linear \subseteq Refs /\ calm \subseteq Mirrors \X Refs
      BY DEF Init
    <2>4. owner \in [Refs -> 0..pushed]
      BY <1>1
    <2>5. server \in [Refs -> Values] /\ remote \in [Mirrors -> [Refs -> Values]]
      BY <1>1 DEF Values
    <2>6. \A p \in Pushes :
            /\ work[p] \cup tried[p] \subseteq Jobs(entries[p], change[p])
            /\ work[p] \cap tried[p] = {} /\ good[p] \subseteq tried[p]
            /\ work[p] # {} => at[p] = "pushing"
      BY <1>1
    <2> QED
      BY <1>1, <2>1, <2>2, <2>3, <2>4, <2>5, <2>6 DEF TypeOK
  <1>4. \A p \in Pushes : Once(p) /\ Progress(p)
    BY <1>1, <1>2 DEF Once, Progress
  <1>5. OnlyWhatWasPushed
    BY <1>1 DEF OnlyWhatWasPushed
  <1>6. \A r \in Refs : Owned(r) /\ Lineage(r)
    BY <1>1, <1>2 DEF Owned, Lineage
  <1>7. \A m \in Mirrors, r \in Refs : Arrived(m, r)
    BY <1>1 DEF Arrived
  <1>8. \A m \in Mirrors, r \in Refs : Calm(m, r)
    BY <1>1, <1>2 DEF Calm
  <1>9. linear \subseteq Refs
    BY DEF Init
  <1> QED
    BY <1>3, <1>4, <1>5, <1>6, <1>7, <1>8, <1>9 DEF IInv

------------------------------------------------------------------------------
(***************************************************************************)
(* The steps of a process.                                                 *)
(***************************************************************************)

\* A process leaves the server and the other processes alone.
Alone(p) ==
  /\ UNCHANGED <<server, pushed, changed, change, owner, linear>>
  /\ \A q \in Pushes \ {p} :
       /\ at'[q] = at[q] /\ entries'[q] = entries[q] /\ work'[q] = work[q]
       /\ status'[q] = status[q] /\ tried'[q] = tried[q] /\ good'[q] = good[q]
  /\ faults' \in 0..MaxFaults
  /\ faults' = 0 => faults = 0
  /\ calm' \subseteq calm

LEMMA ProcessAlone ==
  ASSUME TypeOK, NEW p \in Pushes, Process(p)
  PROVE  Alone(p)
  <1> USE DEF TypeOK
  <1>1. CASE Configure(p)
    BY <1>1 DEF Configure, Alone
  <1>2. CASE Try(p)
    BY <1>2 DEF Try, Turn, Alone, history
  <1>3. CASE TryFails(p)
    BY <1>3, BoundsAssumption DEF TryFails, Turn, Alone, history
  <1>4. CASE Exit(p)
    BY <1>4 DEF Exit, Alone, history
  <1>5. CASE Killed(p)
    BY <1>5, BoundsAssumption DEF Killed, Alone, history
  <1> QED
    BY <1>1, <1>2, <1>3, <1>4, <1>5 DEF Process

\* What another process has made stays so.
LEMMA OthersProgress ==
  ASSUME NEW q \in Pushes, Progress(q), change'[q] = change[q],
         at'[q] = at[q], entries'[q] = entries[q], work'[q] = work[q],
         status'[q] = status[q], tried'[q] = tried[q], good'[q] = good[q]
  PROVE  Progress(q)'
  <1>1. Kept(q)' = Kept(q)
    BY DEF Kept
  <1>2. Kept(q) # {} => ConfigCommit(q)' = ConfigCommit(q)
    BY <1>1 DEF ConfigCommit
  <1> QED
    BY <1>1, <1>2 DEF Progress

\* A process starts on its mirrors.
LEMMA ConfigureFacts ==
  ASSUME TypeOK, NEW p \in Pushes, Configure(p)
  PROVE  /\ at[p] = "started"
         /\ entries'[p] \in {<<>>} \cup {ConfigOf[c] : c \in Commits}
         /\ ConfigCommit(p) # Gone => entries'[p] = ConfigOf[ConfigCommit(p)] /\ status'[p] = 0
         /\ ConfigCommit(p) = Gone => entries'[p] = <<>> /\ status'[p] = 3
         /\ work'[p] = Jobs(entries'[p], change[p])
         /\ at'[p] = IF work'[p] = {} THEN "ended" ELSE "pushing"
         /\ UNCHANGED <<remote, tried, good, faults>>
         /\ \A x \in calm' : x[2] \in RefsOf(change[p]) =>
              \E job \in work'[p] : x = <<entries'[p][job[1]].mirror, change[p][job[2]].ref>>
  <1> DEFINE sha == ConfigCommit(p)
             read == IF sha = Gone THEN <<>> ELSE ConfigOf[sha]
             todo == Jobs(read, change[p])
  <1>1. /\ at[p] = "started"
        /\ entries' = [entries EXCEPT ![p] = read]
        /\ work' = [work EXCEPT ![p] = todo]
        /\ status' = [status EXCEPT ![p] = IF sha = Gone THEN 3 ELSE 0]
        /\ at' = [at EXCEPT ![p] = IF todo = {} THEN "ended" ELSE "pushing"]
        /\ calm' = {x \in calm : x[2] \in RefsOf(change[p]) =>
                      \E job \in todo : x = <<read[job[1]].mirror, change[p][job[2]].ref>>}
        /\ UNCHANGED <<remote, tried, good, faults>>
    BY DEF Configure
  <1>2. sha \in Values
    <2>1. HeadRef \in Refs
      BY RefsAssumption
    <2>2. CASE Kept(p) = {}
      BY <2>1, <2>2 DEF ConfigCommit, TypeOK
    <2>3. CASE Kept(p) # {}
      <3>1. Kept(p) \subseteq DOMAIN change[p]
        BY DEF Kept
      <3>2. Kept(p) \subseteq 1..Len(change[p]) /\ Len(change[p]) \in Nat
        <4>1. change[p] \in Changes
          BY <2>3 DEF TypeOK, Kept
        <4> QED
          BY <3>1, <4>1, ChangeType
      <3>3. Max(Kept(p)) \in Kept(p)
        BY <2>3, <3>2, MaxIsMember
      <3> QED
        BY <2>3, <3>1, <3>3, ChangesOf DEF ConfigCommit
    <2> QED
      BY <2>2, <2>3
  <1>3. read = <<>> \/ read \in {ConfigOf[c] : c \in Commits}
    BY <1>2 DEF Values
  <1>4. entries'[p] = read /\ work'[p] = todo
    BY <1>1 DEF TypeOK
  <1> HIDE DEF sha, read, todo
  <1>5. /\ at'[p] = IF work'[p] = {} THEN "ended" ELSE "pushing"
        /\ status'[p] = IF sha = Gone THEN 3 ELSE 0
    BY <1>1, <1>4 DEF TypeOK
  <1>6. sha # Gone => read = ConfigOf[sha]
    BY DEF read
  <1>7. sha = Gone => read = <<>>
    BY DEF read
  <1> QED
    BY <1>1, <1>3, <1>4, <1>5, <1>6, <1>7 DEF sha, todo

\* One push to a mirror.
Made(p, job) ==
  /\ at[p] = "pushing" /\ job \in work[p]
  /\ work'[p] = work[p] \ {job} /\ tried'[p] = tried[p] \cup {job}
  /\ at' = at /\ entries' = entries /\ calm' = calm
  /\ remote' = remote \/ (Accepted(p, job) /\ Taken(p, job))
  /\ faults' = 0 /\ Accepted(p, job) => Taken(p, job)
  /\ \/ good'[p] = good[p] \cup {job} /\ status'[p] = status[p] /\ Taken(p, job)
     \/ good'[p] = good[p] /\ status'[p] = 1

LEMMA MadeFacts ==
  ASSUME TypeOK, NEW p \in Pushes, Try(p) \/ TryFails(p)
  PROVE  \E job \in work[p] : Made(p, job)
  <1>1. CASE Try(p)
    <2>1. PICK job \in work[p] :
            /\ Turn(p, job)
            /\ \/ Accepted(p, job) /\ Taken(p, job)
                  /\ good' = [good EXCEPT ![p] = @ \cup {job}] /\ UNCHANGED status
               \/ ~Accepted(p, job)
                  /\ status' = [status EXCEPT ![p] = 1] /\ UNCHANGED <<remote, good>>
      BY <1>1 DEF Try
    <2> QED
      BY <1>1, <2>1 DEF Try, Turn, Made, TypeOK, history
  <1>2. CASE TryFails(p)
    <2>1. PICK job \in work[p] :
            Turn(p, job) /\ ((Accepted(p, job) /\ Taken(p, job)) \/ UNCHANGED remote)
      BY <1>2 DEF TryFails
    <2>2. faults' # 0
      BY <1>2 DEF TryFails, TypeOK
    <2> QED
      BY <1>2, <2>1, <2>2 DEF TryFails, Turn, Made, TypeOK, history
  <1> QED
    BY <1>1, <1>2

LEMMA ProcessTypes ==
  ASSUME TypeOK, NEW p \in Pushes, Progress(p), Process(p)
  PROVE  TypeOK'
  <1>1. Alone(p)
    BY ProcessAlone
  <1>2. /\ at' \in [Pushes -> {"none", "started", "pushing", "ended", "killed"}]
        /\ at[p] # "none" /\ at'[p] # "none"
        /\ status' \in [Pushes -> {0, 1, 3}]
        /\ \A f \in {work, tried, good}' : DOMAIN f = Pushes
        /\ DOMAIN entries' = Pushes
    <2>0. /\ at \in [Pushes -> {"none", "started", "pushing", "ended", "killed"}]
          /\ status \in [Pushes -> {0, 1, 3}]
          /\ DOMAIN work = Pushes /\ DOMAIN tried = Pushes /\ DOMAIN good = Pushes
          /\ DOMAIN entries = Pushes
      BY DEF TypeOK
    <2>1. CASE Configure(p)
      BY <2>0, <2>1 DEF Configure
    <2>2. CASE Try(p)
      BY <2>0, <2>2 DEF Try, Turn
    <2>3. CASE TryFails(p)
      BY <2>0, <2>3 DEF TryFails, Turn
    <2>4. CASE Exit(p)
      BY <2>0, <2>4 DEF Exit
    <2>5. CASE Killed(p)
      BY <2>0, <2>5 DEF Killed, AtWork
    <2> QED
      BY <2>1, <2>2, <2>3, <2>4, <2>5 DEF Process
  <1>3. remote' \in [Mirrors -> [Refs -> Values]]
    <2>1. CASE Try(p) \/ TryFails(p)
      <3>1. PICK job \in work[p] : remote' = remote \/ Taken(p, job)
        BY <2>1, MadeFacts DEF Made
      <3>2. /\ Mirror(p, job) \in Mirrors /\ Ref(p, job) \in Refs /\ New(p, job) \in Values
        BY JobOf
      <3>3. CASE Taken(p, job)
        <4>1. remote' = [remote EXCEPT ![Mirror(p, job)] =
                          [remote[Mirror(p, job)] EXCEPT ![Ref(p, job)] = New(p, job)]]
          BY <3>3 DEF Taken
        <4> QED
          BY <3>2, <4>1 DEF TypeOK
      <3> QED
        BY <3>1, <3>3 DEF TypeOK
    <2>2. CASE Configure(p) \/ Exit(p) \/ Killed(p)
      BY <2>2 DEF Configure, Exit, Killed, TypeOK
    <2> QED
      BY <2>1, <2>2 DEF Process
  <1>4. /\ entries'[p] \in {<<>>} \cup {ConfigOf[c] : c \in Commits}
        /\ work'[p] \cup tried'[p] \subseteq Jobs(entries'[p], change'[p])
        /\ work'[p] \cap tried'[p] = {} /\ good'[p] \subseteq tried'[p]
        /\ work'[p] # {} => at'[p] = "pushing"
    <2>0. /\ entries[p] \in {<<>>} \cup {ConfigOf[c] : c \in Commits}
          /\ work[p] \cup tried[p] \subseteq Jobs(entries[p], change[p])
          /\ work[p] \cap tried[p] = {} /\ good[p] \subseteq tried[p]
          /\ work[p] # {} => at[p] = "pushing"
          /\ change' = change
      BY <1>1 DEF TypeOK, Alone
    <2>1. CASE Configure(p)
      <3>1. tried[p] = {}
        BY <2>1, ConfigureFacts DEF Progress
      <3> QED
        BY <2>0, <2>1, <3>1, ConfigureFacts
    <2>2. CASE Try(p) \/ TryFails(p)
      <3>1. PICK job \in work[p] : Made(p, job)
        BY <2>2, MadeFacts
      <3> QED
        BY <2>0, <3>1 DEF Made
    <2>3. CASE Exit(p)
      BY <2>0, <2>3 DEF Exit
    <2>4. CASE Killed(p)
      BY <2>0, <2>4 DEF Killed, TypeOK
    <2> QED
      BY <2>1, <2>2, <2>3, <2>4 DEF Process
  <1>5. entries' \in [Pushes -> {<<>>} \cup {ConfigOf[c] : c \in Commits}]
    <2>1. CASE Configure(p)
      <3>1. PICK x : entries' = [entries EXCEPT ![p] = x]
        BY <2>1 DEF Configure
      <3> QED
        BY <1>4, <3>1 DEF TypeOK
    <2>2. CASE Try(p) \/ TryFails(p) \/ Exit(p) \/ Killed(p)
      BY <2>2 DEF Try, TryFails, Exit, Killed, TypeOK
    <2> QED
      BY <2>1, <2>2 DEF Process
  <1>6. /\ pushed' = pushed /\ change' = change /\ server' = server
        /\ changed' = changed /\ owner' = owner /\ linear' = linear
        /\ faults' \in 0..MaxFaults /\ calm' \subseteq Mirrors \X Refs
    BY <1>1 DEF Alone, TypeOK
  <1>7. \A q \in Pushes :
          /\ at'[q] = "none" <=> q > pushed'
          /\ change'[q] = <<>> <=> q > pushed'
    BY <1>1, <1>2, <1>6 DEF Alone, TypeOK
  <1>8. \A q \in Pushes :
          /\ work'[q] \cup tried'[q] \subseteq Jobs(entries'[q], change'[q])
          /\ work'[q] \cap tried'[q] = {} /\ good'[q] \subseteq tried'[q]
          /\ work'[q] # {} => at'[q] = "pushing"
    <2> TAKE q \in Pushes
    <2>1. CASE q = p
      BY <1>4, <2>1
    <2>2. CASE q # p
      BY <1>1, <1>6, <2>2 DEF Alone, TypeOK
    <2> QED
      BY <2>1, <2>2
  <1> QED
    BY <1>2, <1>3, <1>5, <1>6, <1>7, <1>8 DEF TypeOK

LEMMA ProcessProgress ==
  ASSUME TypeOK, NEW p \in Pushes, Progress(p), Process(p)
  PROVE  Progress(p)'
  <1>1. change' = change /\ Kept(p)' = Kept(p)
    BY ProcessAlone DEF Alone, Kept
  <1>2. Kept(p) # {} => ConfigCommit(p)' = ConfigCommit(p)
    BY <1>1 DEF ConfigCommit
  <1>3. good[p] \subseteq tried[p] /\ work[p] \cap tried[p] = {}
    BY DEF TypeOK
  <1>4. CASE Configure(p)
    <2>1. at[p] = "started" /\ tried[p] = {} /\ good[p] = {}
      BY <1>3, <1>4, ConfigureFacts DEF Progress
    <2>2. /\ tried'[p] = {} /\ good'[p] = {}
          /\ at'[p] \in {"pushing", "ended"}
          /\ work'[p] = Jobs(entries'[p], change[p])
          /\ at'[p] = "pushing" => work'[p] # {}
      BY <1>4, <2>1, ConfigureFacts
    <2>3. Jobs(<<>>, change[p]) = {}
      BY DEF Jobs
    <2>4. /\ ConfigCommit(p) # Gone => entries'[p] = ConfigOf[ConfigCommit(p)] /\ status'[p] = 0
          /\ ConfigCommit(p) = Gone => entries'[p] = <<>> /\ status'[p] = 3
      BY <1>4, ConfigureFacts
    <2> QED
      BY <1>1, <1>2, <2>2, <2>3, <2>4 DEF Progress
  <1>5. CASE Try(p) \/ TryFails(p)
    <2>1. PICK job \in work[p] : Made(p, job)
      BY <1>5, MadeFacts
    <2>2. /\ at[p] = "pushing" /\ at'[p] = "pushing" /\ entries' = entries
          /\ work'[p] \cup tried'[p] = work[p] \cup tried[p]
          /\ status[p] # 3 /\ status'[p] # 3
      BY <2>1 DEF Made, Progress
    <2>3. status'[p] = 0 <=> good'[p] = tried'[p]
      <3>1. status[p] = 0 <=> good[p] = tried[p]
        BY <2>2 DEF Progress
      <3>2. job \notin tried[p] /\ job \notin good[p] /\ tried'[p] = tried[p] \cup {job}
        BY <1>3, <2>1 DEF Made
      <3> QED
        BY <1>3, <2>1, <3>1, <3>2 DEF Made
    <2> QED
      BY <1>1, <1>2, <2>2, <2>3 DEF Progress
  <1>6. CASE Exit(p)
    <2>1. /\ at[p] = "pushing" /\ at'[p] = "ended"
          /\ UNCHANGED <<entries, work, tried, good, status>>
      BY <1>6 DEF Exit, TypeOK
    <2> QED
      BY <1>1, <1>2, <2>1 DEF Progress
  <1>7. CASE Killed(p)
    <2>1. at'[p] = "killed"
      BY <1>7 DEF Killed, TypeOK
    <2> QED
      BY <2>1 DEF Progress
  <1> QED
    BY <1>4, <1>5, <1>6, <1>7 DEF Process

\* What a process does to a mirror: it takes one of its changes there, if the
\* mirror accepts it.
LEMMA ProcessRemote ==
  ASSUME TypeOK, NEW p \in Pushes, Process(p)
  PROVE  \/ remote' = remote
         \/ \E job \in work[p] : Made(p, job) /\ Accepted(p, job) /\ Taken(p, job)
  <1>1. CASE Try(p) \/ TryFails(p)
    BY <1>1, MadeFacts DEF Made
  <1>2. CASE Configure(p) \/ Exit(p) \/ Killed(p)
    BY <1>2 DEF Configure, Exit, Killed
  <1> QED
    BY <1>1, <1>2 DEF Process

\* The values at the mirrors after a push to one of them.
LEMMA TakenFacts ==
  ASSUME TypeOK, NEW p \in Pushes, NEW job \in work[p], Taken(p, job),
         NEW m \in Mirrors, NEW r \in Refs
  PROVE  remote'[m][r] = IF Targets(p, job, m, r) THEN New(p, job) ELSE remote[m][r]
  <1>1. Mirror(p, job) \in Mirrors /\ Ref(p, job) \in Refs
    BY JobOf
  <1> QED
    BY <1>1 DEF TypeOK, Taken, Targets

LEMMA ProcessPushed ==
  ASSUME TypeOK, OnlyWhatWasPushed, NEW p \in Pushes, Process(p)
  PROVE  OnlyWhatWasPushed'
  <1>1. change' = change
    BY ProcessAlone DEF Alone
  <1>2. CASE remote' = remote
    BY <1>1, <1>2 DEF OnlyWhatWasPushed
  <1>3. ASSUME NEW job \in work[p], Taken(p, job)
        PROVE  OnlyWhatWasPushed'
    <2> SUFFICES ASSUME NEW m \in Mirrors, NEW r \in Refs, remote'[m][r] # Gone
                 PROVE  /\ m \in Valid
                        /\ \E q \in Pushes : \E i \in DOMAIN change[q] :
                             change[q][i] = [ref |-> r, new |-> remote'[m][r]]
      BY <1>1 DEF OnlyWhatWasPushed
    <2>1. CASE Targets(p, job, m, r)
      <3>1. remote'[m][r] = New(p, job)
        BY <1>3, <2>1, TakenFacts
      <3> QED
        BY <2>1, <3>1, JobOf DEF Targets
    <2>2. CASE ~Targets(p, job, m, r)
      <3>1. remote'[m][r] = remote[m][r]
        BY <1>3, <2>2, TakenFacts
      <3> QED
        BY <3>1 DEF OnlyWhatWasPushed
    <2> QED
      BY <2>1, <2>2
  <1> QED
    BY <1>2, <1>3, ProcessRemote

\* The change of a branch by the push that owns it is its value at the server.
LEMMA OwnValue ==
  ASSUME TypeOK, NEW r \in Refs, Owned(r), NEW p \in Pushes, Once(p), owner[r] = p,
         NEW job \in work[p] \cup tried[p], Ref(p, job) = r
  PROVE  New(p, job) = server[r]
  <1>1. p # 0
    BY DEF Pushes
  <1>2. PICK i \in DOMAIN change[p] : change[p][i] = [ref |-> r, new |-> server[r]]
    BY <1>1 DEF Owned
  <1>3. job[2] \in DOMAIN change[p] /\ change[p][job[2]].ref = change[p][i].ref
    <2>1. change[p][job[2]] = [ref |-> Ref(p, job), new |-> New(p, job)]
      BY JobOf
    <2> QED
      BY <1>2, <2>1, JobOf
  <1>4. job[2] = i
    BY <1>2, <1>3 DEF Once
  <1> QED
    BY <1>2, <1>4 DEF New

\* A mirror that has the last push of a linear branch refuses what is older.
LEMMA ProcessArrived ==
  ASSUME IInv, NEW p \in Pushes, Process(p), NEW m \in Mirrors, NEW r \in linear
  PROVE  Arrived(m, r)'
  <1> USE DEF IInv
  <1>1. /\ change' = change /\ server' = server /\ owner' = owner
        /\ \A q \in Pushes \ {p} : good'[q] = good[q] /\ entries'[q] = entries[q]
        /\ r \in Refs /\ owner[r] \in 0..pushed
    BY ProcessAlone DEF Alone, TypeOK
  <1> SUFFICES ASSUME owner[r] # 0, NEW job \in good'[owner[r]],
                      Targets(owner[r], job, m, r)'
               PROVE  remote'[m][r] = server[r]
    BY <1>1 DEF Arrived
  <1> DEFINE o == owner[r]
  <1>2. o \in Pushes
    BY <1>1, BoundsAssumption DEF TypeOK, Pushes
  <1>3. good[o] \subseteq tried[o]
    BY <1>2 DEF TypeOK
  <1>4. CASE Configure(p) \/ Exit(p) \/ Killed(p)
    <2>1. remote' = remote /\ good' = good
      BY <1>4 DEF Configure, Exit, Killed
    <2>2. entries'[o] = entries[o]
      <3>1. CASE p # o
        BY <1>1, <1>2, <3>1
      <3>2. CASE p = o
        <4>1. at[p] # "started"
          BY <1>2, <1>3, <2>1, <3>2 DEF Progress
        <4>2. ~Configure(p)
          BY <4>1 DEF Configure
        <4> QED
          BY <1>4, <4>2 DEF Exit, Killed
      <3> QED
        BY <3>1, <3>2
    <2>3. Targets(o, job, m, r)
      BY <1>1, <2>2 DEF Targets, Mirror, Ref
    <2> QED
      BY <2>1, <2>3 DEF Arrived
  <1>5. CASE Try(p) \/ TryFails(p)
    <2>1. PICK j \in work[p] : Made(p, j)
      BY <1>5, MadeFacts
    <2>2. Targets(o, job, m, r)
      BY <1>1, <2>1 DEF Made, Targets, Mirror, Ref
    <2>3. CASE job \in good[o]
      <3>1. remote[m][r] = server[r]
        BY <2>2, <2>3 DEF Arrived
      <3>2. CASE remote' = remote
        BY <3>1, <3>2
      <3>3. CASE Accepted(p, j) /\ Taken(p, j)
        <4>1. CASE ~Targets(p, j, m, r)
          BY <1>1, <3>1, <3>3, <4>1, TakenFacts
        <4>2. CASE Targets(p, j, m, r)
          <5>1. /\ remote'[m][r] = New(p, j) /\ Accepts(m, r, New(p, j))
                /\ New(p, j) \in Values /\ server[r] \in Values
                /\ j[2] \in DOMAIN change[p] /\ change[p][j[2]].ref = r
                /\ change[p][j[2]].new = New(p, j)
            <6>1. remote'[m][r] = New(p, j)
              BY <1>1, <3>3, <4>2, TakenFacts
            <6>2. Accepts(m, r, New(p, j))
              BY <3>3, <4>2 DEF Accepted, Targets
            <6>3. /\ New(p, j) \in Values /\ j[2] \in DOMAIN change[p]
                  /\ change[p][j[2]] = [ref |-> Ref(p, j), new |-> New(p, j)]
              BY JobOf
            <6>4. server[r] \in Values
              BY <1>1 DEF TypeOK
            <6> QED
              BY <4>2, <6>1, <6>2, <6>3, <6>4 DEF Targets
          <5>2. New(p, j) # Gone /\ Forward(New(p, j), server[r])
            BY <5>1 DEF Lineage
          <5>3. Forward(server[r], New(p, j))
            BY <3>1, <5>1, <5>2 DEF Accepts
          <5> QED
            BY <5>1, <5>2, <5>3, ForwardOnce
        <4> QED
          BY <4>1, <4>2
      <3> QED
        BY <2>1, <3>2, <3>3 DEF Made
    <2>4. CASE job \notin good[o]
      <3>1. p = o /\ job = j /\ Taken(p, j)
        BY <1>1, <1>2, <2>1, <2>4 DEF Made
      <3>2. New(p, j) = server[r]
        BY <1>1, <2>2, <3>1, OwnValue DEF Targets
      <3> QED
        BY <1>1, <2>1, <2>2, <3>1, <3>2, TakenFacts
    <2> QED
      BY <2>3, <2>4
  <1> QED
    BY <1>4, <1>5 DEF Process

\* Where all is calm, only the last push works on a branch, and it is accepted.
LEMMA ProcessCalm ==
  ASSUME IInv, NEW p \in Pushes, Process(p), faults' = 0,
         NEW m \in Mirrors, NEW r \in Refs, <<m, r>> \in calm'
  PROVE  Calm(m, r)'
  <1> USE DEF IInv
  <1>1. /\ change' = change /\ server' = server /\ owner' = owner /\ faults = 0
        /\ <<m, r>> \in calm
        /\ \A q \in Pushes \ {p} : /\ at'[q] = at[q] /\ tried'[q] = tried[q]
                                   /\ entries'[q] = entries[q]
    BY ProcessAlone DEF Alone
  <1>2. Calm(m, r)
    BY <1>1
  <1>3. \A q \in Pushes : Deals(q, r)' <=> Deals(q, r)
    BY <1>1 DEF Deals, RefsOf
  <1>4. \A q \in Pushes \ {p} :
          /\ AtWork(q)' <=> AtWork(q)
          /\ \A job : Targets(q, job, m, r)' <=> Targets(q, job, m, r)
          /\ Jobs(entries[q], change[q])' = Jobs(entries[q], change[q])
    BY <1>1 DEF AtWork, Targets, Mirror, Ref
  <1>5. AtWork(p)
    BY DEF Process, Configure, Try, TryFails, Exit, Killed, AtWork
  <1>6. Deals(p, r) => owner[r] = p
    BY <1>2, <1>5 DEF Calm
  <1>7. CASE ~Deals(p, r)
    <2>1. remote'[m][r] = remote[m][r]
      <3>1. CASE remote' = remote
        BY <3>1
      <3>2. ASSUME NEW job \in work[p], Taken(p, job) PROVE remote'[m][r] = remote[m][r]
        <4>1. ~Targets(p, job, m, r)
          BY <1>7, JobOf DEF Targets
        <4> QED
          BY <3>2, <4>1, TakenFacts
      <3> QED
        BY <3>1, <3>2, ProcessRemote
    <2>2. Accepts(m, r, server[r])' <=> Accepts(m, r, server[r])
      BY <1>1, <2>1 DEF Accepts
    <2>3. (\A q \in Pushes : AtWork(q)' => ~Deals(q, r)')
          => (\A q \in Pushes : AtWork(q) => ~Deals(q, r))
      BY <1>3, <1>4, <1>7
    <2>4. \A q \in Pushes : AtWork(q)' /\ Deals(q, r)' => AtWork(q) /\ Deals(q, r) /\ q # p
      BY <1>3, <1>4, <1>7
    <2> QED
      BY <1>1, <1>2, <1>4, <2>1, <2>2, <2>3, <2>4 DEF Calm
  <1>8. CASE Deals(p, r)
    <2>0. \A q \in Pushes : AtWork(q)' /\ Deals(q, r)' => q = p
      BY <1>2, <1>3, <1>4, <1>6, <1>8 DEF Calm
    <2>1. CASE Configure(p)
      <3>1. /\ remote' = remote /\ tried' = tried /\ tried[p] = {}
            /\ work'[p] = Jobs(entries'[p], change[p])
            /\ at'[p] = IF work'[p] = {} THEN "ended" ELSE "pushing"
        BY <2>1, ConfigureFacts DEF Progress
      <3>2. PICK job \in work'[p] :
              <<m, r>> = <<entries'[p][job[1]].mirror, change[p][job[2]].ref>>
        BY <1>8, <2>1, ConfigureFacts DEF Deals
      <3>3. Targets(p, job, m, r)' /\ job \in Jobs(entries[p], change[p])'
        BY <1>1, <3>1, <3>2 DEF Targets, Mirror, Ref
      <3>4. AtWork(p)' /\ at'[p] = "pushing" /\ Deals(p, r)'
        BY <1>3, <1>8, <3>1, <3>2 DEF AtWork
      <3>5. Accepts(m, r, server[r])
        BY <1>2, <1>5, <1>8, <3>1 DEF Calm
      <3>6. Accepts(m, r, server[r])'
        BY <1>1, <3>1, <3>5 DEF Accepts
      <3> QED
        BY <1>1, <1>6, <1>8, <2>0, <3>1, <3>3, <3>4, <3>6 DEF Calm
    <2>2. CASE Try(p) \/ TryFails(p)
      <3>1. PICK job \in work[p] : Made(p, job)
        BY <2>2, MadeFacts
      <3>2. /\ at' = at /\ entries' = entries /\ tried'[p] = tried[p] \cup {job}
            /\ at[p] = "pushing"
            /\ Accepted(p, job) => Taken(p, job)
            /\ ~Accepted(p, job) => remote' = remote
        BY <3>1 DEF Made
      <3>3. /\ AtWork(p)' /\ Deals(p, r)'
            /\ \A j : Targets(p, j, m, r)' <=> Targets(p, j, m, r)
            /\ Jobs(entries[p], change[p])' = Jobs(entries[p], change[p])
        BY <1>1, <1>3, <1>5, <1>8, <3>2 DEF AtWork, Targets, Mirror, Ref
      <3>4. \E j \in Jobs(entries[p], change[p]) : Targets(p, j, m, r)
        BY <1>2, <1>5, <1>8, <3>2 DEF Calm
      <3>5. CASE Targets(p, job, m, r)
        <4>1. New(p, job) = server[r]
          BY <1>6, <1>8, <3>5, OwnValue DEF Targets
        <4>2. remote'[m][r] = server[r]
          <5>1. CASE Accepted(p, job)
            BY <3>2, <3>5, <4>1, <5>1, TakenFacts
          <5>2. CASE ~Accepted(p, job)
            <6>1. ~Accepts(m, r, server[r])
              BY <3>5, <4>1, <5>2 DEF Accepted, Targets
            <6>2. \E j \in tried[p] : Targets(p, j, m, r)
              BY <1>2, <1>5, <1>8, <6>1 DEF Calm
            <6> QED
              BY <1>2, <1>5, <1>8, <3>2, <5>2, <6>2 DEF Calm
          <5> QED
            BY <5>1, <5>2
        <4>3. \E j \in tried'[p] : Targets(p, j, m, r)'
          BY <3>2, <3>3, <3>5
        <4> QED
          BY <1>1, <1>6, <1>8, <2>0, <3>3, <3>4, <4>2, <4>3 DEF Calm
      <3>6. CASE ~Targets(p, job, m, r)
        <4>1. remote'[m][r] = remote[m][r]
          BY <3>2, <3>6, TakenFacts
        <4>2. (\E j \in tried'[p] : Targets(p, j, m, r)')
              <=> (\E j \in tried[p] : Targets(p, j, m, r))
          BY <3>2, <3>3, <3>6
        <4>3. Accepts(m, r, server[r])' <=> Accepts(m, r, server[r])
          BY <1>1, <4>1 DEF Accepts
        <4>4. /\ (\E j \in tried[p] : Targets(p, j, m, r)) => remote[m][r] = server[r]
              /\ (\A j \in tried[p] : ~Targets(p, j, m, r)) => Accepts(m, r, server[r])
          BY <1>2, <1>5, <1>8 DEF Calm
        <4> QED
          BY <1>1, <1>6, <1>8, <2>0, <3>3, <3>4, <4>1, <4>2, <4>3, <4>4 DEF Calm
      <3> QED
        BY <3>5, <3>6
    <2>3. CASE Exit(p)
      <3>1. /\ at[p] = "pushing" /\ work[p] = {} /\ at'[p] = "ended" /\ remote' = remote
        BY <2>3 DEF Exit, TypeOK
      <3>2. \E j \in Jobs(entries[p], change[p]) : Targets(p, j, m, r)
        BY <1>2, <1>5, <1>8, <3>1 DEF Calm
      <3>3. tried[p] = Jobs(entries[p], change[p])
        <4>1. work[p] \cup tried[p] = Jobs(entries[p], change[p])
          BY <3>1 DEF Progress
        <4> QED
          BY <3>1, <4>1
      <3>4. remote[m][r] = server[r]
        BY <1>2, <1>5, <1>8, <3>2, <3>3 DEF Calm
      <3>5. ~AtWork(p)'
        BY <3>1 DEF AtWork
      <3> QED
        BY <1>1, <2>0, <3>1, <3>4, <3>5 DEF Calm
    <2>4. ~Killed(p)
      BY <1>1 DEF Killed
    <2> QED
      BY <2>1, <2>2, <2>3, <2>4 DEF Process
  <1> QED
    BY <1>7, <1>8

LEMMA ProcessStep ==
  ASSUME IInv, NEW p \in Pushes, Process(p)
  PROVE  IInv'
  <1>1. Alone(p)
    BY ProcessAlone DEF IInv
  <1>2. change' = change /\ linear' = linear /\ server' = server /\ owner' = owner
    BY <1>1 DEF Alone
  <1>3. TypeOK' /\ OnlyWhatWasPushed'
    BY ProcessTypes, ProcessPushed DEF IInv
  <1>4. \A q \in Pushes : Once(q)' /\ Progress(q)'
    <2> TAKE q \in Pushes
    <2>1. Once(q)'
      BY <1>2 DEF IInv, Once
    <2>2. Progress(q)'
      <3>1. CASE q = p
        BY <3>1, ProcessProgress DEF IInv
      <3>2. CASE q # p
        BY <1>1, <1>2, <3>2, OthersProgress DEF IInv, Alone
      <3> QED
        BY <3>1, <3>2
    <2> QED
      BY <2>1, <2>2
  <1>5. \A r \in Refs : Owned(r)'
    BY <1>2 DEF IInv, Owned, Deals, RefsOf
  <1>6. \A r \in linear' : Lineage(r)'
    BY <1>2 DEF IInv, Lineage, Forward
  <1>7. \A m \in Mirrors, r \in linear' : Arrived(m, r)'
    BY <1>2, ProcessArrived
  <1>8. (faults = 0 => \A m \in Mirrors, r \in Refs : <<m, r>> \in calm => Calm(m, r))'
    BY ProcessCalm
  <1> QED
    BY <1>3, <1>4, <1>5, <1>6, <1>7, <1>8 DEF IInv

------------------------------------------------------------------------------
(***************************************************************************)
(* A push to the server.                                                   *)
(***************************************************************************)
Forced(r) == server'[r] # Gone /\ ~Forward(server[r], server'[r])
Busy(r) == \E q \in Pushes : AtWork(q) /\ Deals(q, r)

\* The branches a push changes are its own from then on.
LEMMA PushServer ==
  ASSUME TypeOK, NEW c \in Changes, Push(c)
  PROVE  /\ server' \in [Refs -> Values]
         /\ \A r \in RefsOf(c) :
              /\ server'[r] # server[r]
              /\ \E i \in DOMAIN c : c[i] = [ref |-> r, new |-> server'[r]]
         /\ \A r \in Refs \ RefsOf(c) : server'[r] = server[r]
         /\ \A i, j \in DOMAIN c : c[i].ref = c[j].ref => i = j
         /\ \A i \in DOMAIN c : c[i].new = server'[c[i].ref]
  <1> DEFINE pick(r) == CHOOSE i \in DOMAIN c : c[i].ref = r
  <1>1. /\ \A i, j \in DOMAIN c : c[i].ref = c[j].ref => i = j
        /\ \A i \in DOMAIN c : c[i].new # server[c[i].ref]
        /\ server' = [r \in Refs |-> IF r \in RefsOf(c) THEN c[pick(r)].new ELSE server[r]]
    BY DEF Push
  <1>2. \A r \in RefsOf(c) : pick(r) \in DOMAIN c /\ c[pick(r)].ref = r
    BY DEF RefsOf
  <1>3. \A i \in DOMAIN c : c[i].ref \in RefsOf(c) /\ pick(c[i].ref) = i
    <2> TAKE i \in DOMAIN c
    <2>1. c[i].ref \in RefsOf(c)
      BY DEF RefsOf
    <2> QED
      BY <1>1, <1>2, <2>1
  <1> HIDE DEF pick
  <1>4. /\ \A i \in DOMAIN c : c[i] \in [ref : Refs, new : Values]
        /\ RefsOf(c) \subseteq Refs
    BY ChangeType
  <1>5. \A r \in RefsOf(c) : /\ server'[r] = c[pick(r)].new
                             /\ c[pick(r)] = [ref |-> r, new |-> server'[r]]
    BY <1>1, <1>2, <1>4
  <1>6. \A r \in Refs : server'[r] \in Values
    BY <1>1, <1>2, <1>4 DEF TypeOK
  <1>7. \A r \in RefsOf(c) : server'[r] # server[r]
    <2> TAKE r \in RefsOf(c)
    <2>1. pick(r) \in DOMAIN c /\ c[pick(r)].ref = r
      BY <1>2
    <2>2. c[pick(r)].new # server[r]
      BY <1>1, <2>1
    <2> QED
      BY <1>5, <2>2
  <1>8. \A i \in DOMAIN c : c[i].new = server'[c[i].ref]
    BY <1>3, <1>5
  <1> QED
    BY <1>1, <1>2, <1>5, <1>6, <1>7, <1>8

LEMMA PushFacts ==
  ASSUME TypeOK, NEW c \in Changes, Push(c), NEW p, p = pushed + 1
  PROVE  /\ p \in Pushes /\ change[p] = <<>> /\ at[p] = "none"
         /\ work[p] = {} /\ tried[p] = {} /\ good[p] = {}
         /\ pushed' = p /\ changed' \in 0..MaxChanges
         /\ change' \in [Pushes -> Changes \cup {<<>>}] /\ change'[p] = c
         /\ at' \in [Pushes -> {"none", "started", "pushing", "ended", "killed"}]
         /\ at'[p] = "started"
         /\ \A q \in Pushes \ {p} : change'[q] = change[q] /\ at'[q] = at[q]
         /\ owner' = [r \in Refs |-> IF r \in RefsOf(c) THEN p ELSE owner[r]]
         /\ UNCHANGED <<remote, entries, work, status, tried, good, faults>>
         /\ linear' \subseteq linear /\ calm' \subseteq calm
         /\ \A r \in linear' : r \in Refs => ~Forced(r) /\ (server[r] # Gone => server'[r] # Gone)
         /\ \A x \in calm' : x[2] \in Refs =>
              ~Forced(x[2]) /\ ~(x[2] \in RefsOf(c) /\ Busy(x[2]))
  <1>1. /\ pushed < MaxPushes /\ changed + Len(c) <= MaxChanges
        /\ pushed' = p /\ changed' = changed + Len(c)
        /\ change' = [change EXCEPT ![p] = c]
        /\ at' = [at EXCEPT ![p] = "started"]
        /\ owner' = [r \in Refs |-> IF r \in RefsOf(c) THEN p ELSE owner[r]]
        /\ UNCHANGED <<remote, entries, work, status, tried, good, faults>>
    BY DEF Push
  <1>2. p \in Pushes /\ p > pushed
    BY <1>1, BoundsAssumption DEF TypeOK, Pushes
  <1>3. /\ change[p] = <<>> /\ at[p] = "none"
    BY <1>2 DEF TypeOK
  <1>4. Jobs(entries[p], change[p]) = {}
    BY <1>3 DEF Jobs
  <1>5. work[p] = {} /\ tried[p] = {} /\ good[p] = {}
    BY <1>2, <1>4 DEF TypeOK
  <1>6. changed' \in 0..MaxChanges
    BY <1>1, ChangeType, BoundsAssumption DEF TypeOK
  <1>7. /\ change' \in [Pushes -> Changes \cup {<<>>}] /\ change'[p] = c
        /\ at' \in [Pushes -> {"none", "started", "pushing", "ended", "killed"}]
        /\ at'[p] = "started"
        /\ \A q \in Pushes \ {p} : change'[q] = change[q] /\ at'[q] = at[q]
    BY <1>1, <1>2 DEF TypeOK
  <1>8. /\ linear' \subseteq linear /\ calm' \subseteq calm
        /\ \A r \in linear' : r \in Refs => ~Forced(r) /\ (server[r] # Gone => server'[r] # Gone)
        /\ \A x \in calm' : x[2] \in Refs =>
             ~Forced(x[2]) /\ ~(x[2] \in RefsOf(c) /\ Busy(x[2]))
    <2> DEFINE forced == {r \in Refs : server'[r] # Gone /\ ~Forward(server[r], server'[r])}
               busy == UNION {RefsOf(change[q]) : q \in {x \in Pushes : AtWork(x)}}
    <2>1. /\ linear' = {r \in linear : r \notin forced /\ (server[r] # Gone => server'[r] # Gone)}
          /\ calm' = {x \in calm : x[2] \notin forced \cup (RefsOf(c) \cap busy)}
      BY DEF Push
    <2>2. \A r \in Refs : Forced(r) => r \in forced
      BY DEF Forced
    <2>3. \A r : Busy(r) => r \in busy
      BY DEF Busy, Deals
    <2> HIDE DEF forced, busy
    <2> QED
      BY <2>1, <2>2, <2>3
  <1> QED
    BY <1>1, <1>2, <1>3, <1>5, <1>6, <1>7, <1>8

LEMMA PushStep ==
  ASSUME IInv, NEW c \in Changes, Push(c)
  PROVE  IInv'
  <1> USE DEF IInv
  <1>0. PICK p : p = pushed + 1
    OBVIOUS
  <1>1. /\ p \in Pushes /\ change[p] = <<>> /\ at[p] = "none"
        /\ work[p] = {} /\ tried[p] = {} /\ good[p] = {}
        /\ pushed' = p /\ changed' \in 0..MaxChanges
        /\ change' \in [Pushes -> Changes \cup {<<>>}] /\ change'[p] = c
        /\ at' \in [Pushes -> {"none", "started", "pushing", "ended", "killed"}]
        /\ at'[p] = "started"
        /\ \A q \in Pushes \ {p} : change'[q] = change[q] /\ at'[q] = at[q]
        /\ owner' = [r \in Refs |-> IF r \in RefsOf(c) THEN p ELSE owner[r]]
        /\ UNCHANGED <<remote, entries, work, status, tried, good, faults>>
        /\ linear' \subseteq linear /\ calm' \subseteq calm
        /\ \A r \in linear' : r \in Refs => ~Forced(r) /\ (server[r] # Gone => server'[r] # Gone)
        /\ \A x \in calm' : x[2] \in Refs =>
             ~Forced(x[2]) /\ ~(x[2] \in RefsOf(c) /\ Busy(x[2]))
    BY <1>0, PushFacts
  <1>2. /\ server' \in [Refs -> Values]
        /\ \A r \in RefsOf(c) :
             /\ server'[r] # server[r]
             /\ \E i \in DOMAIN c : c[i] = [ref |-> r, new |-> server'[r]]
        /\ \A r \in Refs \ RefsOf(c) : server'[r] = server[r]
        /\ \A i, j \in DOMAIN c : c[i].ref = c[j].ref => i = j
        /\ \A i \in DOMAIN c : c[i].new = server'[c[i].ref]
    BY PushServer
  <1>3. /\ \A r : Deals(p, r)' <=> r \in RefsOf(c)
        /\ \A q \in Pushes \ {p} : \A r : Deals(q, r)' <=> Deals(q, r)
        /\ \A r : ~Deals(p, r)
    BY <1>1 DEF Deals, RefsOf
  <1>4. p # 0 /\ pushed \in Nat /\ pushed \in 0..MaxPushes /\ RefsOf(c) \subseteq Refs
    BY <1>1, ChangeType DEF TypeOK, Pushes
  <1>5. TypeOK'
    <2>1. pushed' \in 0..MaxPushes
      BY <1>1, BoundsAssumption DEF Pushes
    <2>2. owner' \in [Refs -> 0..pushed']
      <3>1. \A r \in Refs : owner[r] \in 0..p /\ p \in 0..p
        BY <1>0, <1>4 DEF TypeOK
      <3> QED
        BY <1>1, <3>1
    <2>3. \A q \in Pushes :
            /\ at'[q] = "none" <=> q > pushed'
            /\ change'[q] = <<>> <=> q > pushed'
      <3> TAKE q \in Pushes
      <3>1. CASE q = p
        <4>1. ~(p > p) /\ c # <<>>
          BY <1>1, ChangeType DEF Pushes
        <4> QED
          BY <1>1, <3>1, <4>1
      <3>2. CASE q # p
        <4>1. q > pushed <=> q > p
          BY <1>0, <1>4, <3>2 DEF Pushes
        <4> QED
          BY <1>1, <3>2, <4>1 DEF TypeOK
      <3> QED
        BY <3>1, <3>2
    <2>4. \A q \in Pushes :
            /\ work'[q] \cup tried'[q] \subseteq Jobs(entries'[q], change'[q])
            /\ work'[q] \cap tried'[q] = {} /\ good'[q] \subseteq tried'[q]
            /\ work'[q] # {} => at'[q] = "pushing"
      BY <1>1 DEF TypeOK
    <2> QED
      BY <1>1, <1>2, <2>1, <2>2, <2>3, <2>4 DEF TypeOK
  <1>6. \A q \in Pushes : Once(q)' /\ Progress(q)'
    <2> TAKE q \in Pushes
    <2>1. CASE q = p
      <3>1. Once(q)'
        BY <1>1, <1>2, <2>1 DEF Once
      <3>2. Progress(q)'
        BY <1>1, <2>1 DEF Progress
      <3> QED
        BY <3>1, <3>2
    <2>2. CASE q # p
      <3>1. Once(q)'
        BY <1>1, <2>2 DEF Once
      <3> QED
        BY <1>1, <2>2, <3>1, OthersProgress
    <2> QED
      BY <2>1, <2>2
  <1>7. OnlyWhatWasPushed'
    <2>1. ASSUME NEW q \in Pushes, NEW i \in DOMAIN change[q]
          PROVE  i \in DOMAIN change'[q] /\ change'[q][i] = change[q][i]
      BY <1>1
    <2> QED
      BY <1>1, <2>1 DEF OnlyWhatWasPushed
  <1>8. \A r \in Refs : Owned(r)'
    <2> TAKE r \in Refs
    <2>1. CASE r \in RefsOf(c)
      BY <1>1, <1>2, <1>4, <2>1 DEF Owned
    <2>2. CASE r \notin RefsOf(c)
      <3>1. /\ owner'[r] = owner[r] /\ server'[r] = server[r]
            /\ \A q \in Pushes : Deals(q, r)' => Deals(q, r)
        BY <1>1, <1>2, <1>3, <2>2
      <3>2. owner[r] # 0 => owner[r] \in Pushes \ {p}
        BY <1>0, <1>4, BoundsAssumption DEF TypeOK, Pushes
      <3> QED
        BY <1>1, <3>1, <3>2 DEF Owned
    <2> QED
      BY <2>1, <2>2
  <1>9. \A r \in linear' : Lineage(r)'
    <2> SUFFICES ASSUME NEW r \in linear', NEW q \in Pushes, NEW i \in DOMAIN change'[q],
                        change'[q][i].ref = r
                 PROVE  /\ change'[q][i].new # Gone
                        /\ Forward(change'[q][i].new, server'[r])
      BY DEF Lineage, Forward
    <2>1. r \in Refs /\ r \in linear /\ Lineage(r)
      BY <1>1 DEF TypeOK
    <2>2. server[r] # Gone => server'[r] # Gone
      BY <1>1, <2>1
    <2>3. CASE q = p
      <3>1. change'[q][i].new = server'[r] /\ r \in RefsOf(c)
        BY <1>1, <1>2, <2>3 DEF RefsOf
      <3>2. server'[r] # Gone
        BY <1>2, <2>2, <3>1
      <3> QED
        BY <3>1, <3>2 DEF Forward
    <2>4. CASE q # p
      <3>1. /\ i \in DOMAIN change[q] /\ change[q][i].ref = r
            /\ change'[q][i].new = change[q][i].new
        BY <1>1, <2>4
      <3>2. /\ change[q][i].new # Gone /\ Forward(change[q][i].new, server[r])
            /\ change[q][i].new \in Values /\ server[r] \in Values /\ server'[r] \in Values
        BY <1>2, <2>1, <3>1, ChangesOf DEF Lineage, TypeOK
      <3>3. Forward(server[r], server'[r])
        <4>1. server[r] # Gone
          BY <3>2 DEF Forward
        <4> QED
          BY <1>1, <2>1, <2>2, <4>1 DEF Forced
      <3> QED
        BY <3>1, <3>2, <3>3, ForwardTransitive
    <2> QED
      BY <2>3, <2>4
  <1>10. \A m \in Mirrors, r \in linear' : Arrived(m, r)'
    <2> TAKE m \in Mirrors, r \in linear'
    <2>1. r \in Refs /\ r \in linear /\ Arrived(m, r)
      BY <1>1 DEF TypeOK
    <2>2. CASE r \in RefsOf(c)
      BY <1>1, <2>1, <2>2 DEF Arrived
    <2>3. CASE r \notin RefsOf(c)
      <3>1. owner'[r] = owner[r] /\ server'[r] = server[r] /\ remote' = remote
        BY <1>1, <1>2, <2>1, <2>3
      <3>2. owner[r] # 0 => owner[r] \in Pushes \ {p}
        BY <1>0, <1>4, <2>1, BoundsAssumption DEF TypeOK, Pushes
      <3>3. owner[r] # 0 => change'[owner[r]] = change[owner[r]]
        BY <1>1, <3>2
      <3> QED
        BY <1>1, <2>1, <3>1, <3>3 DEF Arrived, Targets, Mirror, Ref
    <2> QED
      BY <2>2, <2>3
  <1>11. (faults = 0 => \A m \in Mirrors, r \in Refs : <<m, r>> \in calm => Calm(m, r))'
    <2> SUFFICES ASSUME faults = 0, NEW m \in Mirrors, NEW r \in Refs, <<m, r>> \in calm'
                 PROVE  Calm(m, r)'
      BY <1>1
    <2>1. Calm(m, r) /\ ~Forced(r) /\ ~(r \in RefsOf(c) /\ Busy(r))
      BY <1>1
    <2>2. /\ AtWork(p)' /\ at'[p] = "started" /\ tried'[p] = {}
          /\ \A q \in Pushes \ {p} :
               /\ AtWork(q)' <=> AtWork(q)
               /\ \A job : Targets(q, job, m, r)' <=> Targets(q, job, m, r)
               /\ Jobs(entries[q], change[q])' = Jobs(entries[q], change[q])
          /\ ~AtWork(p)
      BY <1>1 DEF AtWork, Targets, Mirror, Ref
    <2>3. CASE r \in RefsOf(c)
      <3>1. \A q \in Pushes : AtWork(q) => ~Deals(q, r)
        BY <2>1, <2>3 DEF Busy
      <3>2. remote[m][r] = server[r]
        BY <2>1, <3>1 DEF Calm
      <3>3. Accepts(m, r, server[r])'
        BY <1>1, <1>2, <2>1, <2>3, <3>2 DEF Accepts, Forced, Forward
      <3>4. \A q \in Pushes : AtWork(q)' /\ Deals(q, r)' => q = p
        BY <1>3, <2>2, <3>1
      <3> QED
        BY <1>1, <1>3, <2>2, <2>3, <3>3, <3>4 DEF Calm
    <2>4. CASE r \notin RefsOf(c)
      <3>1. owner'[r] = owner[r] /\ server'[r] = server[r] /\ remote' = remote
        BY <1>1, <1>2, <2>4
      <3>2. Accepts(m, r, server[r])' <=> Accepts(m, r, server[r])
        BY <3>1 DEF Accepts
      <3>3. \A q \in Pushes : (AtWork(q)' /\ Deals(q, r)') <=> (AtWork(q) /\ Deals(q, r))
        BY <1>3, <2>2, <2>4
      <3>4. \A q \in Pushes : (AtWork(q)' /\ Deals(q, r)') => q # p
        BY <1>3, <2>4
      <3> QED
        BY <1>1, <2>1, <2>2, <3>1, <3>2, <3>3, <3>4 DEF Calm
    <2> QED
      BY <2>3, <2>4
  <1> QED
    BY <1>5, <1>6, <1>7, <1>8, <1>9, <1>10, <1>11

LEMMA StutterStep == IInv /\ UNCHANGED vars => IInv'
  <1> SUFFICES ASSUME IInv, UNCHANGED vars PROVE IInv'
    OBVIOUS
  <1> USE DEF IInv
  <1>1. UNCHANGED <<server, remote, pushed, changed, change, at, entries, work, status, tried,
                    good, faults, owner, linear, calm>>
    BY DEF vars, processes, history
  <1>2. TypeOK' /\ OnlyWhatWasPushed'
    BY <1>1 DEF TypeOK, OnlyWhatWasPushed
  <1>3. \A p \in Pushes : Once(p)' /\ Progress(p)'
    BY <1>1, OthersProgress DEF Once
  <1>4. \A r \in Refs : Owned(r)'
    BY <1>1 DEF Owned, Deals, RefsOf
  <1>5. \A r \in linear' : Lineage(r)'
    BY <1>1 DEF Lineage, Forward
  <1>6. \A m \in Mirrors, r \in linear' : Arrived(m, r)'
    BY <1>1 DEF Arrived, Targets, Mirror, Ref
  <1>7. \A p \in Pushes : \A m, r :
          /\ AtWork(p)' = AtWork(p) /\ Deals(p, r)' = Deals(p, r)
          /\ \A job : Targets(p, job, m, r)' = Targets(p, job, m, r)
          /\ Accepts(m, r, server[r])' = Accepts(m, r, server[r])
          /\ Jobs(entries[p], change[p])' = Jobs(entries[p], change[p])
    BY <1>1 DEF AtWork, Deals, RefsOf, Targets, Mirror, Ref, Accepts
  <1>8. \A m \in Mirrors, r \in Refs : Calm(m, r) => Calm(m, r)'
    BY <1>1, <1>7 DEF Calm
  <1> QED
    BY <1>1, <1>2, <1>3, <1>4, <1>5, <1>6, <1>8

\* Whatever is pushed, and however the processes overtake one another and fail,
\* the invariant holds.
THEOREM Inductive == Spec => []IInv
  <1>1. IInv /\ [Next]_vars => IInv'
    BY PushStep, ProcessStep, StutterStep DEF Next
  <1> QED
    BY <1>1, Initially, PTL DEF Spec

\* The variables have their types, and no push to a mirror is made twice.
THEOREM TypeCorrect == Spec => []TypeOK
  BY Inductive, PTL DEF IInv

\* A mirror has a branch only where some push has put it, and only if its url is
\* valid.
THEOREM MirrorsArePushed == Spec => []OnlyWhatWasPushed
  BY Inductive, PTL DEF IInv

\* A process that ends has tried all that the commit pushed declares, whatever
\* has failed, and its exit status tells whether something has.
THEOREM FailuresIsolated == Spec => []FailureIsIsolated
  <1>1. IInv => FailureIsIsolated
    <2> SUFFICES ASSUME IInv, NEW p \in Pushes, at[p] = "ended", status[p] # 3
                 PROVE  /\ Kept(p) # {} => tried[p] = Jobs(ConfigOf[ConfigCommit(p)], change[p])
                        /\ status[p] = 0 <=> good[p] = tried[p]
      BY DEF FailureIsIsolated
    <2>1. Progress(p) /\ work[p] = {}
      BY DEF IInv, TypeOK
    <2>2. work[p] \cup tried[p] = tried[p]
      BY <2>1
    <2> QED
      BY <2>1, <2>2 DEF Progress
  <1> QED
    BY <1>1, Inductive, PTL

\* The mirrors converge: a branch that was only moved forward as soon as its last
\* push has arrived, any branch once calm processes have ended without a fault.
THEOREM MirrorsConverge == Spec => []Converges
  <1>1. IInv => Converges
    <2> SUFFICES ASSUME IInv, NEW m \in Valid, NEW r \in Refs
                 PROVE  /\ r \in linear /\ owner[r] # 0 =>
                             \A job \in good[owner[r]] :
                               Mirror(owner[r], job) = m /\ Ref(owner[r], job) = r
                                 => remote[m][r] = server[r]
                        /\ <<m, r>> \in calm /\ faults = 0 /\ (\A p \in Pushes : ~AtWork(p))
                             => remote[m][r] = server[r]
      BY DEF Converges
    <2>1. m \in Mirrors
      BY MirrorsAssumption
    <2> QED
      BY <2>1 DEF IInv, Arrived, Targets, Calm
  <1> QED
    BY <1>1, Inductive, PTL

\* No step takes a linear branch of a mirror back.
THEOREM MirrorsNeverGoBack == Spec => NeverBack
  <1> DEFINE Ahead == \A m \in Mirrors, r \in linear' :
               remote[m][r] # remote'[m][r] => Forward(remote[m][r], remote'[m][r])
  <1>1. IInv /\ [Next]_vars => Ahead
    <2> SUFFICES ASSUME IInv, [Next]_vars, NEW m \in Mirrors, NEW r \in linear',
                        remote[m][r] # remote'[m][r]
                 PROVE  Forward(remote[m][r], remote'[m][r])
      OBVIOUS
    <2>1. PICK p \in Pushes : Process(p)
      BY DEF Next, Push, vars
    <2>2. r \in linear /\ r \in Refs
      BY <2>1, ProcessAlone DEF IInv, Alone, TypeOK
    <2>3. PICK job \in work[p] : Accepted(p, job) /\ Taken(p, job)
      BY <2>1, ProcessRemote DEF IInv
    <2>4. Targets(p, job, m, r) /\ remote'[m][r] = New(p, job)
      BY <2>2, <2>3, TakenFacts DEF IInv
    <2>5. New(p, job) # Gone
      <3>1. /\ job[2] \in DOMAIN change[p]
            /\ change[p][job[2]] = [ref |-> r, new |-> New(p, job)]
        BY <2>4, JobOf DEF IInv, Targets
      <3> QED
        BY <2>2, <3>1 DEF IInv, Lineage
    <2> QED
      BY <2>3, <2>4, <2>5 DEF Accepted, Accepts, Targets
  <1>2. [][Ahead]_vars <=> NeverBack
    BY PTL DEF NeverBack
  <1> QED
    BY <1>1, <1>2, Inductive, PTL DEF Spec

=============================================================================
