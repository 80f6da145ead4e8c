-------------------------- MODULE TaskRunner_proofs --------------------------
(***************************************************************************)
(* Proofs about TaskRunner for any background processes, sizes, amounts of *)
(* output and failing calls.                                               *)
(***************************************************************************)
EXTENDS TaskRunner, TLAPS

\* Every unit written is in the pipe, with the reader, in the log or above the
\* limit; nothing is above it before the log is full.  A reader that has ended
\* without an error has seen the end of the output.
Accounts ==
  /\ logged + dropped + chunk + unread = output
  /\ logged <= Limit
  /\ dropped = 0 \/ logged = Limit
  /\ reader \in {"none", "reading"} => chunk = 0
  /\ reader = "ended" /\ ~error => ~Held /\ unread = 0 /\ chunk = 0

\* What the main thread has learned where it is.
Stages ==
  /\ main = "start" => shell = "none" /\ reader = "none"
  /\ main \in {"waiting", "grace"} => shell # "none"
  /\ main \in {"start", "waiting"} => ~timedOut /\ status \in {0, 1}
  /\ main \in {"joining", "closing", "rejoining"} /\ ~timedOut =>
       shell = "exited" /\ code = status
  /\ main = "rejoining" => closed
  /\ main \in {"finishing", "done", "raised"} /\ code = 0 =>
       /\ shell = "exited" /\ status = 0 /\ ~timedOut
       /\ closed \/ (reader = "ended" /\ ~error)

\* SIGTERM has spared only who ignores it and what a shell that ignores it has
\* started since; SIGKILL has spared nobody in the group.
Signals ==
  /\ alive \cap unborn = {}
  /\ status = 137 => Over /\ timedOut
  /\ main = "grace" =>
       /\ timedOut
       /\ shell = "running" => stubborn
       /\ \A k \in alive : trait[k].group => trait[k].stubborn \/ stubborn
  /\ TimeoutEndsGroup

IInv == TypeOK /\ Accounts /\ Stages /\ Signals

------------------------------------------------------------------------------
\* What of a chunk fits into the log.
LEMMA MinOfTwo ==
  ASSUME NEW a \in Nat, NEW b \in Nat
  PROVE  /\ Min({a, b}) \in Nat
         /\ Min({a, b}) <= a /\ Min({a, b}) <= b
         /\ Min({a, b}) = a \/ Min({a, b}) = b
  <1>1. \E x \in {a, b} : \A y \in {a, b} : x <= y
    <2>1. CASE a <= b
      BY <2>1
    <2>2. CASE b <= a
      BY <2>2
    <2> QED
      BY <2>1, <2>2
  <1> QED
    BY <1>1 DEF Min

LEMMA InitInv == Init => IInv
  <1> SUFFICES ASSUME Init PROVE IInv
    OBVIOUS
  <1>1. TypeOK
    <2>1. /\ trait \in [Kids -> Traits]
          /\ alive \subseteq Kids /\ unborn \subseteq Kids
      BY DEF Init, Traits
    <2>2. {error, closed, timedOut} \subseteq BOOLEAN /\ stubborn \in BOOLEAN
      BY DEF Init
    <2>3. {unread, output, chunk, logged, dropped, faults} \subseteq Nat
      BY DEF Init
    <2> QED
      BY <2>1, <2>2, <2>3 DEF Init, TypeOK
  <1>2. Accounts /\ Stages /\ Signals
    BY SizesAssumption DEF Init, Accounts, Stages, Signals, TimeoutEndsGroup, Over
  <1> QED
    BY <1>1, <1>2 DEF IInv

\* WriteLog: the chunk is divided between the log and what is dropped.
LEMMA WriteLogFacts ==
  ASSUME TypeOK, Accounts, WriteLog
  PROVE  /\ logged' \in Nat /\ dropped' \in Nat
         /\ logged' + dropped' = logged + dropped + chunk
         /\ logged' <= Limit
         /\ dropped' = 0 \/ logged' = Limit
         /\ chunk' = 0 /\ reader' \in {"reading", "ended"}
         /\ reader' = "ended" => error'
         /\ error' \in {error, TRUE}
  <1> DEFINE fits == Min({chunk, Limit - logged})
  <1>1. /\ logged' = logged + fits /\ dropped' = dropped + (chunk - fits)
        /\ chunk' = 0 /\ reader' \in {"reading", "ended"}
        /\ reader' = "ended" => error'
        /\ error' \in {error, TRUE}
    BY DEF WriteLog
  <1>2. chunk \in Nat /\ logged \in Nat /\ dropped \in Nat /\ Limit - logged \in Nat
    BY SizesAssumption DEF TypeOK, Accounts
  <1>3. /\ fits \in Nat /\ fits <= chunk /\ fits <= Limit - logged
        /\ fits = chunk \/ fits = Limit - logged
    BY <1>2, MinOfTwo
  <1> HIDE DEF fits
  <1>4. Limit \in Nat /\ (dropped = 0 \/ logged = Limit) /\ logged <= Limit
    BY SizesAssumption DEF Accounts
  <1>5. /\ logged' \in Nat /\ dropped' \in Nat
        /\ logged' + dropped' = logged + dropped + chunk
        /\ logged' <= Limit
    BY <1>1, <1>2, <1>3, <1>4
  <1>6. dropped' = 0 \/ logged' = Limit
    <2>1. CASE fits = chunk
      <3>1. dropped' = dropped
        BY <1>1, <1>2, <2>1
      <3>2. logged = Limit => logged' = Limit
        BY <1>1, <1>2, <1>3, <1>4, <1>5
      <3> QED
        BY <1>4, <3>1, <3>2
    <2>2. CASE fits = Limit - logged
      BY <1>1, <1>2, <1>4, <2>2
    <2> QED
      BY <1>3, <2>1, <2>2
  <1> QED
    BY <1>1, <1>5, <1>6

LEMMA TypeStep == TypeOK /\ Accounts /\ Stages /\ [Next]_vars => TypeOK'
  <1> SUFFICES ASSUME TypeOK, Accounts, Stages, [Next]_vars PROVE TypeOK'
    OBVIOUS
  <1> USE SizesAssumption DEF TypeOK, procs, copying, Faulty
  <1>1. ASSUME NEW k \in Kids, ShellForks(k) PROVE TypeOK'
    BY <1>1 DEF ShellForks, Traits
  <1>2. ASSUME NEW k \in Kids, KidExits(k) PROVE TypeOK'
    BY <1>2 DEF KidExits
  <1>3. CASE Writes
    BY <1>3 DEF Writes
  <1>4. CASE ShellExits
    BY <1>4 DEF ShellExits
  <1>5. CASE Read
    BY <1>5 DEF Read
  <1>6. CASE End
    BY <1>6 DEF End
  <1>7. CASE WriteLog
    <2>1. {unread, output, chunk, logged, dropped, faults}' \subseteq Nat
      <3>1. logged' \in Nat /\ dropped' \in Nat /\ chunk' = 0
        BY <1>7, WriteLogFacts
      <3>2. UNCHANGED <<unread, output, faults>>
        BY <1>7 DEF WriteLog
      <3> QED
        BY <3>1, <3>2
    <2>2. {error, closed, timedOut}' \subseteq BOOLEAN
      BY <1>7 DEF WriteLog
    <2>3. /\ reader' \in {"reading", "ended"}
          /\ UNCHANGED <<shell, stubborn, status, alive, unborn, trait, main, code,
                         log>>
      BY <1>7 DEF WriteLog
    <2> QED
      BY <2>1, <2>2, <2>3
  <1>8. CASE WriteLogFails
    BY <1>8 DEF WriteLogFails
  <1>9. CASE Start
    BY <1>9 DEF Start
  <1>10. CASE StartFails
    BY <1>10 DEF StartFails
  <1>11. CASE ShellReaped
    BY <1>11 DEF ShellReaped, Stages
  <1>12. CASE TimeoutExpires
    BY <1>12 DEF TimeoutExpires, Terminated
  <1>13. CASE ReapedInGrace
    BY <1>13 DEF ReapedInGrace, CodeOfTimeout
  <1>14. CASE GraceExpires
    BY <1>14 DEF GraceExpires, CodeOfTimeout
  <1>15. CASE Joined
    BY <1>15 DEF Joined, Settle
  <1>16. CASE JoinExpires
    BY <1>16 DEF JoinExpires
  <1>17. CASE ClosePipe
    BY <1>17 DEF ClosePipe
  <1>18. CASE RejoinExpires
    BY <1>18 DEF RejoinExpires, Settle
  <1>19. CASE Finish
    BY <1>19 DEF Finish
  <1>20. CASE FinishFails
    BY <1>20 DEF FinishFails
  <1>21. CASE UNCHANGED vars
    BY <1>21 DEF vars
  <1> QED
    BY <1>1, <1>2, <1>3, <1>4, <1>5, <1>6, <1>7, <1>8, <1>9, <1>10, <1>11,
       <1>12, <1>13, <1>14, <1>15, <1>16, <1>17, <1>18, <1>19, <1>20, <1>21
       DEF Next, Processes, Reader, Main

\* The pipe that has come to its end stays so: only a running shell starts
\* processes.
LEMMA AccountsStep == TypeOK /\ Accounts /\ Stages /\ [Next]_vars => Accounts'
  <1> SUFFICES ASSUME TypeOK, Accounts, Stages, [Next]_vars PROVE Accounts'
    OBVIOUS
  <1> USE SizesAssumption DEF TypeOK, Accounts, procs, copying, Faulty, Held
  <1>1. ASSUME NEW k \in Kids, ShellForks(k) PROVE Accounts'
    BY <1>1 DEF ShellForks
  <1>2. ASSUME NEW k \in Kids, KidExits(k) PROVE Accounts'
    BY <1>2 DEF KidExits
  <1>3. CASE Writes
    BY <1>3 DEF Writes
  <1>4. CASE ShellExits
    BY <1>4 DEF ShellExits
  <1>5. CASE Read
    BY <1>5 DEF Read
  <1>6. CASE End
    BY <1>6 DEF End
  <1>7. CASE WriteLog
    <2>1. UNCHANGED <<unread, output>> /\ chunk' = 0
      BY <1>7 DEF WriteLog
    <2>2. logged' + dropped' + chunk' + unread' = output'
      <3>1. /\ logged' \in Nat /\ dropped' \in Nat
            /\ logged' + dropped' = logged + dropped + chunk
        BY <1>7, WriteLogFacts
      <3> QED
        BY <2>1, <3>1
    <2>3. reader' = "ended" => error'
      BY <1>7, WriteLogFacts
    <2> QED
      BY <1>7, <2>1, <2>2, <2>3, WriteLogFacts
  <1>8. CASE WriteLogFails
    BY <1>8 DEF WriteLogFails
  <1>9. CASE Start
    BY <1>9 DEF Start, Stages
  <1>10. CASE StartFails
    BY <1>10 DEF StartFails
  <1>11. CASE ShellReaped
    BY <1>11 DEF ShellReaped
  <1>12. CASE TimeoutExpires
    BY <1>12 DEF TimeoutExpires, Terminated, Stages
  <1>13. CASE ReapedInGrace
    BY <1>13 DEF ReapedInGrace
  <1>14. CASE GraceExpires
    BY <1>14 DEF GraceExpires, Stages
  <1>15. CASE Joined
    BY <1>15 DEF Joined
  <1>16. CASE JoinExpires
    BY <1>16 DEF JoinExpires
  <1>17. CASE ClosePipe
    BY <1>17 DEF ClosePipe
  <1>18. CASE RejoinExpires
    BY <1>18 DEF RejoinExpires
  <1>19. CASE Finish
    BY <1>19 DEF Finish
  <1>20. CASE FinishFails
    BY <1>20 DEF FinishFails
  <1>21. CASE UNCHANGED vars
    BY <1>21 DEF vars
  <1> QED
    BY <1>1, <1>2, <1>3, <1>4, <1>5, <1>6, <1>7, <1>8, <1>9, <1>10, <1>11,
       <1>12, <1>13, <1>14, <1>15, <1>16, <1>17, <1>18, <1>19, <1>20, <1>21
       DEF Next, Processes, Reader, Main

LEMMA StagesStep == TypeOK /\ Stages /\ Signals /\ [Next]_vars => Stages'
  <1> SUFFICES ASSUME TypeOK, Stages, Signals, [Next]_vars PROVE Stages'
    OBVIOUS
  <1> USE DEF TypeOK, Stages, procs, copying, Faulty
  <1>1. ASSUME NEW k \in Kids, ShellForks(k) PROVE Stages'
    BY <1>1 DEF ShellForks
  <1>2. ASSUME NEW k \in Kids, KidExits(k) PROVE Stages'
    BY <1>2 DEF KidExits
  <1>3. CASE Writes
    BY <1>3 DEF Writes
  <1>4. CASE ShellExits
    BY <1>4 DEF ShellExits
  <1>5. CASE Read
    BY <1>5 DEF Read
  <1>6. CASE End
    BY <1>6 DEF End
  <1>7. CASE WriteLog
    BY <1>7 DEF WriteLog
  <1>8. CASE WriteLogFails
    BY <1>8 DEF WriteLogFails
  <1>9. CASE Start
    BY <1>9 DEF Start
  <1>10. CASE StartFails
    BY <1>10 DEF StartFails
  <1>11. CASE ShellReaped
    BY <1>11 DEF ShellReaped
  <1>12. CASE TimeoutExpires
    BY <1>12 DEF TimeoutExpires
  <1>13. CASE ReapedInGrace
    BY <1>13 DEF ReapedInGrace, Signals, CodeOfTimeout
  <1>14. CASE GraceExpires
    BY <1>14 DEF GraceExpires, Signals, CodeOfTimeout
  <1>15. CASE Joined
    BY <1>15 DEF Joined, Settle, Signals, TimeoutEndsGroup, Over
  <1>16. CASE JoinExpires
    BY <1>16 DEF JoinExpires
  <1>17. CASE ClosePipe
    BY <1>17 DEF ClosePipe
  <1>18. CASE RejoinExpires
    BY <1>18 DEF RejoinExpires, Settle, Signals, TimeoutEndsGroup, Over
  <1>19. CASE Finish
    BY <1>19 DEF Finish
  <1>20. CASE FinishFails
    BY <1>20 DEF FinishFails
  <1>21. CASE UNCHANGED vars
    BY <1>21 DEF vars
  <1> QED
    BY <1>1, <1>2, <1>3, <1>4, <1>5, <1>6, <1>7, <1>8, <1>9, <1>10, <1>11,
       <1>12, <1>13, <1>14, <1>15, <1>16, <1>17, <1>18, <1>19, <1>20, <1>21
       DEF Next, Processes, Reader, Main

LEMMA SignalsStep == TypeOK /\ Stages /\ Signals /\ [Next]_vars => Signals'
  <1> SUFFICES ASSUME TypeOK, Stages, Signals, [Next]_vars PROVE Signals'
    OBVIOUS
  <1> USE DEF TypeOK, Signals, TimeoutEndsGroup, Over, procs, copying, Faulty
  <1>1. ASSUME NEW k \in Kids, ShellForks(k) PROVE Signals'
    BY <1>1 DEF ShellForks
  <1>2. ASSUME NEW k \in Kids, KidExits(k) PROVE Signals'
    BY <1>2 DEF KidExits
  <1>3. CASE Writes
    BY <1>3 DEF Writes
  <1>4. CASE ShellExits
    BY <1>4 DEF ShellExits
  <1>5. CASE Read
    BY <1>5 DEF Read
  <1>6. CASE End
    BY <1>6 DEF End
  <1>7. CASE WriteLog
    BY <1>7 DEF WriteLog
  <1>8. CASE WriteLogFails
    BY <1>8 DEF WriteLogFails
  <1>9. CASE Start
    BY <1>9 DEF Start, Stages
  <1>10. CASE StartFails
    BY <1>10 DEF StartFails, Stages
  <1>11. CASE ShellReaped
    BY <1>11 DEF ShellReaped, Stages
  <1>12. CASE TimeoutExpires
    BY <1>12 DEF TimeoutExpires, Terminated, Stages
  <1>13. CASE ReapedInGrace
    BY <1>13 DEF ReapedInGrace, CodeOfTimeout
  <1>14. CASE GraceExpires
    BY <1>14 DEF GraceExpires, CodeOfTimeout
  <1>15. CASE Joined
    BY <1>15 DEF Joined, Settle
  <1>16. CASE JoinExpires
    BY <1>16 DEF JoinExpires
  <1>17. CASE ClosePipe
    BY <1>17 DEF ClosePipe
  <1>18. CASE RejoinExpires
    BY <1>18 DEF RejoinExpires, Settle
  <1>19. CASE Finish
    BY <1>19 DEF Finish
  <1>20. CASE FinishFails
    BY <1>20 DEF FinishFails
  <1>21. CASE UNCHANGED vars
    BY <1>21 DEF vars
  <1> QED
    BY <1>1, <1>2, <1>3, <1>4, <1>5, <1>6, <1>7, <1>8, <1>9, <1>10, <1>11,
       <1>12, <1>13, <1>14, <1>15, <1>16, <1>17, <1>18, <1>19, <1>20, <1>21
       DEF Next, Processes, Reader, Main

------------------------------------------------------------------------------
\* IInv holds in every reachable state: no unit of output is lost between the
\* threads, and no signal misses a process that it should reach.
THEOREM Inductive == Spec => []IInv
  <1>1. IInv /\ [Next]_vars => IInv'
    BY TypeStep, AccountsStep, StagesStep, SignalsStep DEF IInv
  <1> QED
    BY InitInv, <1>1, PTL DEF Spec

\* Types.
THEOREM TypeCorrect == Spec => []TypeOK
  <1>1. IInv => TypeOK
    BY DEF IInv
  <1> QED
    BY <1>1, Inductive, PTL

\* A task is not called a success before its shell has ended with 0 in time and
\* everything it and its children have written is in the log, up to the limit;
\* unless run_task had to close the pipe on the reader.
THEOREM SuccessComplete == Spec => []SuccessIsComplete
  <1>1. IInv => SuccessIsComplete
    <2> SUFFICES ASSUME IInv, main = "done", code = 0
                 PROVE  /\ shell = "exited" /\ status = 0 /\ ~timedOut
                        /\ \/ closed
                           \/ /\ reader = "ended" /\ logged + dropped = output
                              /\ logged = Limit \/ dropped = 0
      BY DEF SuccessIsComplete
    <2>1. /\ shell = "exited" /\ status = 0 /\ ~timedOut
          /\ closed \/ (reader = "ended" /\ ~error)
      BY DEF IInv, Stages
    <2>2. {logged, dropped} \subseteq Nat
      BY DEF IInv, TypeOK
    <2> QED
      BY <2>1, <2>2 DEF IInv, Accounts
  <1> QED
    BY <1>1, Inductive, PTL

\* run_task reports 124 after a timeout, with the shell and its process group
\* gone, whenever SIGTERM was heeded or SIGKILL sent.
THEOREM TimeoutsEndGroup == Spec => []TimeoutEndsGroup
  <1>1. IInv => TimeoutEndsGroup
    BY DEF IInv, Signals
  <1> QED
    BY <1>1, Inductive, PTL

=============================================================================
