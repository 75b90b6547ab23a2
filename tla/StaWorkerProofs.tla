---------------------------- MODULE StaWorkerProofs ----------------------------
(***************************************************************************)
(* Proofs about DedicatedSTAWorker for any number of callers and tasks.    *)
(* The inductive invariant has one part per safety property of StaWorker,  *)
(* each inductive relative to TypeOK alone or to the parts before it.      *)
(* The second half proves that the worker implements SerialExecutor: every *)
(* step has one of a few effects on what the executor shows, and each      *)
(* effect is a step of the executor.                                       *)
(***************************************************************************)
EXTENDS StaWorker, SequenceTheorems, FiniteSetTheorems, WellFoundedInduction, TLAPS

--------------------------------------------------------------------------------
(* The inductive invariant.                                                *)

\* A caller in one of these steps is inside a call.
InCall == {"submit", "wait", "expired", "cancel", "poison"}

\* Where the thread can be in a worker that is new, closed or being joined.
LifeInv ==
  /\ state = "NEW" => thread = "none"
  /\ thread = "none" => state \in {"NEW", "CLOSED"}
  /\ state = "CLOSED" => thread \in {"none", "last", "dead"}
  /\ \A c \in Callers :
       /\ pc[c] = "join" => thread # "none"
       /\ pc[c] = "finish_close" => thread = "dead"
       /\ pc[c] \in InCall => task[c] \in Tasks

\* A caller in one of these steps has a task that was not handed over yet.
BeforeSubmit == {"await_ready", "after_ready", "submit", "late_start", "late_stop",
                 "late_put", "late_fail"}

\* Who may hold a task: what a future, an outcome and the call stack exclude.
TaskInv ==
  /\ \A c, d \in Callers : c # d /\ task[c] = task[d] => task[c] = NoTask
  /\ \A c \in Callers : pc[c] \in BeforeSubmit /\ task[c] \in Tasks =>
       future[task[c]] = "none" /\ outcome[task[c]] = "none"
  /\ \A t \in began : future[t] \in {"running", "done", "failed"}
  /\ \A i \in DOMAIN stack : stack[i] \in began
  /\ \A t \in Tasks :
       /\ outcome[t] \in {"refused", "start_timeout"} => future[t] = "none"
       /\ outcome[t] = "timeout_cancelled" => future[t] = "cancelled"

\* A worker that has served a call is past its start for good.
PoisonInv ==
  /\ state = "RUNNING" => thread \notin {"none", "init", "decide", "failed"}
  /\ \/ \E c \in Callers : pc[c] \in {"wait", "expired", "cancel", "poison"}
     \/ \E t \in Tasks : outcome[t] = "timeout_running"
     => /\ thread \notin {"none", "init", "decide"}
        /\ state \notin {"NEW", "STARTING"}
  /\ PoisonSticks

Left == {"finalize", "exit", "last", "dead"}

\* Without an expired start, a stop request and the sentinel go together with
\* the end of the intake.
StopInv ==
  /\ \A c \in Callers : pc[c] \in {"late_stop", "late_put", "late_fail"} => startupCancelled
  /\ thread \in {"none", "init", "decide", "signal", "recheck", "failed"} => began = {}
  /\ ~startupCancelled =>
       /\ \A i \in DOMAIN queue : queue[i] = Stop => stopRequested
       /\ stopRequested => state \in {"CLOSING", "CLOSED", "FAILED"}
       /\ thread \in Left \cup {"failed"} => state # "RUNNING"
  /\ NothingStranded

IInv == TypeOK /\ LifeInv /\ TaskInv /\ PoisonInv /\ StopInv

--------------------------------------------------------------------------------
(* Lemmas about the operators the actions share.                           *)

\* What Append does to the queue and to the call stack.
LEMMA AppendOne ==
  ASSUME NEW S, NEW s \in Seq(S), NEW e \in S
  PROVE  /\ Append(s, e) \in Seq(S)
         /\ Append(s, e) # <<>>
         /\ \A i \in DOMAIN Append(s, e) :
              \/ i \in DOMAIN s /\ Append(s, e)[i] = s[i]
              \/ i = Len(s) + 1 /\ Append(s, e)[i] = e
  <1>1. /\ Append(s, e) \in Seq(S)
        /\ Append(s, e) # <<>>
        /\ Len(Append(s, e)) = Len(s) + 1
        /\ \A i \in 1 .. Len(s) : Append(s, e)[i] = s[i]
        /\ Append(s, e)[Len(s) + 1] = e
    BY AppendProperties
  <1>2. /\ DOMAIN Append(s, e) = 1 .. Len(s) + 1
        /\ DOMAIN s = 1 .. Len(s)
        /\ Len(s) \in Nat
    BY <1>1, LenProperties
  <1> QED
    BY <1>1, <1>2

\* The call stack under its top: shorter by one, empty only below a single task.
LEMMA PopStack ==
  ASSUME NEW s \in Seq(Tasks), s # <<>>
  PROVE  /\ s[Len(s)] \in Tasks
         /\ SubSeq(s, 1, Len(s) - 1) \in Seq(Tasks)
         /\ SubSeq(s, 1, Len(s) - 1) # <<>> <=> Len(s) > 1
         /\ \A i \in DOMAIN SubSeq(s, 1, Len(s) - 1) :
              i \in DOMAIN s /\ SubSeq(s, 1, Len(s) - 1)[i] = s[i]
  <1> DEFINE n == Len(s) - 1
             p == SubSeq(s, 1, n)
  <1>1. /\ Len(s) \in Nat \ {0}
        /\ n \in Nat
        /\ DOMAIN s = 1 .. Len(s)
        /\ \A i \in 1 .. Len(s) : s[i] \in Tasks
    BY EmptySeq, LenProperties
  <1>2. \A i \in 1 .. n : i \in 1 .. Len(s) /\ s[i] \in Tasks
    BY <1>1
  <1>3. /\ p \in Seq(Tasks)
        /\ Len(p) = n
        /\ \A i \in 1 .. n : p[i] = s[i]
    <2> HIDE DEF n
    <2>1. /\ p \in Seq(Tasks)
          /\ Len(p) = IF 1 <= n THEN n - 1 + 1 ELSE 0
          /\ \A i \in 1 .. n - 1 + 1 : p[i] = s[1 + i - 1]
      BY <1>1, <1>2, SubSeqProperties
    <2>2. n - 1 + 1 = n /\ \A i \in 1 .. n : 1 + i - 1 = i
      BY <1>1
    <2> QED
      BY <1>1, <2>1, <2>2
  <1>4. DOMAIN p = 1 .. n
    BY <1>3, LenProperties
  <1>5. p # <<>> <=> n # 0
    <2>1. p # <<>> => n # 0
      BY <1>3, EmptySeq
    <2>2. p = <<>> => n = 0
      BY <1>3, EmptySeq
    <2> QED
      BY <2>1, <2>2
  <1>6. n # 0 <=> Len(s) > 1
    BY <1>1
  <1>7. s[Len(s)] \in Tasks
    BY <1>1
  <1> QED
    BY <1>1, <1>2, <1>3, <1>4, <1>5, <1>6, <1>7

--------------------------------------------------------------------------------
(* Type correctness.                                                       *)

\* A worker as its constructor leaves it is well typed.
LEMMA TypeInit ==
  Init => TypeOK
  <1> SUFFICES ASSUME Init PROVE TypeOK
    OBVIOUS
  <1>1. queue \in Seq(Tasks \cup {Stop}) /\ stack \in Seq(Tasks)
    BY EmptySeq DEF Init
  <1>2. /\ future \in [Tasks -> FutureState]
        /\ pc \in [Callers -> CallerStep]
        /\ task \in [Callers -> Tasks \cup {NoTask}]
        /\ outcome \in [Tasks -> Outcome]
    BY DEF Init, FutureState, CallerStep, Outcome
  <1> QED
    BY <1>1, <1>2 DEF Init, TypeOK, WorkerState, ThreadStep

\* A step of a caller keeps the types.
LEMMA TypeCaller ==
  ASSUME TypeOK, LifeInv, NEW c \in Callers, CallerBegins(c) \/ CallerContinues(c)
  PROVE  TypeOK'
  <1> USE DEF TypeOK, vars, workerVars, threadVars, callVars
  <1> USE DEF WorkerState, CallerStep, Outcome
  <1>1. ASSUME NEW t \in Tasks \cup {NoTask}, StartAlreadyRunning(c, t)
        PROVE  TypeOK'
    BY <1>1 DEF StartAlreadyRunning, Enter, Proceed
  <1>2. ASSUME NEW t \in Tasks \cup {NoTask}, StartRefused(c, t)
        PROVE  TypeOK'
    BY <1>2 DEF StartRefused, Enter
  <1>3. ASSUME NEW t \in Tasks \cup {NoTask}, StartThread(c, t)
        PROVE  TypeOK'
    BY <1>3 DEF LifeInv, StartThread, Enter, ThreadStep
  <1>4. ASSUME NEW t \in Tasks \cup {NoTask}, StartAwaitsOther(c, t)
        PROVE  TypeOK'
    BY <1>4 DEF StartAwaitsOther, Enter
  <1>5. CASE SeeReady(c)
    BY <1>5 DEF SeeReady, Goto
  <1>6. CASE AfterReady(c)
    BY <1>6 DEF AfterReady, Proceed, Leave
  <1>7. CASE StartTimesOut(c)
    BY <1>7 DEF StartTimesOut, Goto
  <1>8. CASE CancelStartup(c)
    BY <1>8 DEF CancelStartup, Goto
  <1>9. CASE RequestStop(c)
    BY <1>9 DEF RequestStop, Goto
  <1>10. CASE PutStop(c)
    <2>1. queue' \in Seq(Tasks \cup {Stop})
      BY <1>10, AppendOne DEF PutStop
    <2> QED
      BY <1>10, <2>1 DEF PutStop, Goto
  <1>11. CASE FailStart(c)
    BY <1>11 DEF FailStart, Leave
  <1>12. CASE Submit(c)
    <2>1. queue' \in Seq(Tasks \cup {Stop})
      <3>1. task[c] \in Tasks \cup {Stop} /\ queue \in Seq(Tasks \cup {Stop})
        BY <1>12 DEF Submit, LifeInv, InCall
      <3>2. queue' \in {queue, Append(queue, task[c])}
        BY <1>12 DEF Submit
      <3>3. Append(queue, task[c]) \in Seq(Tasks \cup {Stop})
        BY <3>1, AppendOne
      <3> QED
        BY <3>1, <3>2, <3>3
    <2>2. CASE state = "RUNNING"
      BY <1>12, <2>1, <2>2 DEF Submit, Goto, FutureState
    <2>3. CASE state # "RUNNING"
      BY <1>12, <2>1, <2>3 DEF Submit, Leave
    <2> QED
      BY <2>2, <2>3
  <1>13. CASE GetResult(c)
    BY <1>13 DEF GetResult, Leave
  <1>14. CASE CallTimesOut(c)
    BY <1>14 DEF CallTimesOut, Goto
  <1>15. CASE CheckDone(c)
    BY <1>15 DEF CheckDone, Leave, Goto
  <1>16. CASE Cancel(c)
    <2>1. CASE future[task[c]] = "pending"
      <3>1. future' \in [Tasks -> FutureState]
        BY <1>16, <2>1 DEF Cancel, FutureState
      <3>2. outcome' \in [Tasks -> Outcome]
        <4>1. outcome' = [t \in Tasks |-> IF t = task[c] THEN "timeout_cancelled" ELSE outcome[t]]
          BY <1>16, <2>1 DEF Cancel, Leave
        <4> QED
          BY <4>1
      <3>3. pc' \in [Callers -> CallerStep] /\ task' \in [Callers -> Tasks \cup {NoTask}]
        BY <1>16, <2>1 DEF Cancel, Leave
      <3> QED
        BY <1>16, <3>1, <3>2, <3>3 DEF Cancel
    <2>2. CASE future[task[c]] # "pending"
      BY <1>16, <2>2 DEF Cancel, Goto
    <2> QED
      BY <2>1, <2>2
  <1>17. CASE Poison(c)
    <2>1. queue' \in Seq(Tasks \cup {Stop})
      <3>1. Append(queue, Stop) \in Seq(Tasks \cup {Stop})
        BY AppendOne
      <3>2. queue' \in {queue, Append(queue, Stop)}
        BY <1>17 DEF Poison
      <3> QED
        BY <3>1, <3>2
    <2> QED
      BY <1>17, <2>1 DEF Poison, Leave
  <1>18. CASE CloseUnstarted(c)
    BY <1>18 DEF CloseUnstarted
  <1>19. CASE CloseBegin(c)
    <2>1. Append(queue, Stop) \in Seq(Tasks \cup {Stop})
      BY AppendOne
    <2> QED
      BY <1>19, <2>1 DEF CloseBegin, Goto
  <1>20. CASE Joined(c)
    BY <1>20 DEF Joined, Goto
  <1>21. CASE JoinTimesOut(c)
    BY <1>21 DEF JoinTimesOut, Leave
  <1>22. CASE FinishClose(c)
    BY <1>22 DEF FinishClose, Leave
  <1> QED
    BY <1>1, <1>2, <1>3, <1>4, <1>5, <1>6, <1>7, <1>8, <1>9, <1>10, <1>11, <1>12, <1>13, <1>14, <1>15, <1>16, <1>17, <1>18, <1>19, <1>20, <1>21, <1>22
    DEF CallerBegins, CallerContinues

\* A step of the worker thread keeps the types.
LEMMA TypeThread ==
  ASSUME TypeOK, ThreadContinues \/ \E t \in Tasks : ReentrantCall(t)
  PROVE  TypeOK'
  <1> USE DEF TypeOK, vars, workerVars, threadVars, callVars, ThreadStep
  <1>1. CASE InitializerReturns
    BY <1>1 DEF InitializerReturns, ThreadGoes
  <1>2. CASE InitializerRaises
    BY <1>2 DEF InitializerRaises, ThreadGoes, WorkerState
  <1>3. CASE SignalFailure
    BY <1>3 DEF SignalFailure, ThreadGoes
  <1>4. CASE Decide
    BY <1>4 DEF Decide, ThreadGoes, WorkerState
  <1>5. CASE SignalReady
    BY <1>5 DEF SignalReady, ThreadGoes
  <1>6. CASE Recheck
    BY <1>6 DEF Recheck, ThreadGoes
  <1>7. CASE TakeStop
    BY <1>7, HeadTailProperties DEF TakeStop
  <1>8. CASE SkipCancelled
    BY <1>8, HeadTailProperties DEF SkipCancelled
  <1>9. CASE BeginTask
    BY <1>9, HeadTailProperties DEF BeginTask, FutureState
  <1>10. ASSUME NEW ok \in BOOLEAN, EndTask(ok)
        PROVE  TypeOK'
    BY <1>10, PopStack DEF EndTask, FutureState, Outcome
  <1>11. CASE FinalizerReturns
    BY <1>11 DEF FinalizerReturns, ThreadGoes
  <1>12. CASE FinalizerRaises
    BY <1>12 DEF FinalizerRaises, ThreadGoes, WorkerState
  <1>13. CASE ExitThread
    BY <1>13 DEF ExitThread, ThreadGoes, WorkerState
  <1>14. CASE ThreadDies
    BY <1>14 DEF ThreadDies, ThreadGoes
  <1>15. ASSUME NEW t \in Tasks, ReentrantCall(t)
        PROVE  TypeOK'
    <2>1. Append(stack, t) \in Seq(Tasks) /\ Append(stack, t) # <<>>
      BY AppendOne
    <2> QED
      BY <1>15, <2>1 DEF ReentrantCall, FutureState, Outcome
  <1> QED
    BY <1>1, <1>2, <1>3, <1>4, <1>5, <1>6, <1>7, <1>8, <1>9, <1>10, <1>11, <1>12, <1>13, <1>14, <1>15 DEF ThreadContinues


--------------------------------------------------------------------------------
(* The life of the worker.                                                 *)

\* The constructor starts no thread, so LifeInv holds of a new worker.
LEMMA LifeInit ==
  Init => LifeInv
  BY DEF Init, LifeInv, InCall

\* A step of a caller keeps LifeInv.
LEMMA LifeCaller ==
  ASSUME TypeOK, LifeInv, NEW c \in Callers, CallerBegins(c) \/ CallerContinues(c)
  PROVE  LifeInv'
  <1> USE DEF TypeOK, LifeInv, InCall, vars, workerVars, threadVars, callVars
  <1>1. ASSUME NEW t \in Tasks \cup {NoTask}, StartAlreadyRunning(c, t)
        PROVE  LifeInv'
    BY <1>1 DEF StartAlreadyRunning, Enter, Proceed
  <1>2. ASSUME NEW t \in Tasks \cup {NoTask}, StartRefused(c, t)
        PROVE  LifeInv'
    BY <1>2 DEF StartRefused, Enter
  <1>3. ASSUME NEW t \in Tasks \cup {NoTask}, StartThread(c, t)
        PROVE  LifeInv'
    BY <1>3 DEF StartThread, Enter
  <1>4. ASSUME NEW t \in Tasks \cup {NoTask}, StartAwaitsOther(c, t)
        PROVE  LifeInv'
    BY <1>4 DEF StartAwaitsOther, Enter
  <1>5. CASE SeeReady(c)
    BY <1>5 DEF SeeReady, Goto
  <1>6. CASE AfterReady(c)
    BY <1>6 DEF AfterReady, Proceed, Leave
  <1>7. CASE StartTimesOut(c)
    BY <1>7 DEF StartTimesOut, Goto
  <1>8. CASE CancelStartup(c)
    BY <1>8 DEF CancelStartup, Goto
  <1>9. CASE RequestStop(c)
    BY <1>9 DEF RequestStop, Goto
  <1>10. CASE PutStop(c)
    BY <1>10 DEF PutStop, Goto
  <1>11. CASE FailStart(c)
    BY <1>11 DEF FailStart, Leave
  <1>12. CASE Submit(c)
    BY <1>12 DEF Submit, Goto, Leave
  <1>13. CASE GetResult(c)
    BY <1>13 DEF GetResult, Leave
  <1>14. CASE CallTimesOut(c)
    BY <1>14 DEF CallTimesOut, Goto
  <1>15. CASE CheckDone(c)
    BY <1>15 DEF CheckDone, Leave, Goto
  <1>16. CASE Cancel(c)
    BY <1>16 DEF Cancel, Leave, Goto
  <1>17. CASE Poison(c)
    BY <1>17 DEF Poison, Leave
  <1>18. CASE CloseUnstarted(c)
    BY <1>18 DEF CloseUnstarted
  <1>19. CASE CloseBegin(c)
    BY <1>19 DEF CloseBegin, Goto
  <1>20. CASE Joined(c)
    BY <1>20 DEF Joined, Goto, Alive
  <1>21. CASE JoinTimesOut(c)
    BY <1>21 DEF JoinTimesOut, Leave
  <1>22. CASE FinishClose(c)
    BY <1>22 DEF FinishClose, Leave
  <1> QED
    BY <1>1, <1>2, <1>3, <1>4, <1>5, <1>6, <1>7, <1>8, <1>9, <1>10, <1>11, <1>12, <1>13, <1>14, <1>15, <1>16, <1>17, <1>18, <1>19, <1>20, <1>21, <1>22
    DEF CallerBegins, CallerContinues

\* A step of the worker thread keeps LifeInv.
LEMMA LifeThread ==
  ASSUME TypeOK, LifeInv, ThreadContinues \/ \E t \in Tasks : ReentrantCall(t)
  PROVE  LifeInv'
  <1> USE DEF TypeOK, LifeInv, InCall, vars, workerVars, threadVars, callVars
  <1>1. CASE InitializerReturns
    BY <1>1 DEF InitializerReturns, ThreadGoes
  <1>2. CASE InitializerRaises
    BY <1>2 DEF InitializerRaises, ThreadGoes
  <1>3. CASE SignalFailure
    BY <1>3 DEF SignalFailure, ThreadGoes
  <1>4. CASE Decide
    BY <1>4 DEF Decide, ThreadGoes
  <1>5. CASE SignalReady
    BY <1>5 DEF SignalReady, ThreadGoes
  <1>6. CASE Recheck
    BY <1>6 DEF Recheck, ThreadGoes
  <1>7. CASE TakeStop
    BY <1>7 DEF TakeStop
  <1>8. CASE SkipCancelled
    BY <1>8 DEF SkipCancelled
  <1>9. CASE BeginTask
    BY <1>9 DEF BeginTask
  <1>10. ASSUME NEW ok \in BOOLEAN, EndTask(ok)
        PROVE  LifeInv'
    BY <1>10 DEF EndTask
  <1>11. CASE FinalizerReturns
    BY <1>11 DEF FinalizerReturns, ThreadGoes
  <1>12. CASE FinalizerRaises
    BY <1>12 DEF FinalizerRaises, ThreadGoes
  <1>13. CASE ExitThread
    BY <1>13 DEF ExitThread, ThreadGoes
  <1>14. CASE ThreadDies
    BY <1>14 DEF ThreadDies, ThreadGoes
  <1>15. ASSUME NEW t \in Tasks, ReentrantCall(t)
        PROVE  LifeInv'
    BY <1>15 DEF ReentrantCall
  <1> QED
    BY <1>1, <1>2, <1>3, <1>4, <1>5, <1>6, <1>7, <1>8, <1>9, <1>10, <1>11, <1>12, <1>13, <1>14, <1>15 DEF ThreadContinues

\* The base of every other proof: the types and the life of the worker.
LEMMA BaseStep ==
  TypeOK /\ LifeInv /\ [Next]_vars => (TypeOK /\ LifeInv)'
  <1> SUFFICES ASSUME TypeOK, LifeInv, [Next]_vars PROVE (TypeOK /\ LifeInv)'
    OBVIOUS
  <1>1. CASE Next
    BY <1>1, TypeCaller, TypeThread, LifeCaller, LifeThread DEF Next
  <1>2. CASE UNCHANGED vars
    BY <1>2 DEF TypeOK, LifeInv, vars, workerVars, threadVars, callVars
  <1> QED
    BY <1>1, <1>2

\* The types and the life of the worker hold in every reachable state.
LEMMA Base == Spec => [](TypeOK /\ LifeInv)
  BY TypeInit, LifeInit, BaseStep, PTL DEF Spec

\* Every reachable state of the worker is well typed, and the thread is inside
\* a task exactly when its call stack holds one.
THEOREM TypeCorrect == Spec => []TypeOK
  BY Base, PTL

\* A closed worker is quiet: close() reports CLOSED only when the thread has
\* left its last task and its finalizer behind.
THEOREM ClosedQuiet == Spec => []ClosedMeansQuiet
  <1>1. LifeInv => ClosedMeansQuiet
    BY DEF LifeInv, ClosedMeansQuiet
  <1> QED
    BY <1>1, Base, PTL

\* A closed worker is never opened again: no late start, close, poison or
\* thread step leaves CLOSED.
THEOREM ClosedFinal == Spec => ClosedIsFinal
  <1>1. TypeOK /\ LifeInv /\ [Next]_vars => [state = "CLOSED" => state' = "CLOSED"]_vars
    <2> SUFFICES ASSUME LifeInv, Next, state = "CLOSED" PROVE state' = "CLOSED"
      BY DEF vars
    <2> USE DEF LifeInv, workerVars, ThreadGoes
    <2>1. ASSUME NEW c \in Callers, CallerBegins(c) PROVE state' = "CLOSED"
      BY <2>1 DEF CallerBegins, StartAlreadyRunning, StartRefused, StartThread,
                  StartAwaitsOther, CloseUnstarted, CloseBegin
    <2>2. ASSUME NEW c \in Callers, CallerContinues(c) PROVE state' = "CLOSED"
      BY <2>2 DEF CallerContinues, SeeReady, AfterReady, StartTimesOut, CancelStartup,
                  RequestStop, PutStop, FailStart, Submit, GetResult, CallTimesOut,
                  CheckDone, Cancel, Poison, Joined, JoinTimesOut, FinishClose
    <2>3. CASE ThreadContinues
      BY <2>3 DEF ThreadContinues, InitializerReturns, InitializerRaises, SignalFailure,
                  Decide, SignalReady, Recheck, TakeStop, SkipCancelled, BeginTask,
                  EndTask, FinalizerReturns, FinalizerRaises, ExitThread, ThreadDies
    <2>4. ASSUME NEW t \in Tasks, ReentrantCall(t) PROVE state' = "CLOSED"
      BY <2>4 DEF ReentrantCall
    <2> QED
      BY <2>1, <2>2, <2>3, <2>4 DEF Next
  <1> QED
    BY <1>1, Base, PTL DEF Spec, ClosedIsFinal

--------------------------------------------------------------------------------
(* Tasks that are withdrawn never run.                                     *)

\* Nobody holds a task of a new worker.
LEMMA TaskInit ==
  Init => TaskInv
  BY StaWorkerAssumption DEF Init, TaskInv, BeforeSubmit

\* A step of a caller keeps TaskInv.
LEMMA TaskCaller ==
  ASSUME TypeOK, LifeInv, TaskInv, NEW c \in Callers, CallerBegins(c) \/ CallerContinues(c)
  PROVE  TaskInv'
  <1> USE DEF TypeOK, TaskInv, BeforeSubmit, vars, workerVars, threadVars, callVars
  <1>1. ASSUME NEW t \in Tasks \cup {NoTask}, StartAlreadyRunning(c, t)
        PROVE  TaskInv'
    BY <1>1 DEF StartAlreadyRunning, Enter, Proceed, Fresh
  <1>2. ASSUME NEW t \in Tasks \cup {NoTask}, StartRefused(c, t)
        PROVE  TaskInv'
    BY <1>2, StaWorkerAssumption DEF StartRefused, Enter, Fresh
  <1>3. ASSUME NEW t \in Tasks \cup {NoTask}, StartThread(c, t)
        PROVE  TaskInv'
    BY <1>3, StaWorkerAssumption DEF StartThread, Enter, Fresh
  <1>4. ASSUME NEW t \in Tasks \cup {NoTask}, StartAwaitsOther(c, t)
        PROVE  TaskInv'
    BY <1>4, StaWorkerAssumption DEF StartAwaitsOther, Enter, Fresh
  <1>5. CASE SeeReady(c)
    BY <1>5 DEF SeeReady, Goto
  <1>6. CASE AfterReady(c)
    BY <1>6, StaWorkerAssumption DEF AfterReady, Proceed, Leave
  <1>7. CASE StartTimesOut(c)
    BY <1>7 DEF StartTimesOut, Goto
  <1>8. CASE CancelStartup(c)
    BY <1>8 DEF CancelStartup, Goto
  <1>9. CASE RequestStop(c)
    BY <1>9 DEF RequestStop, Goto
  <1>10. CASE PutStop(c)
    BY <1>10 DEF PutStop, Goto
  <1>11. CASE FailStart(c)
    BY <1>11, StaWorkerAssumption DEF FailStart, Leave
  <1>12. CASE Submit(c)
    BY <1>12, StaWorkerAssumption DEF Submit, Goto, Leave, LifeInv, InCall
  <1>13. CASE GetResult(c)
    BY <1>13 DEF GetResult, Leave, LifeInv, InCall
  <1>14. CASE CallTimesOut(c)
    BY <1>14 DEF CallTimesOut, Goto
  <1>15. CASE CheckDone(c)
    <2>1. CASE future[task[c]] \in {"done", "failed"}
      BY <1>15, <2>1, StaWorkerAssumption DEF CheckDone, Leave
    <2>2. CASE future[task[c]] \notin {"done", "failed"}
      BY <1>15, <2>2 DEF CheckDone, Goto
    <2> QED
      BY <2>1, <2>2
  <1>16. CASE Cancel(c)
    <2>1. CASE future[task[c]] = "pending"
      <3>1. PICK u \in Tasks : u = task[c]
        BY <1>16 DEF Cancel, LifeInv, InCall
      <3>2. /\ \A t \in Tasks : future'[t] = IF t = u THEN "cancelled" ELSE future[t]
            /\ \A t \in Tasks : outcome'[t] = IF t = u THEN "timeout_cancelled" ELSE outcome[t]
            /\ \A d \in Callers : task'[d] = IF d = c THEN NoTask ELSE task[d]
            /\ \A d \in Callers : pc'[d] = IF d = c THEN "idle" ELSE pc[d]
            /\ UNCHANGED <<began, stack>>
        <4>1. /\ future' = [future EXCEPT ![u] = "cancelled"]
              /\ outcome' = [t \in Tasks |-> IF t = u THEN "timeout_cancelled" ELSE outcome[t]]
              /\ task' = [task EXCEPT ![c] = NoTask]
              /\ pc' = [pc EXCEPT ![c] = "idle"]
              /\ UNCHANGED <<began, stack>>
          <5>1. future' = [future EXCEPT ![task[c]] = "cancelled"] /\ Leave(c, "timeout_cancelled")
            BY <1>16, <2>1 DEF Cancel
          <5>2. UNCHANGED <<began, stack>>
            BY <1>16 DEF Cancel
          <5> QED
            BY <3>1, <5>1, <5>2 DEF Leave
        <4> QED
          BY <4>1
      <3>3. u \notin began
        BY <2>1, <3>1
      <3>4. \A d \in Callers : d # c => task[d] # u
        BY <3>1, StaWorkerAssumption
      <3>5. \A d, e \in Callers : d # e /\ task'[d] = task'[e] => task'[d] = NoTask
        BY <3>2
      <3>7. ASSUME NEW d \in Callers, pc'[d] \in BeforeSubmit, task'[d] \in Tasks
            PROVE  future'[task'[d]] = "none" /\ outcome'[task'[d]] = "none"
        <4>1. d # c /\ task'[d] = task[d] /\ pc'[d] = pc[d]
          BY <3>2, <3>7, StaWorkerAssumption
        <4>2. future[task[d]] = "none" /\ outcome[task[d]] = "none"
          BY <3>7, <4>1
        <4> QED
          BY <3>2, <3>4, <3>7, <4>1, <4>2
      <3>6. /\ \A t \in began' : future'[t] \in {"running", "done", "failed"}
            /\ \A i \in DOMAIN stack' : stack'[i] \in began'
            /\ \A t \in Tasks :
                 /\ outcome'[t] \in {"refused", "start_timeout"} => future'[t] = "none"
                 /\ outcome'[t] = "timeout_cancelled" => future'[t] = "cancelled"
        BY <3>2, <3>3
      <3> QED
        BY <3>5, <3>6, <3>7
    <2>2. CASE future[task[c]] # "pending"
      BY <1>16, <2>2 DEF Cancel, Goto
    <2> QED
      BY <2>1, <2>2
  <1>17. CASE Poison(c)
    BY <1>17, StaWorkerAssumption DEF Poison, Leave
  <1>18. CASE CloseUnstarted(c)
    BY <1>18 DEF CloseUnstarted
  <1>19. CASE CloseBegin(c)
    BY <1>19 DEF CloseBegin, Goto
  <1>20. CASE Joined(c)
    BY <1>20 DEF Joined, Goto, Alive
  <1>21. CASE JoinTimesOut(c)
    BY <1>21 DEF JoinTimesOut, Leave
  <1>22. CASE FinishClose(c)
    BY <1>22 DEF FinishClose, Leave
  <1> QED
    BY <1>1, <1>2, <1>3, <1>4, <1>5, <1>6, <1>7, <1>8, <1>9, <1>10, <1>11, <1>12, <1>13, <1>14, <1>15, <1>16, <1>17, <1>18, <1>19, <1>20, <1>21, <1>22
    DEF CallerBegins, CallerContinues

\* A step of the worker thread keeps TaskInv.
LEMMA TaskThread ==
  ASSUME TypeOK, LifeInv, TaskInv, ThreadContinues \/ \E t \in Tasks : ReentrantCall(t)
  PROVE  TaskInv'
  <1> USE DEF TypeOK, TaskInv, BeforeSubmit, vars, workerVars, threadVars, callVars
  <1>1. CASE InitializerReturns
    BY <1>1 DEF InitializerReturns, ThreadGoes
  <1>2. CASE InitializerRaises
    BY <1>2 DEF InitializerRaises, ThreadGoes
  <1>3. CASE SignalFailure
    BY <1>3 DEF SignalFailure, ThreadGoes
  <1>4. CASE Decide
    BY <1>4 DEF Decide, ThreadGoes
  <1>5. CASE SignalReady
    BY <1>5 DEF SignalReady, ThreadGoes
  <1>6. CASE Recheck
    BY <1>6 DEF Recheck, ThreadGoes
  <1>7. CASE TakeStop
    BY <1>7 DEF TakeStop
  <1>8. CASE SkipCancelled
    BY <1>8 DEF SkipCancelled
  <1>9. CASE BeginTask
    BY <1>9 DEF BeginTask
  <1>10. ASSUME NEW ok \in BOOLEAN, EndTask(ok)
        PROVE  TaskInv'
    <2> DEFINE u == stack[Len(stack)]
    <2>1. /\ u \in began /\ u \in Tasks
          /\ \A i \in DOMAIN stack' : i \in DOMAIN stack /\ stack'[i] = stack[i]
      BY <1>10, PopStack, LenProperties DEF EndTask
    <2>2. /\ future' = [future EXCEPT ![u] = IF ok THEN "done" ELSE "failed"]
          /\ \A t \in Tasks : outcome'[t] = outcome[t] \/ outcome'[t] \in {"returned", "call_error"}
          /\ \A t \in Tasks : t # u => outcome'[t] = outcome[t]
      BY <1>10 DEF EndTask
    <2>3. UNCHANGED <<began, pc, task>>
      BY <1>10 DEF EndTask
    <2> HIDE DEF u
    <2> QED
      BY <2>1, <2>2, <2>3
  <1>11. CASE FinalizerReturns
    BY <1>11 DEF FinalizerReturns, ThreadGoes
  <1>12. CASE FinalizerRaises
    BY <1>12 DEF FinalizerRaises, ThreadGoes
  <1>13. CASE ExitThread
    BY <1>13 DEF ExitThread, ThreadGoes
  <1>14. CASE ThreadDies
    BY <1>14 DEF ThreadDies, ThreadGoes
  <1>15. ASSUME NEW t \in Tasks, ReentrantCall(t)
        PROVE  TaskInv'
    <2>1. \A i \in DOMAIN Append(stack, t) :
            \/ i \in DOMAIN stack /\ Append(stack, t)[i] = stack[i]
            \/ Append(stack, t)[i] = t
      BY AppendOne
    <2>2. CASE state = "RUNNING"
      <3>1. \A i \in DOMAIN stack' : stack'[i] \in began'
        BY <1>15, <2>1, <2>2 DEF ReentrantCall
      <3> QED
        BY <1>15, <2>2, <3>1 DEF ReentrantCall, Fresh
    <2>3. CASE state # "RUNNING"
      BY <1>15, <2>3 DEF ReentrantCall, Fresh
    <2> QED
      BY <2>2, <2>3
  <1> QED
    BY <1>1, <1>2, <1>3, <1>4, <1>5, <1>6, <1>7, <1>8, <1>9, <1>10, <1>11, <1>12, <1>13, <1>14, <1>15 DEF ThreadContinues

\* Every step of the worker keeps TaskInv.
LEMMA TaskStep ==
  TypeOK /\ LifeInv /\ TaskInv /\ [Next]_vars => TaskInv'
  <1> SUFFICES ASSUME TypeOK, LifeInv, TaskInv, [Next]_vars PROVE TaskInv'
    OBVIOUS
  <1>1. CASE Next
    BY <1>1, TaskCaller, TaskThread DEF Next
  <1>2. CASE UNCHANGED vars
    BY <1>2 DEF TaskInv, vars, workerVars, threadVars, callVars
  <1> QED
    BY <1>1, <1>2

\* A caller that was told its function did not start can retry it: the function
\* has not run and never will, however the deadlines and the thread interleave.
THEOREM Withdrawn == Spec => []WithdrawnNeverRuns
  <1>1. TaskInv => WithdrawnNeverRuns
    BY DEF TaskInv, WithdrawnNeverRuns
  <1> QED
    BY <1>1, TaskInit, TaskStep, Base, PTL DEF Spec

--------------------------------------------------------------------------------
(* A worker poisoned by a running timeout stays poisoned.                  *)

\* A new worker has timed no call out.
LEMMA PoisonInit ==
  Init => PoisonInv
  BY DEF Init, PoisonInv, PoisonSticks

\* A step of a caller keeps PoisonInv.
LEMMA PoisonCaller ==
  ASSUME TypeOK, LifeInv, PoisonInv, NEW c \in Callers, CallerBegins(c) \/ CallerContinues(c)
  PROVE  PoisonInv'
  <1> USE DEF TypeOK, PoisonInv, PoisonSticks, vars, workerVars, threadVars, callVars
  <1>1. ASSUME NEW t \in Tasks \cup {NoTask}, StartAlreadyRunning(c, t)
        PROVE  PoisonInv'
    BY <1>1 DEF StartAlreadyRunning, Enter, Proceed
  <1>2. ASSUME NEW t \in Tasks \cup {NoTask}, StartRefused(c, t)
        PROVE  PoisonInv'
    BY <1>2 DEF StartRefused, Enter
  <1>3. ASSUME NEW t \in Tasks \cup {NoTask}, StartThread(c, t)
        PROVE  PoisonInv'
    BY <1>3 DEF StartThread, Enter, LifeInv
  <1>4. ASSUME NEW t \in Tasks \cup {NoTask}, StartAwaitsOther(c, t)
        PROVE  PoisonInv'
    BY <1>4 DEF StartAwaitsOther, Enter
  <1>5. CASE SeeReady(c)
    BY <1>5 DEF SeeReady, Goto
  <1>6. CASE AfterReady(c)
    BY <1>6 DEF AfterReady, Proceed, Leave
  <1>7. CASE StartTimesOut(c)
    BY <1>7 DEF StartTimesOut, Goto
  <1>8. CASE CancelStartup(c)
    BY <1>8 DEF CancelStartup, Goto
  <1>9. CASE RequestStop(c)
    BY <1>9 DEF RequestStop, Goto
  <1>10. CASE PutStop(c)
    BY <1>10 DEF PutStop, Goto
  <1>11. CASE FailStart(c)
    BY <1>11 DEF FailStart, Leave
  <1>12. CASE Submit(c)
    BY <1>12 DEF Submit, Goto, Leave
  <1>13. CASE GetResult(c)
    BY <1>13 DEF GetResult, Leave
  <1>14. CASE CallTimesOut(c)
    BY <1>14 DEF CallTimesOut, Goto
  <1>15. CASE CheckDone(c)
    BY <1>15 DEF CheckDone, Leave, Goto
  <1>16. CASE Cancel(c)
    BY <1>16 DEF Cancel, Leave, Goto
  <1>17. CASE Poison(c)
    <2>1. /\ thread \notin {"none", "init", "decide"}
          /\ state \notin {"NEW", "STARTING"}
      BY <1>17 DEF Poison
    <2>2. state' \in {"FAILED", "CLOSING", "CLOSED"} /\ thread' = thread
      BY <1>17, <2>1 DEF Poison, WorkerState
    <2> QED
      BY <2>1, <2>2
  <1>18. CASE CloseUnstarted(c)
    BY <1>18 DEF CloseUnstarted, LifeInv
  <1>19. CASE CloseBegin(c)
    BY <1>19 DEF CloseBegin, Goto
  <1>20. CASE Joined(c)
    BY <1>20 DEF Joined, Goto, Alive
  <1>21. CASE JoinTimesOut(c)
    BY <1>21 DEF JoinTimesOut, Leave
  <1>22. CASE FinishClose(c)
    BY <1>22 DEF FinishClose, Leave
  <1> QED
    BY <1>1, <1>2, <1>3, <1>4, <1>5, <1>6, <1>7, <1>8, <1>9, <1>10, <1>11, <1>12, <1>13, <1>14, <1>15, <1>16, <1>17, <1>18, <1>19, <1>20, <1>21, <1>22
    DEF CallerBegins, CallerContinues

\* A step of the worker thread keeps PoisonInv.
LEMMA PoisonThread ==
  ASSUME TypeOK, LifeInv, PoisonInv, ThreadContinues \/ \E t \in Tasks : ReentrantCall(t)
  PROVE  PoisonInv'
  <1> USE DEF TypeOK, PoisonInv, PoisonSticks, vars, workerVars, threadVars, callVars
  <1>1. CASE InitializerReturns
    BY <1>1 DEF InitializerReturns, ThreadGoes
  <1>2. CASE InitializerRaises
    BY <1>2 DEF InitializerRaises, ThreadGoes
  <1>3. CASE SignalFailure
    BY <1>3 DEF SignalFailure, ThreadGoes
  <1>4. CASE Decide
    BY <1>4 DEF Decide, ThreadGoes
  <1>5. CASE SignalReady
    BY <1>5 DEF SignalReady, ThreadGoes
  <1>6. CASE Recheck
    BY <1>6 DEF Recheck, ThreadGoes
  <1>7. CASE TakeStop
    BY <1>7 DEF TakeStop
  <1>8. CASE SkipCancelled
    BY <1>8 DEF SkipCancelled
  <1>9. CASE BeginTask
    BY <1>9 DEF BeginTask
  <1>10. ASSUME NEW ok \in BOOLEAN, EndTask(ok)
        PROVE  PoisonInv'
    BY <1>10 DEF EndTask
  <1>11. CASE FinalizerReturns
    BY <1>11 DEF FinalizerReturns, ThreadGoes
  <1>12. CASE FinalizerRaises
    BY <1>12 DEF FinalizerRaises, ThreadGoes
  <1>13. CASE ExitThread
    BY <1>13 DEF ExitThread, ThreadGoes
  <1>14. CASE ThreadDies
    BY <1>14 DEF ThreadDies, ThreadGoes
  <1>15. ASSUME NEW t \in Tasks, ReentrantCall(t)
        PROVE  PoisonInv'
    BY <1>15 DEF ReentrantCall
  <1> QED
    BY <1>1, <1>2, <1>3, <1>4, <1>5, <1>6, <1>7, <1>8, <1>9, <1>10, <1>11, <1>12, <1>13, <1>14, <1>15 DEF ThreadContinues

\* Every step of the worker keeps PoisonInv.
LEMMA PoisonStep ==
  TypeOK /\ LifeInv /\ PoisonInv /\ [Next]_vars => PoisonInv'
  <1> SUFFICES ASSUME TypeOK, LifeInv, PoisonInv, [Next]_vars PROVE PoisonInv'
    OBVIOUS
  <1>1. CASE Next
    BY <1>1, PoisonCaller, PoisonThread DEF Next
  <1>2. CASE UNCHANGED vars
    BY <1>2 DEF PoisonInv, PoisonSticks, vars, workerVars, threadVars, callVars
  <1> QED
    BY <1>1, <1>2

\* Once a call has timed out while its function ran, the worker never serves
\* another one, whichever caller starts, calls or closes it afterwards.
THEOREM PoisonedForever == Spec => []PoisonSticks
  <1>1. PoisonInv => PoisonSticks
    BY DEF PoisonInv
  <1> QED
    BY <1>1, PoisonInit, PoisonStep, Base, PTL DEF Spec

--------------------------------------------------------------------------------
(* No accepted task is stranded behind a Stop sentinel.                    *)

\* What Tail does to the queue.
LEMMA TailOf ==
  ASSUME NEW S, NEW s \in Seq(S), s # <<>>
  PROVE  /\ Head(s) = s[1] /\ 1 \in DOMAIN s
         /\ \A i \in DOMAIN Tail(s) :
              i \in Nat \ {0} /\ i + 1 \in DOMAIN s /\ Tail(s)[i] = s[i + 1]
  <1>1. Len(s) \in Nat \ {0} /\ DOMAIN s = 1 .. Len(s)
    BY EmptySeq, LenProperties
  <1>2. /\ Tail(s) \in Seq(S)
        /\ Len(Tail(s)) = Len(s) - 1
        /\ \A i \in 1 .. Len(Tail(s)) : Tail(s)[i] = s[i + 1]
    BY HeadTailProperties
  <1>3. DOMAIN Tail(s) = 1 .. Len(s) - 1
    BY <1>2, LenProperties
  <1>4. Head(s) = s[1]
    OBVIOUS
  <1> QED
    BY <1>1, <1>2, <1>3, <1>4

\* The queue of a new worker is empty.
LEMMA StopInit ==
  Init => StopInv
  BY DEF Init, StopInv, NothingStranded, Left

\* A step of a caller keeps StopInv.
LEMMA StopCaller ==
  ASSUME TypeOK, LifeInv, PoisonInv, StopInv, NEW c \in Callers, CallerBegins(c) \/ CallerContinues(c)
  PROVE  StopInv'
  <1> USE DEF TypeOK, StopInv, NothingStranded, Left, vars, workerVars, threadVars, callVars
  <1>1. ASSUME NEW t \in Tasks \cup {NoTask}, StartAlreadyRunning(c, t)
        PROVE  StopInv'
    BY <1>1 DEF StartAlreadyRunning, Enter, Proceed
  <1>2. ASSUME NEW t \in Tasks \cup {NoTask}, StartRefused(c, t)
        PROVE  StopInv'
    BY <1>2 DEF StartRefused, Enter
  <1>3. ASSUME NEW t \in Tasks \cup {NoTask}, StartThread(c, t)
        PROVE  StopInv'
    BY <1>3 DEF StartThread, Enter, LifeInv
  <1>4. ASSUME NEW t \in Tasks \cup {NoTask}, StartAwaitsOther(c, t)
        PROVE  StopInv'
    BY <1>4 DEF StartAwaitsOther, Enter
  <1>5. CASE SeeReady(c)
    BY <1>5 DEF SeeReady, Goto
  <1>6. CASE AfterReady(c)
    BY <1>6 DEF AfterReady, Proceed, Leave
  <1>7. CASE StartTimesOut(c)
    BY <1>7 DEF StartTimesOut, Goto
  <1>8. CASE CancelStartup(c)
    BY <1>8 DEF CancelStartup, Goto
  <1>9. CASE RequestStop(c)
    BY <1>9 DEF RequestStop, Goto
  <1>10. CASE PutStop(c)
    BY <1>10 DEF PutStop, Goto
  <1>11. CASE FailStart(c)
    BY <1>11 DEF FailStart, Leave
  <1>12. CASE Submit(c)
    <2>1. \A i \in DOMAIN Append(queue, task[c]) :
            \/ i \in DOMAIN queue /\ Append(queue, task[c])[i] = queue[i]
            \/ i = Len(queue) + 1 /\ Append(queue, task[c])[i] = task[c]
      <3>1. task[c] \in Tasks
        BY <1>12 DEF Submit, LifeInv, InCall
      <3> QED
        BY <3>1, AppendOne
    <2>2. Len(queue) \in Nat /\ DOMAIN queue = 1 .. Len(queue)
      BY LenProperties
    <2>3. CASE state # "RUNNING"
      BY <1>12, <2>3 DEF Submit, Leave
    <2>4. CASE state = "RUNNING"
      <3>1. queue' = Append(queue, task[c]) /\ task[c] # Stop
        BY <1>12, <2>4, StaWorkerAssumption DEF Submit, LifeInv, InCall
      <3>2. ~startupCancelled => \A i \in DOMAIN queue' : queue'[i] # Stop
        BY <2>1, <2>4, <3>1
      <3>3. thread \in Left => startupCancelled
        BY <2>4
      <3>4. UNCHANGED <<workerVars, threadVars>> /\ pc' = [pc EXCEPT ![c] = "wait"]
        BY <1>12, <2>4 DEF Submit, Goto
      <3> QED
        BY <2>4, <3>2, <3>3, <3>4
    <2> QED
      BY <2>3, <2>4
  <1>13. CASE GetResult(c)
    BY <1>13 DEF GetResult, Leave
  <1>14. CASE CallTimesOut(c)
    BY <1>14 DEF CallTimesOut, Goto
  <1>15. CASE CheckDone(c)
    BY <1>15 DEF CheckDone, Leave, Goto
  <1>16. CASE Cancel(c)
    BY <1>16 DEF Cancel, Leave, Goto
  <1>17. CASE Poison(c)
    <2>1. \A i \in DOMAIN Append(queue, Stop) :
            \/ i \in DOMAIN queue /\ Append(queue, Stop)[i] = queue[i]
            \/ i = Len(queue) + 1 /\ Append(queue, Stop)[i] = Stop
      BY AppendOne
    <2>2. Len(queue) \in Nat /\ DOMAIN queue = 1 .. Len(queue)
      BY LenProperties
    <2>3. CASE UNCHANGED <<state, stopRequested, queue>>
      BY <1>17, <2>3 DEF Poison, Leave
    <2>4. CASE queue' = Append(queue, Stop) /\ stopRequested' /\ state' \in {"FAILED", "CLOSING"}
      <3>1. ~startupCancelled =>
              \A i, j \in DOMAIN queue' : i < j /\ queue'[i] = Stop => queue'[j] = Stop
        BY <2>1, <2>2, <2>4
      <3>2. (\A i \in DOMAIN queue : queue[i] = Stop) =>
              \A i \in DOMAIN queue' : queue'[i] = Stop
        BY <2>1, <2>4
      <3>3. UNCHANGED <<startupCancelled, threadVars>>
        BY <1>17 DEF Poison
      <3>4. \A d \in Callers : pc'[d] \in {"late_stop", "late_put", "late_fail"} => pc'[d] = pc[d]
        BY <1>17 DEF Poison, Leave
      <3> QED
        BY <2>4, <3>1, <3>2, <3>3, <3>4
    <2> QED
      BY <1>17, <2>3, <2>4 DEF Poison
  <1>18. CASE CloseUnstarted(c)
    BY <1>18 DEF CloseUnstarted
  <1>19. CASE CloseBegin(c)
    <2>1. \A i \in DOMAIN Append(queue, Stop) :
            \/ i \in DOMAIN queue /\ Append(queue, Stop)[i] = queue[i]
            \/ i = Len(queue) + 1 /\ Append(queue, Stop)[i] = Stop
      BY AppendOne
    <2>2. Len(queue) \in Nat /\ DOMAIN queue = 1 .. Len(queue)
      BY LenProperties
    <2>3. CASE UNCHANGED <<state, stopRequested, queue>>
      BY <1>19, <2>3 DEF CloseBegin, Goto
    <2>4. CASE queue' = Append(queue, Stop) /\ stopRequested' /\ state' \in {"FAILED", "CLOSING"}
      <3>1. ~startupCancelled =>
              \A i, j \in DOMAIN queue' : i < j /\ queue'[i] = Stop => queue'[j] = Stop
        BY <2>1, <2>2, <2>4
      <3>2. (\A i \in DOMAIN queue : queue[i] = Stop) =>
              \A i \in DOMAIN queue' : queue'[i] = Stop
        BY <2>1, <2>4
      <3>3. UNCHANGED <<startupCancelled, threadVars>>
        BY <1>19 DEF CloseBegin
      <3>4. \A d \in Callers : pc'[d] \in {"late_stop", "late_put", "late_fail"} => pc'[d] = pc[d]
        BY <1>19 DEF CloseBegin, Goto
      <3> QED
        BY <2>4, <3>1, <3>2, <3>3, <3>4
    <2> QED
      BY <1>19, <2>3, <2>4 DEF CloseBegin
  <1>20. CASE Joined(c)
    BY <1>20 DEF Joined, Goto, Alive
  <1>21. CASE JoinTimesOut(c)
    BY <1>21 DEF JoinTimesOut, Leave
  <1>22. CASE FinishClose(c)
    BY <1>22 DEF FinishClose, Leave
  <1> QED
    BY <1>1, <1>2, <1>3, <1>4, <1>5, <1>6, <1>7, <1>8, <1>9, <1>10, <1>11, <1>12, <1>13, <1>14, <1>15, <1>16, <1>17, <1>18, <1>19, <1>20, <1>21, <1>22
    DEF CallerBegins, CallerContinues

\* A step of the worker thread keeps StopInv.
LEMMA StopThread ==
  ASSUME TypeOK, LifeInv, PoisonInv, StopInv, ThreadContinues \/ \E t \in Tasks : ReentrantCall(t)
  PROVE  StopInv'
  <1> USE DEF TypeOK, StopInv, NothingStranded, Left, vars, workerVars, threadVars, callVars
  <1>1. CASE InitializerReturns
    BY <1>1 DEF InitializerReturns, ThreadGoes
  <1>2. CASE InitializerRaises
    BY <1>2 DEF InitializerRaises, ThreadGoes
  <1>3. CASE SignalFailure
    BY <1>3 DEF SignalFailure, ThreadGoes
  <1>4. CASE Decide
    BY <1>4 DEF Decide, ThreadGoes
  <1>5. CASE SignalReady
    BY <1>5 DEF SignalReady, ThreadGoes
  <1>6. CASE Recheck
    BY <1>6 DEF Recheck, ThreadGoes
  <1>7. CASE TakeStop
    <2>1. /\ Head(queue) = queue[1] /\ 1 \in DOMAIN queue
          /\ \A i \in DOMAIN Tail(queue) :
               i \in Nat \ {0} /\ i + 1 \in DOMAIN queue /\ Tail(queue)[i] = queue[i + 1]
      BY <1>7, TailOf DEF TakeStop
    <2> QED
      BY <1>7, <2>1 DEF TakeStop
  <1>8. CASE SkipCancelled
    <2>1. /\ Head(queue) = queue[1] /\ 1 \in DOMAIN queue
          /\ \A i \in DOMAIN Tail(queue) :
               i \in Nat \ {0} /\ i + 1 \in DOMAIN queue /\ Tail(queue)[i] = queue[i + 1]
      BY <1>8, TailOf DEF SkipCancelled
    <2> QED
      BY <1>8, <2>1 DEF SkipCancelled
  <1>9. CASE BeginTask
    <2>1. /\ Head(queue) = queue[1] /\ 1 \in DOMAIN queue
          /\ \A i \in DOMAIN Tail(queue) :
               i \in Nat \ {0} /\ i + 1 \in DOMAIN queue /\ Tail(queue)[i] = queue[i + 1]
      BY <1>9, TailOf DEF BeginTask
    <2> QED
      BY <1>9, <2>1 DEF BeginTask
  <1>10. ASSUME NEW ok \in BOOLEAN, EndTask(ok)
        PROVE  StopInv'
    BY <1>10 DEF EndTask
  <1>11. CASE FinalizerReturns
    BY <1>11 DEF FinalizerReturns, ThreadGoes
  <1>12. CASE FinalizerRaises
    BY <1>12 DEF FinalizerRaises, ThreadGoes
  <1>13. CASE ExitThread
    BY <1>13 DEF ExitThread, ThreadGoes
  <1>14. CASE ThreadDies
    BY <1>14 DEF ThreadDies, ThreadGoes
  <1>15. ASSUME NEW t \in Tasks, ReentrantCall(t)
        PROVE  StopInv'
    BY <1>15 DEF ReentrantCall
  <1> QED
    BY <1>1, <1>2, <1>3, <1>4, <1>5, <1>6, <1>7, <1>8, <1>9, <1>10, <1>11, <1>12, <1>13, <1>14, <1>15 DEF ThreadContinues

\* Every step of the worker keeps StopInv.
LEMMA StopStep ==
  TypeOK /\ LifeInv /\ PoisonInv /\ StopInv /\ [Next]_vars => StopInv'
  <1> SUFFICES ASSUME TypeOK, LifeInv, PoisonInv, StopInv, [Next]_vars PROVE StopInv'
    OBVIOUS
  <1>1. CASE Next
    BY <1>1, StopCaller, StopThread DEF Next
  <1>2. CASE UNCHANGED vars
    BY <1>2 DEF StopInv, NothingStranded, vars, workerVars, threadVars, callVars
  <1> QED
    BY <1>1, <1>2

\* A task the worker accepted is never left behind a Stop sentinel, and a thread
\* that has served a task leaves no task in the queue, unless a start deadline
\* expired.
THEOREM NotStranded == Spec => []NothingStranded
  <1>1. StopInv => NothingStranded
    BY DEF StopInv
  <1> QED
    BY <1>1, StopInit, StopStep, PoisonInit, PoisonStep, Base, PTL DEF Spec

--------------------------------------------------------------------------------
(* Sequences.  A property of every sequence is proved by induction over the *)
(* set of the sequences that have it.                                      *)

\* A set of naturals that has 0 and the successors of its members has them all.
LEMMA NatSetInduction ==
  ASSUME NEW A, 0 \in A, \A n \in Nat : n \in A => n + 1 \in A
  PROVE  Nat \subseteq A
<1> DEFINE T == {0 .. n : n \in Nat \ A}
           R == StrictSubsetOrdering(Nat)
<1> SUFFICES ASSUME Nat \ A # {} PROVE FALSE
  OBVIOUS
<1>1. IsWellFoundedOn(R, FiniteSubsetsOf(Nat))
  BY FS_StrictSubsetOrderingWellFounded
<1>2. T \subseteq FiniteSubsetsOf(Nat) /\ T # {}
  <2>1. ASSUME NEW n \in Nat PROVE 0 .. n \in FiniteSubsetsOf(Nat)
    <3>1. IsFiniteSet(0 .. n)
      BY FS_Interval, SMT
    <3>2. 0 .. n \in SUBSET Nat
      OBVIOUS
    <3> QED
      BY <3>1, <3>2 DEF FiniteSubsetsOf
  <2> QED
    BY <2>1
<1>3. PICK x \in T : \A y \in T : <<y, x>> \notin R
  <2> HIDE DEF T, R
  <2> QED
    BY <1>1, <1>2, WFMin
<1>4. PICK m \in Nat \ A : x = 0 .. m
  BY <1>3
<1>5. m # 0 /\ m - 1 \in Nat /\ (m - 1) + 1 = m
  BY <1>4
<1>6. m - 1 \notin A
  BY <1>4, <1>5
<1>7. 0 .. m - 1 \in T
  BY <1>5, <1>6
<1>8. 0 .. m - 1 \in SUBSET Nat /\ 0 .. m \in SUBSET Nat
  OBVIOUS
<1>9. 0 .. m - 1 \subseteq 0 .. m /\ m \in 0 .. m /\ m \notin 0 .. m - 1
  BY <1>4
<1>10. <<0 .. m - 1, x>> \in R
  BY <1>4, <1>8, <1>9 DEF StrictSubsetOrdering
<1> QED
  BY <1>3, <1>7, <1>10

\* A set that has the empty sequence and what an Append makes of its members has
\* every sequence.
LEMMA SeqSetInduction ==
  ASSUME NEW T, NEW A, <<>> \in A,
         \A s \in Seq(T), e \in T : s \in A => Append(s, e) \in A
  PROVE  Seq(T) \subseteq A
<1> DEFINE B == {n \in Nat : \A s \in Seq(T) : Len(s) = n => s \in A}
<1>1. 0 \in B
  BY EmptySeq
<1>2. ASSUME NEW n \in Nat, n \in B PROVE n + 1 \in B
  <2> SUFFICES ASSUME NEW s \in Seq(T), Len(s) = n + 1 PROVE s \in A
    BY <1>2
  <2>1. s # <<>>
    BY EmptySeq
  <2>2. PICK r \in Seq(T), e \in T : s = Append(r, e)
    BY <2>1, SequenceEmptyOrAppend
  <2>3. Len(r) = n
    BY <2>2, AppendProperties, LenProperties
  <2> QED
    BY <1>2, <2>2, <2>3
<1> HIDE DEF B
<1>3. Nat \subseteq B
  BY <1>1, <1>2, NatSetInduction
<1> QED
  BY <1>3, LenProperties DEF B

\* f solves the recursion of Among for s up to m.
IsKept(f, S, s, m) ==
  f = [n \in 0 .. m |->
         IF n = 0 THEN <<>>
         ELSE IF s[n] \in S THEN Append(f[n - 1], s[n]) ELSE f[n - 1]]

\* The recursion that defines Among has a solution of every length.
LEMMA KeptExists ==
  ASSUME NEW S, NEW s
  PROVE  \A m \in Nat : \E f : IsKept(f, S, s, m)
<1> DEFINE A == {m \in Nat : \E f : IsKept(f, S, s, m)}
<1>1. 0 \in A
  <2>1. IsKept([n \in 0 .. 0 |-> <<>>], S, s, 0)
    BY DEF IsKept
  <2> QED
    BY <2>1
<1>2. ASSUME NEW m \in Nat, m \in A PROVE m + 1 \in A
  <2>1. PICK f : IsKept(f, S, s, m)
    BY <1>2
  <2> DEFINE g == [n \in 0 .. m + 1 |->
                     IF n = m + 1
                     THEN IF s[n] \in S THEN Append(f[m], s[n]) ELSE f[m]
                     ELSE f[n]]
  <2>2. \A n \in 0 .. m : f[n] = IF n = 0 THEN <<>>
                                 ELSE IF s[n] \in S THEN Append(f[n - 1], s[n]) ELSE f[n - 1]
    BY <2>1 DEF IsKept
  <2>3. \A n \in 0 .. m + 1 :
          g[n] = IF n = 0 THEN <<>>
                 ELSE IF s[n] \in S THEN Append(g[n - 1], s[n]) ELSE g[n - 1]
    BY <2>2
  <2>4. IsKept(g, S, s, m + 1)
    BY <2>3 DEF IsKept
  <2> HIDE DEF g
  <2> QED
    BY <2>4
<1> HIDE DEF A
<1>3. Nat \subseteq A
  BY <1>1, <1>2, NatSetInduction
<1> QED
  BY <1>3 DEF A

\* Among is the last value of such a solution.
LEMMA AmongIs ==
  ASSUME NEW S, NEW s, Len(s) \in Nat
  PROVE  \E f : IsKept(f, S, s, Len(s)) /\ Among(S, s) = f[Len(s)]
<1> DEFINE f == CHOOSE f : IsKept(f, S, s, Len(s))
<1>1. IsKept(f, S, s, Len(s))
  BY KeptExists
<1>2. Among(S, s) = f[Len(s)]
  BY DEF Among, IsKept
<1> HIDE DEF f
<1> QED
  BY <1>1, <1>2

\* Solutions for two sequences agree as far as the sequences do.
LEMMA KeptAgree ==
  ASSUME NEW S, NEW s, NEW r, NEW m \in Nat, NEW k \in Nat, NEW f, NEW g,
         IsKept(f, S, s, m), IsKept(g, S, r, k), m <= k,
         \A n \in 1 .. m : s[n] = r[n]
  PROVE  f[m] = g[m]
<1> DEFINE A == {n \in Nat : n <= m => f[n] = g[n]}
<1>0. /\ \A n \in 0 .. m : f[n] = IF n = 0 THEN <<>>
                            ELSE IF s[n] \in S THEN Append(f[n - 1], s[n]) ELSE f[n - 1]
      /\ \A n \in 0 .. k : g[n] = IF n = 0 THEN <<>>
                            ELSE IF r[n] \in S THEN Append(g[n - 1], r[n]) ELSE g[n - 1]
  BY DEF IsKept
<1>1. 0 \in A
  BY <1>0
<1>2. ASSUME NEW n \in Nat, n \in A PROVE n + 1 \in A
  <2> SUFFICES ASSUME n + 1 <= m PROVE f[n + 1] = g[n + 1]
    OBVIOUS
  <2>1. /\ n + 1 \in 1 .. m /\ n + 1 \in 0 .. m /\ n + 1 \in 0 .. k
        /\ n + 1 # 0 /\ (n + 1) - 1 = n
    OBVIOUS
  <2>2. f[n] = g[n]
    BY <1>2, <2>1
  <2>3. s[n + 1] = r[n + 1]
    BY <2>1
  <2>4. f[n + 1] = IF s[n + 1] \in S THEN Append(f[n], s[n + 1]) ELSE f[n]
    BY <1>0, <2>1
  <2>5. g[n + 1] = IF r[n + 1] \in S THEN Append(g[n], r[n + 1]) ELSE g[n]
    BY <1>0, <2>1
  <2> QED
    BY <2>2, <2>3, <2>4, <2>5
<1> HIDE DEF A
<1>3. Nat \subseteq A
  BY <1>1, <1>2, NatSetInduction
<1> QED
  BY <1>3 DEF A

\* Nothing is among nothing.
LEMMA AmongEmpty ==
  ASSUME NEW S
  PROVE  Among(S, <<>>) = <<>>
<1>1. Len(<<>>) = 0
  BY EmptySeq
<1>2. PICK f : IsKept(f, S, <<>>, 0) /\ Among(S, <<>>) = f[0]
  BY <1>1, AmongIs
<1> QED
  BY <1>2 DEF IsKept

\* An entry at the end is kept or dropped by itself.
LEMMA AmongAppend ==
  ASSUME NEW S, NEW T, NEW s \in Seq(T), NEW e \in T
  PROVE  Among(S, Append(s, e)) = IF e \in S THEN Append(Among(S, s), e) ELSE Among(S, s)
<1> DEFINE r == Append(s, e)
           m == Len(s)
<1>1. m \in Nat /\ Len(r) = m + 1 /\ (\A n \in 1 .. m : s[n] = r[n]) /\ r[m + 1] = e
  BY AppendProperties, LenProperties
<1>2. PICK f : IsKept(f, S, s, m) /\ Among(S, s) = f[m]
  BY <1>1, AmongIs
<1> HIDE DEF r, m
<1>3. PICK g : IsKept(g, S, r, m + 1) /\ Among(S, r) = g[m + 1]
  BY <1>1, AmongIs
<1>4. f[m] = g[m]
  BY <1>1, <1>2, <1>3, KeptAgree
<1>5. g[m + 1] = IF r[m + 1] \in S THEN Append(g[m], r[m + 1]) ELSE g[m]
  <2>1. m + 1 \in 0 .. m + 1 /\ m + 1 # 0 /\ (m + 1) - 1 = m
    BY <1>1
  <2> QED
    BY <1>3, <2>1 DEF IsKept
<1>6. r[m + 1] = e
  BY <1>1
<1> QED
  BY <1>2, <1>3, <1>4, <1>5, <1>6 DEF r


\* Append adds one member.
LEMMA AppendMembers ==
  ASSUME NEW T, NEW s \in Seq(T), NEW e \in T, NEW t
  PROVE  InSeq(t, Append(s, e)) <=> t = e \/ InSeq(t, s)
<1>1. /\ Len(Append(s, e)) = Len(s) + 1
      /\ \A i \in 1 .. Len(s) : Append(s, e)[i] = s[i]
      /\ Append(s, e)[Len(s) + 1] = e
      /\ Append(s, e) \in Seq(T)
  BY AppendProperties
<1>2. /\ DOMAIN Append(s, e) = 1 .. Len(s) + 1
      /\ DOMAIN s = 1 .. Len(s)
      /\ Len(s) \in Nat
  BY <1>1, LenProperties
<1> QED
  BY <1>1, <1>2 DEF InSeq

\* The members kept are of the type of the sequence.
LEMMA AmongType ==
  ASSUME NEW S, NEW T, NEW s \in Seq(T)
  PROVE  Among(S, s) \in Seq(T)
<1> DEFINE A == {r \in Seq(T) : Among(S, r) \in Seq(T)}
<1>1. <<>> \in A
  BY AmongEmpty, EmptySeq
<1>2. ASSUME NEW r \in Seq(T), NEW e \in T, r \in A PROVE Append(r, e) \in A
  <2>1. Among(S, Append(r, e)) = IF e \in S THEN Append(Among(S, r), e) ELSE Among(S, r)
    BY AmongAppend
  <2>2. Append(r, e) \in Seq(T)
    BY AppendProperties
  <2>3. Append(Among(S, r), e) \in Seq(T)
    BY <1>2, AppendProperties
  <2> QED
    BY <1>2, <2>1, <2>2, <2>3
<1> HIDE DEF A
<1>3. Seq(T) \subseteq A
  BY <1>1, <1>2, SeqSetInduction
<1> QED
  BY <1>3 DEF A

\* Among keeps the members of S, all of them and no other.
LEMMA AmongMembers ==
  ASSUME NEW S, NEW T, NEW s \in Seq(T), NEW t
  PROVE  InSeq(t, Among(S, s)) <=> t \in S /\ InSeq(t, s)
<1> DEFINE A == {r \in Seq(T) : InSeq(t, Among(S, r)) <=> t \in S /\ InSeq(t, r)}
<1>1. <<>> \in A
  BY AmongEmpty, EmptySeq DEF InSeq
<1>2. ASSUME NEW r \in Seq(T), NEW e \in T, r \in A PROVE Append(r, e) \in A
  <2>1. Append(r, e) \in Seq(T) /\ Among(S, r) \in Seq(T)
    BY AppendProperties, AmongType
  <2>2. \A q \in Seq(T) : InSeq(t, Append(q, e)) <=> t = e \/ InSeq(t, q)
    BY AppendMembers
  <2>3. Among(S, Append(r, e)) = IF e \in S THEN Append(Among(S, r), e) ELSE Among(S, r)
    BY AmongAppend
  <2>4. InSeq(t, Append(r, e)) <=> t = e \/ InSeq(t, r)
    BY <2>2
  <2>5. InSeq(t, Append(Among(S, r), e)) <=> t = e \/ InSeq(t, Among(S, r))
    BY <2>1, <2>2
  <2>6. InSeq(t, Among(S, r)) <=> t \in S /\ InSeq(t, r)
    BY <1>2
  <2>7. CASE e \in S
    BY <2>1, <2>3, <2>4, <2>5, <2>6, <2>7
  <2>8. CASE e \notin S
    BY <2>1, <2>3, <2>4, <2>6, <2>8
  <2> QED
    BY <2>7, <2>8
<1> HIDE DEF A
<1>3. Seq(T) \subseteq A
  BY <1>1, <1>2, SeqSetInduction
<1> QED
  BY <1>3 DEF A

\* Sets that agree on the entries keep the same.
LEMMA AmongSame ==
  ASSUME NEW S, NEW R, NEW T, NEW s \in Seq(T),
         \A i \in DOMAIN s : s[i] \in S <=> s[i] \in R
  PROVE  Among(S, s) = Among(R, s)
<1> DEFINE A == {r \in Seq(T) : (\A i \in DOMAIN r : r[i] \in S <=> r[i] \in R) =>
                                  Among(S, r) = Among(R, r)}
<1>1. <<>> \in A
  BY AmongEmpty, EmptySeq
<1>2. ASSUME NEW r \in Seq(T), NEW e \in T, r \in A PROVE Append(r, e) \in A
  <2>1. Append(r, e) \in Seq(T)
    BY AppendProperties
  <2> SUFFICES ASSUME \A i \in DOMAIN Append(r, e) : Append(r, e)[i] \in S <=> Append(r, e)[i] \in R
               PROVE  Among(S, Append(r, e)) = Among(R, Append(r, e))
    BY <2>1
  <2>2. \A t : InSeq(t, Append(r, e)) => (t \in S <=> t \in R)
    BY DEF InSeq
  <2>3. \A t : t = e \/ InSeq(t, r) => (t \in S <=> t \in R)
    BY <2>2, AppendMembers
  <2>4. (e \in S <=> e \in R) /\ \A i \in DOMAIN r : r[i] \in S <=> r[i] \in R
    BY <2>3 DEF InSeq
  <2>6. Among(S, r) = Among(R, r)
    BY <1>2, <2>4
  <2>5. /\ Among(S, Append(r, e)) = IF e \in S THEN Append(Among(S, r), e) ELSE Among(S, r)
        /\ Among(R, Append(r, e)) = IF e \in R THEN Append(Among(R, r), e) ELSE Among(R, r)
    BY AmongAppend
  <2> QED
    BY <2>4, <2>5, <2>6
<1> HIDE DEF A
<1>3. Seq(T) \subseteq A
  BY <1>1, <1>2, SeqSetInduction
<1> QED
  BY <1>3 DEF A

\* To keep twice is to keep what is in both sets.
LEMMA AmongAmong ==
  ASSUME NEW S, NEW R, NEW T, NEW s \in Seq(T)
  PROVE  Among(R, Among(S, s)) = Among(R \cap S, s)
<1> DEFINE A == {r \in Seq(T) : Among(R, Among(S, r)) = Among(R \cap S, r)}
<1>1. <<>> \in A
  BY AmongEmpty, EmptySeq
<1>2. ASSUME NEW r \in Seq(T), NEW e \in T, r \in A PROVE Append(r, e) \in A
  <2>1. Append(r, e) \in Seq(T) /\ Among(S, r) \in Seq(T)
    BY AppendProperties, AmongType
  <2>2. Among(R \cap S, Append(r, e)) =
          IF e \in R \cap S THEN Append(Among(R \cap S, r), e) ELSE Among(R \cap S, r)
    BY AmongAppend
  <2>3. Among(S, Append(r, e)) = IF e \in S THEN Append(Among(S, r), e) ELSE Among(S, r)
    BY AmongAppend
  <2>4. Among(R, Append(Among(S, r), e)) =
          IF e \in R THEN Append(Among(R, Among(S, r)), e) ELSE Among(R, Among(S, r))
    BY <2>1, AmongAppend
  <2> QED
    BY <1>2, <2>1, <2>2, <2>3, <2>4
<1> HIDE DEF A
<1>3. Seq(T) \subseteq A
  BY <1>1, <1>2, SeqSetInduction
<1> QED
  BY <1>3 DEF A

\* The first entry is kept as the first or dropped.
LEMMA AmongTail ==
  ASSUME NEW S, NEW T, NEW s \in Seq(T), s # <<>>
  PROVE  IF Head(s) \in S
         THEN /\ Among(S, s) # <<>>
              /\ Head(Among(S, s)) = Head(s)
              /\ Tail(Among(S, s)) = Among(S, Tail(s))
         ELSE Among(S, s) = Among(S, Tail(s))
<1> DEFINE Split(r) == IF Head(r) \in S
                       THEN /\ Among(S, r) # <<>>
                            /\ Head(Among(S, r)) = Head(r)
                            /\ Tail(Among(S, r)) = Among(S, Tail(r))
                       ELSE Among(S, r) = Among(S, Tail(r))
           A == {r \in Seq(T) : r # <<>> => Split(r)}
<1>1. <<>> \in A
  BY EmptySeq
<1>2. ASSUME NEW r \in Seq(T), NEW e \in T, r \in A PROVE Append(r, e) \in A
  <2> DEFINE q == Append(r, e)
  <2>1. q \in Seq(T) /\ Among(S, r) \in Seq(T)
    BY AppendProperties, AmongType
  <2>2. Among(S, q) = IF e \in S THEN Append(Among(S, r), e) ELSE Among(S, r)
    BY AmongAppend
  <2>3. CASE r = <<>>
    <3>1. Head(q) = e /\ Tail(q) = <<>>
      BY <2>3, HeadTailAppend
    <3>2. Among(S, r) = <<>> /\ Among(S, Tail(q)) = <<>>
      BY <2>3, <3>1, AmongEmpty
    <3>3. e \in S => Among(S, q) = Append(<<>>, e)
      BY <2>2, <3>2
    <3>4. /\ Append(<<>>, e) # <<>>
          /\ Head(Append(<<>>, e)) = e
          /\ Tail(Append(<<>>, e)) = <<>>
      BY <2>3, AppendProperties, HeadTailAppend
    <3>5. e \notin S => Among(S, q) = <<>>
      BY <2>2, <3>2
    <3>6. Split(q)
      <4> HIDE DEF q
      <4> QED
        BY <3>1, <3>2, <3>3, <3>4, <3>5
    <3> QED
      BY <2>1, <3>6
  <2>4. CASE r # <<>>
    <3>1. Head(q) = Head(r) /\ Tail(q) = Append(Tail(r), e) /\ Tail(r) \in Seq(T)
      BY <2>4, HeadTailAppend, HeadTailProperties
    <3>2. Among(S, Tail(q)) = IF e \in S THEN Append(Among(S, Tail(r)), e) ELSE Among(S, Tail(r))
      <4>1. \A u \in Seq(T) : Among(S, Append(u, e)) = IF e \in S THEN Append(Among(S, u), e) ELSE Among(S, u)
        BY AmongAppend
      <4> HIDE DEF q
      <4> QED
        BY <3>1, <4>1
    <3>3. Split(r)
      BY <1>2, <2>4
    <3>4. /\ Append(Among(S, r), e) # <<>>
          /\ Among(S, r) # <<>> =>
               /\ Head(Append(Among(S, r), e)) = Head(Among(S, r))
               /\ Tail(Append(Among(S, r), e)) = Append(Tail(Among(S, r)), e)
      BY <2>1, AppendProperties, HeadTailAppend
    <3>5. Split(q)
      <4> HIDE DEF q
      <4>1. CASE Head(r) \in S
        <5>1. CASE e \in S
          BY <2>2, <3>1, <3>2, <3>3, <3>4, <4>1, <5>1
        <5>2. CASE e \notin S
          BY <2>2, <3>1, <3>2, <3>3, <4>1, <5>2
        <5> QED
          BY <5>1, <5>2
      <4>2. CASE Head(r) \notin S
        BY <2>2, <3>1, <3>2, <3>3, <4>2
      <4> QED
        BY <4>1, <4>2
    <3> QED
      BY <2>1, <3>5
  <2> QED
    BY <2>3, <2>4
<1> HIDE DEF A
<1>3. Seq(T) \subseteq A
  BY <1>1, <1>2, SeqSetInduction
<1> QED
  BY <1>3 DEF A

--------------------------------------------------------------------------------
(* The executor: what its proof needs of the worker.                       *)

\* A caller outside a call holds no task; one that waits for a task has handed
\* it over.
HolderInv ==
  \A c \in Callers :
    /\ pc[c] \in {"idle", "join", "finish_close"} => task[c] = NoTask
    /\ pc[c] \in {"wait", "expired", "cancel", "poison"} => future[task[c]] # "none"

\* A thread that has not announced itself finds the worker starting, or told
\* to stop: no other way leaves the unopened intake.
OpeningInv ==
  thread \in {"init", "decide"} => state = "STARTING" \/ startupCancelled \/ stopRequested

\* The queue holds every task that waits, no task twice, and beside them only
\* withdrawn tasks and sentinels.
QueueInv ==
  /\ \A i \in DOMAIN queue : queue[i] \in Tasks => future[queue[i]] \in {"pending", "cancelled"}
  /\ \A i, j \in DOMAIN queue : queue[i] = queue[j] /\ queue[i] # Stop => i = j
  /\ \A t \in Tasks : future[t] = "pending" => InSeq(t, queue)

EntryInv == HolderInv /\ OpeningInv

--------------------------------------------------------------------------------
(* What a step of the worker shows of the executor.                        *)

\* What the executor shows of outcomes and of the thread.
Refusals == {"refused", "start_timeout"}
Ended == thread \in {"failed", "finalize", "exit", "last", "dead"}
Refused(t) == outcome[t] \in Refusals

\* Nothing the executor shows, except perhaps that one more sentinel waits.
Idles ==
  /\ UNCHANGED <<stack, began, future>>
  /\ queue' \in {queue, Append(queue, Stop)}
  /\ Ended' = Ended
  /\ \A t \in Tasks : Refused(t)' = Refused(t)

\* A task that was never handed over is refused.
Refuses(t) ==
  /\ t \in Tasks /\ future[t] = "none" /\ ~Refused(t)
  /\ UNCHANGED <<stack, began, queue, future>>
  /\ Ended' = Ended
  /\ \A u \in Tasks : Refused(u)' = (u = t \/ Refused(u))

\* A running worker takes a task into its queue.
Accepts(t) ==
  /\ t \in Tasks /\ future[t] = "none" /\ ~Refused(t)
  /\ state = "RUNNING"
  /\ queue' = Append(queue, t)
  /\ future' = [future EXCEPT ![t] = "pending"]
  /\ UNCHANGED <<stack, began>>
  /\ Ended' = Ended
  /\ \A u \in Tasks : Refused(u)' = Refused(u)

\* A waiting task is withdrawn.
Withdraws(t) ==
  /\ t \in Tasks /\ future[t] = "pending"
  /\ future' = [future EXCEPT ![t] = "cancelled"]
  /\ UNCHANGED <<stack, began, queue>>
  /\ Ended' = Ended
  /\ \A u \in Tasks : Refused(u)' = Refused(u)

\* The thread drops a sentinel or a withdrawn task.
Drops ==
  /\ queue # <<>>
  /\ Head(queue) = Stop \/ future[Head(queue)] # "pending"
  /\ queue' = Tail(queue)

\* The thread passes over an entry of the queue.
Skips ==
  /\ Drops
  /\ UNCHANGED <<stack, began, future>>
  /\ Ended' = Ended
  /\ \A u \in Tasks : Refused(u)' = Refused(u)

\* The thread leaves its loop, or never enters it.
Ends ==
  /\ stack = <<>> /\ Ended'
  /\ Drops \/ UNCHANGED queue
  /\ UNCHANGED <<stack, began, future>>
  /\ \A u \in Tasks : Refused(u)' = Refused(u)

\* The thread begins the task at the head of the queue.
Begins ==
  /\ ~Ended /\ ~Ended' /\ stack = <<>>
  /\ queue # <<>> /\ Head(queue) \in Tasks /\ future[Head(queue)] = "pending"
  /\ future' = [future EXCEPT ![Head(queue)] = "running"]
  /\ stack' = <<Head(queue)>>
  /\ queue' = Tail(queue)
  /\ \A u \in Tasks : Refused(u)' = Refused(u)

\* The running task calls the worker.
Nests(t) ==
  /\ t \in Tasks /\ future[t] = "none" /\ ~Refused(t)
  /\ state = "RUNNING" /\ stack # <<>>
  /\ stack' = Append(stack, t)
  /\ future' = [future EXCEPT ![t] = "running"]
  /\ UNCHANGED queue
  /\ Ended' = Ended
  /\ \A u \in Tasks : Refused(u)' = Refused(u)

\* The task on top of the stack ends.
Finishes ==
  LET t == stack[Len(stack)]
  IN  /\ stack # <<>>
      /\ \E result \in {"done", "failed"} : future' = [future EXCEPT ![t] = result]
      /\ stack' = SubSeq(stack, 1, Len(stack) - 1)
      /\ UNCHANGED queue
      /\ Ended' = Ended
      /\ \A u \in Tasks : Refused(u)' = Refused(u)

\* One step of the worker, as far as the executor shows it.
Effect ==
  \/ Idles \/ Skips \/ Ends \/ Begins \/ Finishes
  \/ \E t \in Tasks : Refuses(t) \/ Accepts(t) \/ Withdraws(t) \/ Nests(t)

\* A step of a caller has one of the effects.
LEMMA EffectCaller ==
  ASSUME TypeOK, LifeInv, TaskInv, HolderInv,
         NEW c \in Callers, CallerBegins(c) \/ CallerContinues(c)
  PROVE  Effect
  <1> USE DEF TypeOK, HolderInv, vars, workerVars, threadVars, callVars, Refused, Refusals
  <1>a. ASSUME UNCHANGED <<threadVars, queue, future, outcome>> PROVE Effect
    BY <1>a DEF Effect, Idles, Ended
  <1>1. ASSUME NEW t \in Tasks \cup {NoTask}, StartAlreadyRunning(c, t)
        PROVE  Effect
    BY <1>1, <1>a DEF StartAlreadyRunning, Proceed
  <1>2. ASSUME NEW t \in Tasks \cup {NoTask}, StartRefused(c, t)
        PROVE  Effect
    <2>1. CASE t \in Tasks
      <3>1. Refuses(t)
        BY <1>2, <2>1, StaWorkerAssumption DEF StartRefused, Enter, Fresh, Refuses, Ended
      <3> QED
        BY <2>1, <3>1 DEF Effect
    <2>2. CASE t \notin Tasks
      <3>1. outcome' = outcome
        BY <1>2, <2>2 DEF StartRefused
      <3> QED
        BY <1>2, <3>1, <1>a DEF StartRefused
    <2> QED
      BY <2>1, <2>2
  <1>3. ASSUME NEW t \in Tasks \cup {NoTask}, StartThread(c, t)
        PROVE  Effect
    BY <1>3 DEF StartThread, Effect, Idles, Ended, LifeInv
  <1>4. ASSUME NEW t \in Tasks \cup {NoTask}, StartAwaitsOther(c, t)
        PROVE  Effect
    BY <1>4, <1>a DEF StartAwaitsOther
  <1>5. CASE SeeReady(c)
    BY <1>5, <1>a DEF SeeReady, Goto
  <1>b. ASSUME NEW result \in Outcome, Leave(c, result), pc[c] \in BeforeSubmit,
               result \in Refusals,
               UNCHANGED <<queue, threadVars, future>>
        PROVE Effect
    <2>1. CASE task[c] \in Tasks
      <3>1. PICK t \in Tasks : t = task[c]
        BY <2>1
      <3>2. future[t] = "none" /\ outcome[t] = "none"
        BY <1>b, <3>1 DEF TaskInv
      <3>3. Refuses(t)
        BY <1>b, <3>1, <3>2 DEF Leave, Refuses, Ended
      <3> QED
        BY <3>3 DEF Effect
    <2>2. CASE task[c] \notin Tasks
      <3>1. outcome' = outcome
        BY <1>b, <2>2 DEF Leave
      <3> QED
        BY <1>b, <3>1, <1>a
    <2> QED
      BY <2>1, <2>2
  <1>c. ASSUME NEW result \in Outcome, Leave(c, result), result \notin Refusals,
               \/ pc[c] \in {"join", "finish_close"}
               \/ pc[c] \in {"wait", "expired", "cancel", "poison"},
               UNCHANGED <<threadVars, future>>,
               queue' \in {queue, Append(queue, Stop)}
        PROVE Effect
    <2>1. \A t \in Tasks : t = task[c] => ~Refused(t)
      BY <1>c, StaWorkerAssumption DEF TaskInv
    <2>2. \A t \in Tasks : Refused(t)' = Refused(t)
      BY <1>c, <2>1 DEF Leave
    <2> QED
      BY <1>c, <2>2 DEF Effect, Idles, Ended
  <1>6. CASE AfterReady(c)
    <2>1. CASE state = "RUNNING"
      BY <1>6, <1>a, <2>1 DEF AfterReady, Proceed
    <2>2. CASE state # "RUNNING"
      BY <1>6, <1>b, <2>2 DEF AfterReady, BeforeSubmit, Outcome
    <2> QED
      BY <2>1, <2>2
  <1>7. CASE StartTimesOut(c)
    BY <1>7, <1>a DEF StartTimesOut, Goto
  <1>8. CASE CancelStartup(c)
    BY <1>8, <1>a DEF CancelStartup, Goto
  <1>9. CASE RequestStop(c)
    BY <1>9, <1>a DEF RequestStop, Goto
  <1>10. CASE PutStop(c)
    BY <1>10 DEF PutStop, Goto, Effect, Idles, Ended
  <1>11. CASE FailStart(c)
    BY <1>11, <1>b DEF FailStart, BeforeSubmit, Outcome
  <1>12. CASE Submit(c)
    <2>1. CASE state = "RUNNING"
      <3>1. PICK t \in Tasks : t = task[c]
        BY <1>12 DEF Submit, LifeInv, InCall
      <3>2. future[t] = "none" /\ outcome[t] = "none"
        BY <1>12, <3>1 DEF Submit, TaskInv, BeforeSubmit
      <3>3. Accepts(t)
        BY <1>12, <2>1, <3>1, <3>2 DEF Submit, Goto, Accepts, Ended
      <3> QED
        BY <3>3 DEF Effect
    <2>2. CASE state # "RUNNING"
      BY <1>12, <1>b, <2>2 DEF Submit, BeforeSubmit, Outcome
    <2> QED
      BY <2>1, <2>2
  <1>13. CASE GetResult(c)
    BY <1>13, <1>c DEF GetResult, Outcome
  <1>14. CASE CallTimesOut(c)
    BY <1>14, <1>a DEF CallTimesOut, Goto
  <1>15. CASE CheckDone(c)
    <2>1. CASE future[task[c]] \in {"done", "failed"}
      BY <1>15, <1>c, <2>1 DEF CheckDone, Outcome
    <2>2. CASE future[task[c]] \notin {"done", "failed"}
      BY <1>15, <1>a, <2>2 DEF CheckDone, Goto
    <2> QED
      BY <2>1, <2>2
  <1>16. CASE Cancel(c)
    <2>1. CASE future[task[c]] = "pending"
      <3>1. PICK t \in Tasks : t = task[c]
        BY <1>16 DEF Cancel, LifeInv, InCall
      <3>2. \A u \in Tasks : Refused(u)' = Refused(u)
        <4>1. ~Refused(t)
          BY <2>1, <3>1 DEF TaskInv
        <4>2. \A u \in Tasks : outcome'[u] = IF u = t THEN "timeout_cancelled" ELSE outcome[u]
          BY <1>16, <2>1, <3>1 DEF Cancel, Leave
        <4> QED
          BY <4>1, <4>2
      <3>3. Withdraws(t)
        BY <1>16, <2>1, <3>1, <3>2 DEF Cancel, Leave, Withdraws, Ended
      <3> QED
        BY <3>3 DEF Effect
    <2>2. CASE future[task[c]] # "pending"
      BY <1>16, <1>a, <2>2 DEF Cancel, Goto
    <2> QED
      BY <2>1, <2>2
  <1>17. CASE Poison(c)
    BY <1>17, <1>c DEF Poison, Outcome
  <1>18. CASE CloseUnstarted(c)
    BY <1>18, <1>a DEF CloseUnstarted
  <1>19. CASE CloseBegin(c)
    BY <1>19 DEF CloseBegin, Goto, Effect, Idles, Ended
  <1>20. CASE Joined(c)
    BY <1>20, <1>a DEF Joined, Goto
  <1>21. CASE JoinTimesOut(c)
    BY <1>21, <1>c DEF JoinTimesOut, Outcome
  <1>22. CASE FinishClose(c)
    BY <1>22, <1>c DEF FinishClose, Outcome
  <1> QED
    BY <1>1, <1>2, <1>3, <1>4, <1>5, <1>6, <1>7, <1>8, <1>9, <1>10, <1>11, <1>12, <1>13, <1>14, <1>15, <1>16, <1>17, <1>18, <1>19, <1>20, <1>21, <1>22
    DEF CallerBegins, CallerContinues

\* A step of the worker thread has one of the effects.
LEMMA EffectThread ==
  ASSUME TypeOK, LifeInv, TaskInv, HolderInv, ThreadContinues \/ \E t \in Tasks : ReentrantCall(t)
  PROVE  Effect
  <1> USE DEF TypeOK, vars, workerVars, threadVars, callVars
  <1>a. ASSUME UNCHANGED <<stack, began, queue, future, outcome>>, Ended' = Ended PROVE Effect
    BY <1>a DEF Effect, Idles, Refused
  <1>b. ASSUME UNCHANGED <<stack, began, future, outcome>>, thread # "run", Ended',
               Drops \/ UNCHANGED queue
        PROVE  Effect
    BY <1>b DEF Effect, Ends, Refused
  <1>1. CASE InitializerReturns
    BY <1>1, <1>a DEF InitializerReturns, ThreadGoes, Ended
  <1>2. CASE InitializerRaises
    BY <1>2, <1>b DEF InitializerRaises, ThreadGoes, Ended
  <1>3. CASE SignalFailure
    BY <1>3, <1>a DEF SignalFailure, ThreadGoes, Ended
  <1>4. CASE Decide
    BY <1>4, <1>a DEF Decide, ThreadGoes, Ended
  <1>5. CASE SignalReady
    BY <1>5, <1>a DEF SignalReady, ThreadGoes, Ended
  <1>6. CASE Recheck
    <2>1. CASE startupCancelled \/ stopRequested
      BY <1>6, <1>b, <2>1 DEF Recheck, ThreadGoes, Ended
    <2>2. CASE ~(startupCancelled \/ stopRequested)
      BY <1>6, <1>a, <2>2 DEF Recheck, ThreadGoes, Ended
    <2> QED
      BY <2>1, <2>2
  <1>7. CASE TakeStop
    BY <1>7, <1>b DEF TakeStop, Ended, Drops
  <1>8. CASE SkipCancelled
    BY <1>8 DEF SkipCancelled, Effect, Skips, Drops, Ended, Refused
  <1>9. CASE BeginTask
    <2>1. Head(queue) \in Tasks
      BY <1>9, HeadTailProperties DEF BeginTask
    <2> QED
      BY <1>9, <2>1 DEF BeginTask, Effect, Begins, Ended, Refused
  <1>10. ASSUME NEW ok \in BOOLEAN, EndTask(ok)
        PROVE  Effect
    <2>1. stack # <<>>
      BY <1>10 DEF EndTask
    <2>2. stack[Len(stack)] \in began /\ stack[Len(stack)] \in Tasks
      BY <2>1, PopStack, LenProperties, EmptySeq DEF TaskInv
    <2>3. \A u \in Tasks : Refused(u)' = Refused(u)
      <3> DEFINE t == stack[Len(stack)]
      <3>1. outcome' = outcome \/ \E r \in {"returned", "call_error"} : outcome' = [outcome EXCEPT ![t] = r]
        BY <1>10 DEF EndTask
      <3>2. future[t] # "none"
        BY <2>2 DEF TaskInv
      <3>3. ~Refused(t)
        BY <2>2, <3>2 DEF TaskInv, Refused, Refusals
      <3> HIDE DEF t
      <3> QED
        BY <3>1, <3>3 DEF Refused, Refusals
    <2>4. \E result \in {"done", "failed"} : future' = [future EXCEPT ![stack[Len(stack)]] = result]
      BY <1>10 DEF EndTask
    <2>5. Ended' = Ended
      BY <1>10 DEF EndTask, Ended
    <2>6. Finishes
      BY <1>10, <2>1, <2>3, <2>4, <2>5 DEF EndTask, Finishes
    <2> QED
      BY <2>6 DEF Effect
  <1>11. CASE FinalizerReturns
    BY <1>11, <1>a DEF FinalizerReturns, ThreadGoes, Ended
  <1>12. CASE FinalizerRaises
    BY <1>12, <1>a DEF FinalizerRaises, ThreadGoes, Ended
  <1>13. CASE ExitThread
    BY <1>13, <1>a DEF ExitThread, ThreadGoes, Ended
  <1>14. CASE ThreadDies
    BY <1>14, <1>a DEF ThreadDies, ThreadGoes, Ended
  <1>15. ASSUME NEW t \in Tasks, ReentrantCall(t)
        PROVE  Effect
    <2>1. CASE state = "RUNNING"
      BY <1>15, <2>1 DEF ReentrantCall, Fresh, Effect, Nests, Ended, Refused, Refusals
    <2>2. CASE state # "RUNNING"
      <3>1. Refuses(t)
        BY <1>15, <2>2 DEF ReentrantCall, Fresh, Refuses, Ended, Refused, Refusals
      <3> QED
        BY <3>1 DEF Effect
    <2> QED
      BY <2>1, <2>2
  <1> QED
    BY <1>1, <1>2, <1>3, <1>4, <1>5, <1>6, <1>7, <1>8, <1>9, <1>10, <1>11, <1>12, <1>13, <1>14, <1>15 DEF ThreadContinues

--------------------------------------------------------------------------------
(* The invariant of the executor's proof.                                  *)

\* Nobody has entered a new worker.
LEMMA EntryInit ==
  Init => EntryInv
  BY DEF Init, EntryInv, HolderInv, OpeningInv

\* A step of a caller keeps EntryInv.
LEMMA EntryCaller ==
  ASSUME TypeOK, LifeInv, StopInv, EntryInv, NEW c \in Callers, CallerBegins(c) \/ CallerContinues(c)
  PROVE  EntryInv'
  <1> USE DEF TypeOK, EntryInv, HolderInv, OpeningInv, vars, workerVars, threadVars, callVars
  <1>1. ASSUME NEW t \in Tasks \cup {NoTask}, StartAlreadyRunning(c, t)
        PROVE  EntryInv'
    BY <1>1 DEF StartAlreadyRunning, Enter, Proceed
  <1>2. ASSUME NEW t \in Tasks \cup {NoTask}, StartRefused(c, t)
        PROVE  EntryInv'
    BY <1>2 DEF StartRefused, Enter
  <1>3. ASSUME NEW t \in Tasks \cup {NoTask}, StartThread(c, t)
        PROVE  EntryInv'
    BY <1>3 DEF StartThread, Enter
  <1>4. ASSUME NEW t \in Tasks \cup {NoTask}, StartAwaitsOther(c, t)
        PROVE  EntryInv'
    BY <1>4 DEF StartAwaitsOther, Enter
  <1>5. CASE SeeReady(c)
    BY <1>5 DEF SeeReady, Goto
  <1>6. CASE AfterReady(c)
    BY <1>6 DEF AfterReady, Proceed, Leave
  <1>7. CASE StartTimesOut(c)
    BY <1>7 DEF StartTimesOut, Goto
  <1>8. CASE CancelStartup(c)
    BY <1>8 DEF CancelStartup, Goto
  <1>9. CASE RequestStop(c)
    BY <1>9 DEF RequestStop, Goto
  <1>10. CASE PutStop(c)
    BY <1>10 DEF PutStop, Goto
  <1>11. CASE FailStart(c)
    BY <1>11 DEF FailStart, Leave, StopInv
  <1>12. CASE Submit(c)
    BY <1>12 DEF Submit, Goto, Leave, LifeInv, InCall
  <1>13. CASE GetResult(c)
    BY <1>13 DEF GetResult, Leave
  <1>14. CASE CallTimesOut(c)
    BY <1>14 DEF CallTimesOut, Goto
  <1>15. CASE CheckDone(c)
    BY <1>15 DEF CheckDone, Leave, Goto
  <1>16. CASE Cancel(c)
    BY <1>16 DEF Cancel, Leave, Goto, LifeInv, InCall
  <1>17. CASE Poison(c)
    BY <1>17 DEF Poison, Leave
  <1>18. CASE CloseUnstarted(c)
    BY <1>18 DEF CloseUnstarted
  <1>19. CASE CloseBegin(c)
    BY <1>19 DEF CloseBegin, Goto
  <1>20. CASE Joined(c)
    BY <1>20 DEF Joined, Goto, Alive
  <1>21. CASE JoinTimesOut(c)
    BY <1>21 DEF JoinTimesOut, Leave
  <1>22. CASE FinishClose(c)
    BY <1>22 DEF FinishClose, Leave, LifeInv
  <1> QED
    BY <1>1, <1>2, <1>3, <1>4, <1>5, <1>6, <1>7, <1>8, <1>9, <1>10, <1>11, <1>12, <1>13, <1>14, <1>15, <1>16, <1>17, <1>18, <1>19, <1>20, <1>21, <1>22
    DEF CallerBegins, CallerContinues

\* A step of the worker thread keeps EntryInv.
LEMMA EntryThread ==
  ASSUME TypeOK, LifeInv, StopInv, EntryInv, ThreadContinues \/ \E t \in Tasks : ReentrantCall(t)
  PROVE  EntryInv'
  <1> USE DEF TypeOK, EntryInv, HolderInv, OpeningInv, vars, workerVars, threadVars, callVars
  <1>1. CASE InitializerReturns
    BY <1>1 DEF InitializerReturns, ThreadGoes
  <1>2. CASE InitializerRaises
    BY <1>2 DEF InitializerRaises, ThreadGoes
  <1>3. CASE SignalFailure
    BY <1>3 DEF SignalFailure, ThreadGoes
  <1>4. CASE Decide
    BY <1>4 DEF Decide, ThreadGoes
  <1>5. CASE SignalReady
    BY <1>5 DEF SignalReady, ThreadGoes
  <1>6. CASE Recheck
    BY <1>6 DEF Recheck, ThreadGoes
  <1>7. CASE TakeStop
    BY <1>7 DEF TakeStop
  <1>8. CASE SkipCancelled
    BY <1>8 DEF SkipCancelled
  <1>9. CASE BeginTask
    BY <1>9 DEF BeginTask
  <1>10. ASSUME NEW ok \in BOOLEAN, EndTask(ok)
        PROVE  EntryInv'
    BY <1>10 DEF EndTask
  <1>11. CASE FinalizerReturns
    BY <1>11 DEF FinalizerReturns, ThreadGoes
  <1>12. CASE FinalizerRaises
    BY <1>12 DEF FinalizerRaises, ThreadGoes
  <1>13. CASE ExitThread
    BY <1>13 DEF ExitThread, ThreadGoes
  <1>14. CASE ThreadDies
    BY <1>14 DEF ThreadDies, ThreadGoes
  <1>15. ASSUME NEW t \in Tasks, ReentrantCall(t)
        PROVE  EntryInv'
    BY <1>15 DEF ReentrantCall, LifeInv, InCall, Fresh
  <1> QED
    BY <1>1, <1>2, <1>3, <1>4, <1>5, <1>6, <1>7, <1>8, <1>9, <1>10, <1>11, <1>12, <1>13, <1>14, <1>15 DEF ThreadContinues

\* The queue of a new worker is empty.
LEMMA QueueInit ==
  Init => QueueInv
  BY DEF Init, QueueInv

\* A new entry at the end of the queue.
LEMMA QueueAppend ==
  ASSUME TypeOK, QueueInv, NEW x \in Tasks \cup {Stop}, queue' = Append(queue, x),
         x \in Tasks => future[x] = "none" /\ future' = [future EXCEPT ![x] = "pending"],
         x = Stop => future' = future
  PROVE  QueueInv'
<1>1. queue \in Seq(Tasks \cup {Stop}) /\ future \in [Tasks -> FutureState]
  BY DEF TypeOK
<1>2. \A i \in DOMAIN queue' : \/ i \in DOMAIN queue /\ queue'[i] = queue[i]
                               \/ i = Len(queue) + 1 /\ queue'[i] = x
  BY <1>1, AppendOne
<1>3. \A i \in DOMAIN queue : queue[i] \in Tasks \cup {Stop} /\ (queue[i] \in Tasks => queue[i] # x)
  <2>1. \A i \in DOMAIN queue : queue[i] \in Tasks \cup {Stop}
    BY <1>1, LenProperties
  <2> QED
    BY <2>1 DEF QueueInv
<1>4. \A t \in Tasks : InSeq(t, queue') <=> t = x \/ InSeq(t, queue)
  BY <1>1, AppendMembers
<1>5. \A t \in Tasks : t # x => future'[t] = future[t]
  BY <1>1, StaWorkerAssumption
<1>6. x \in Tasks => future'[x] = "pending"
  BY <1>1
<1>7. \A i \in DOMAIN queue' : queue'[i] \in Tasks => future'[queue'[i]] \in {"pending", "cancelled"}
  BY <1>2, <1>3, <1>5, <1>6 DEF QueueInv
<1>8. \A i, j \in DOMAIN queue' : queue'[i] = queue'[j] /\ queue'[i] # Stop => i = j
  BY <1>2, <1>3 DEF QueueInv
<1>9. \A t \in Tasks : future'[t] = "pending" => InSeq(t, queue')
  BY <1>4, <1>5, StaWorkerAssumption DEF QueueInv
<1> QED
  BY <1>7, <1>8, <1>9 DEF QueueInv

\* The head of the queue leaves it.
LEMMA QueueTail ==
  ASSUME TypeOK, QueueInv, queue # <<>>, queue' = Tail(queue),
         \A t \in Tasks : \/ future'[t] = future[t] /\ (t = Head(queue) => future[t] # "pending")
                          \/ t = Head(queue) /\ future'[t] = "running"
  PROVE  QueueInv'
<1>1. queue \in Seq(Tasks \cup {Stop})
  BY DEF TypeOK
<1>2. /\ Head(queue) = queue[1] /\ 1 \in DOMAIN queue
      /\ \A i \in DOMAIN Tail(queue) :
           i \in Nat \ {0} /\ i + 1 \in DOMAIN queue /\ Tail(queue)[i] = queue[i + 1]
  BY <1>1, TailOf
<1>3. \A i \in DOMAIN queue' :
        i \in Nat \ {0} /\ i + 1 \in DOMAIN queue /\ queue'[i] = queue[i + 1] /\ i + 1 # 1
  BY <1>2
<1>4. \A i \in DOMAIN queue' : queue'[i] # Stop => queue'[i] # Head(queue)
  BY <1>2, <1>3 DEF QueueInv
<1>5. \A j \in DOMAIN queue : j = 1 \/ \E i \in DOMAIN queue' : queue'[i] = queue[j]
  <2>1. Len(queue) \in Nat \ {0} /\ DOMAIN queue = 1 .. Len(queue)
    BY <1>1, EmptySeq, LenProperties
  <2>2. /\ Tail(queue) \in Seq(Tasks \cup {Stop})
        /\ Len(Tail(queue)) = Len(queue) - 1
    BY <1>1, HeadTailProperties
  <2>3. DOMAIN queue' = 1 .. Len(queue) - 1
    BY <2>2, LenProperties
  <2>4. ASSUME NEW j \in DOMAIN queue, j # 1 PROVE j - 1 \in DOMAIN queue' /\ (j - 1) + 1 = j
    BY <2>1, <2>3, <2>4
  <2> QED
    BY <1>3, <2>4
<1>6. \A i \in DOMAIN queue' : queue'[i] \in Tasks => future'[queue'[i]] \in {"pending", "cancelled"}
  BY <1>3, <1>4, StaWorkerAssumption DEF QueueInv
<1>7. \A i, j \in DOMAIN queue' : queue'[i] = queue'[j] /\ queue'[i] # Stop => i = j
  BY <1>3 DEF QueueInv
<1>8. \A t \in Tasks : future'[t] = "pending" => InSeq(t, queue')
  <2> SUFFICES ASSUME NEW t \in Tasks, future'[t] = "pending" PROVE InSeq(t, queue')
    OBVIOUS
  <2>1. future[t] = "pending" /\ t # Head(queue)
    OBVIOUS
  <2>2. PICK j \in DOMAIN queue : queue[j] = t
    BY <2>1 DEF QueueInv, InSeq
  <2> QED
    BY <1>2, <1>5, <2>1, <2>2 DEF InSeq
<1> QED
  BY <1>6, <1>7, <1>8 DEF QueueInv

\* The queue stays, and a task outside it or waiting in it changes.
LEMMA QueueSame ==
  ASSUME QueueInv, UNCHANGED queue,
         \A t \in Tasks : \/ future'[t] = future[t]
                          \/ future[t] = "pending" /\ future'[t] = "cancelled"
                          \/ future[t] \notin {"pending", "cancelled"} /\ future'[t] # "pending"
  PROVE  QueueInv'
  BY DEF QueueInv

\* Every effect keeps QueueInv.
LEMMA QueueStep ==
  ASSUME TypeOK, TaskInv, QueueInv, Effect
  PROVE  QueueInv'
<1> future \in [Tasks -> FutureState] /\ queue \in Seq(Tasks \cup {Stop})
  BY DEF TypeOK
<1>1. CASE Idles
  BY <1>1, QueueAppend, QueueSame, StaWorkerAssumption DEF Idles
<1>2. ASSUME Drops, UNCHANGED future PROVE QueueInv'
  <2>1. \A t \in Tasks : future'[t] = future[t] /\ (t = Head(queue) => future[t] # "pending")
    BY <1>2, StaWorkerAssumption DEF Drops
  <2> QED
    BY <1>2, <2>1, QueueTail DEF Drops
<1>3. CASE Skips
  BY <1>2, <1>3 DEF Skips
<1>4. CASE Ends
  BY <1>2, <1>4, QueueSame DEF Ends
<1>5. CASE Begins
  <2>1. queue # <<>> /\ queue' = Tail(queue)
    BY <1>5 DEF Begins
  <2>2. \A t \in Tasks : \/ future'[t] = future[t] /\ (t = Head(queue) => future[t] # "pending")
                         \/ t = Head(queue) /\ future'[t] = "running"
    BY <1>5 DEF Begins
  <2> QED
    BY <2>1, <2>2, QueueTail
<1>6. CASE Finishes
  <2>1. stack[Len(stack)] \in began
    BY <1>6, PopStack, LenProperties, EmptySeq DEF Finishes, TaskInv, TypeOK
  <2>2. future[stack[Len(stack)]] \notin {"pending", "cancelled"}
    BY <2>1 DEF TaskInv
  <2>3. \A t \in Tasks : \/ future'[t] = future[t]
                         \/ future[t] \notin {"pending", "cancelled"} /\ future'[t] # "pending"
    BY <1>6, <2>2 DEF Finishes
  <2> QED
    BY <1>6, <2>3, QueueSame DEF Finishes
<1>7. ASSUME NEW t \in Tasks, Refuses(t) PROVE QueueInv'
  BY <1>7, QueueSame DEF Refuses
<1>8. ASSUME NEW t \in Tasks, Accepts(t) PROVE QueueInv'
  BY <1>8, QueueAppend, StaWorkerAssumption DEF Accepts
<1>9. ASSUME NEW t \in Tasks, Withdraws(t) PROVE QueueInv'
  BY <1>9, QueueSame DEF Withdraws
<1>10. ASSUME NEW t \in Tasks, Nests(t) PROVE QueueInv'
  BY <1>10, QueueSame DEF Nests
<1> QED
  BY <1>1, <1>3, <1>4, <1>5, <1>6, <1>7, <1>8, <1>9, <1>10 DEF Effect

--------------------------------------------------------------------------------
(* The worker implements the executor.                                      *)

\* The variables of the executor, as the worker gives them.
Pending == {t \in Tasks : future[t] = "pending"}
Waiting == Among(Pending, queue)
Finished == {t \in Tasks : future[t] \in {"done", "failed"}}
Withdrew == {t \in Tasks : future[t] = "cancelled" \/ Refused(t)}
Intake == IF state = "RUNNING" THEN "open"
          ELSE IF state \in {"NEW", "STARTING"} THEN "unopened" ELSE "shut"

\* The operators on sequences are the same on both sides of the mapping.
LEMMA InstanceSame ==
  /\ \A S, s : Executor!Among(S, s) = Among(S, s)
  /\ \A t, s : Executor!InSeq(t, s) = InSeq(t, s)
  BY DEF Executor!Among, Among, Executor!InSeq, InSeq

\* A task that was neither handed over nor refused is new to the executor.
LEMMA ExecutorNew ==
  ASSUME TypeOK, TaskInv, NEW t \in Tasks, future[t] = "none", ~Refused(t)
  PROVE  Executor!New(t)
<1>1. ~InSeq(t, Waiting)
  BY AmongMembers DEF TypeOK, Waiting, Pending
<1>2. ~InSeq(t, stack)
  BY DEF TaskInv, InSeq
<1> QED
  BY <1>1, <1>2, InstanceSame DEF Executor!New, Waiting, Pending, Refused, Refusals

\* To drop a sentinel or a withdrawn task changes nothing for those that wait.
LEMMA WaitingDrops ==
  ASSUME TypeOK, Drops, Pending' = Pending
  PROVE  Waiting' = Waiting
<1>1. queue \in Seq(Tasks \cup {Stop}) /\ queue # <<>> /\ queue' = Tail(queue)
  BY DEF TypeOK, Drops
<1>2. Head(queue) \notin Pending
  BY StaWorkerAssumption DEF Drops, Pending
<1>3. Among(Pending, queue) = Among(Pending, Tail(queue))
  BY <1>1, <1>2, AmongTail
<1> QED
  BY <1>1, <1>3 DEF Waiting

\* What a new entry of the queue means for those that wait.
LEMMA WaitingAppend ==
  ASSUME TypeOK, NEW x \in Tasks \cup {Stop}, queue' = Append(queue, x)
  PROVE  Waiting' = IF x \in Pending' THEN Append(Among(Pending', queue), x) ELSE Among(Pending', queue)
<1>1. queue \in Seq(Tasks \cup {Stop})
  BY DEF TypeOK
<1> DEFINE P == Pending'
<1> HIDE DEF P
<1>2. Among(P, Append(queue, x)) = IF x \in P THEN Append(Among(P, queue), x) ELSE Among(P, queue)
  BY <1>1, AmongAppend
<1> QED
  BY <1>2 DEF P, Waiting

\* An unchanged queue of unchanged tasks.
LEMMA WaitingSame ==
  ASSUME Pending' = Pending, UNCHANGED queue
  PROVE  Waiting' = Waiting
  BY DEF Waiting

\* A task begins: the oldest that waits.
LEMMA WaitingBegins ==
  ASSUME TypeOK, QueueInv, Begins
  PROVE  /\ Waiting # <<>>
         /\ stack' = <<Head(Waiting)>>
         /\ Waiting' = Tail(Waiting)
<1> DEFINE h == Head(queue)
<1>1. queue \in Seq(Tasks \cup {Stop}) /\ queue # <<>> /\ queue' = Tail(queue)
  BY DEF TypeOK, Begins
<1>2. h \in Pending /\ Pending' = Pending \ {h}
  BY DEF Begins, Pending, TypeOK
<1>3. /\ Waiting # <<>>
      /\ Head(Waiting) = h
      /\ Tail(Waiting) = Among(Pending, Tail(queue))
  <2>1. /\ Among(Pending, queue) # <<>>
        /\ Head(Among(Pending, queue)) = h
        /\ Tail(Among(Pending, queue)) = Among(Pending, Tail(queue))
    BY <1>1, <1>2, AmongTail
  <2> QED
    BY <2>1 DEF Waiting
<1>4. \A i \in DOMAIN Tail(queue) : Tail(queue)[i] # h
  <2>1. /\ h = queue[1] /\ 1 \in DOMAIN queue
        /\ \A i \in DOMAIN Tail(queue) :
             i \in Nat \ {0} /\ i + 1 \in DOMAIN queue /\ Tail(queue)[i] = queue[i + 1]
    BY <1>1, TailOf
  <2>2. h # Stop
    BY <1>2, StaWorkerAssumption DEF Pending
  <2>3. \A i \in DOMAIN Tail(queue) : i + 1 # 1
    BY <2>1
  <2> HIDE DEF h
  <2> QED
    BY <2>1, <2>2, <2>3 DEF QueueInv
<1>5. \A i \in DOMAIN Tail(queue) : Tail(queue)[i] \in Pending <=> Tail(queue)[i] \in Pending \ {h}
  BY <1>4
<1>6. Among(Pending, Tail(queue)) = Among(Pending \ {h}, Tail(queue))
  <2>1. Tail(queue) \in Seq(Tasks \cup {Stop})
    BY <1>1, HeadTailProperties
  <2> HIDE DEF h
  <2>2. \A u \in Seq(Tasks \cup {Stop}) :
          (\A i \in DOMAIN u : u[i] \in Pending <=> u[i] \in Pending \ {h}) =>
            Among(Pending, u) = Among(Pending \ {h}, u)
    BY AmongSame
  <2> QED
    BY <2>1, <2>2, <1>5, Zenon
<1>7. Waiting' = Among(Pending \ {h}, Tail(queue))
  BY <1>1, <1>2 DEF Waiting
<1>8. stack' = <<h>>
  BY DEF Begins
<1> QED
  BY <1>3, <1>6, <1>7, <1>8

\* An accepted task waits behind all others.
LEMMA WaitingAccepts ==
  ASSUME TypeOK, QueueInv, NEW t \in Tasks, Accepts(t)
  PROVE  Waiting' = Append(Waiting, t)
<1>1. Pending' = Pending \cup {t} /\ t \notin Pending /\ queue' = Append(queue, t)
  BY DEF TypeOK, Accepts, Pending
<1>2. Waiting' = Append(Among(Pending \cup {t}, queue), t)
  BY <1>1, WaitingAppend
<1>3. \A i \in DOMAIN queue : queue[i] # t
  BY DEF QueueInv, Accepts
<1>4. \A i \in DOMAIN queue : queue[i] \in Pending \cup {t} <=> queue[i] \in Pending
  BY <1>3
<1>5. Among(Pending \cup {t}, queue) = Among(Pending, queue)
  BY <1>4, AmongSame DEF TypeOK
<1> QED
  BY <1>2, <1>5 DEF Waiting

\* A task withdrawn from the queue waited, and the others keep their order.
LEMMA WaitingWithdraws ==
  ASSUME TypeOK, QueueInv, NEW t \in Tasks, Withdraws(t)
  PROVE  InSeq(t, Waiting) /\ Waiting' = Among(Tasks \ {t}, Waiting)
<1>1. queue \in Seq(Tasks \cup {Stop}) /\ queue' = queue /\ t \in Pending
  BY DEF TypeOK, Withdraws, Pending
<1>2. InSeq(t, queue)
  BY DEF QueueInv, Withdraws
<1>3. InSeq(t, Waiting)
  BY <1>1, <1>2, AmongMembers DEF Waiting
<1>4. Pending' = (Tasks \ {t}) \cap Pending
  BY DEF TypeOK, Withdraws, Pending
<1>5. Among(Tasks \ {t}, Among(Pending, queue)) = Among((Tasks \ {t}) \cap Pending, queue)
  BY <1>1, AmongAmong
<1> QED
  BY <1>1, <1>3, <1>4, <1>5 DEF Waiting

\* A sentinel does not wait.
LEMMA WaitingIdles ==
  ASSUME TypeOK, Idles
  PROVE  Waiting' = Waiting
<1>1. Pending' = Pending
  BY DEF Idles, Pending
<1>2. CASE queue' = queue
  BY <1>1, <1>2, WaitingSame
<1>3. CASE queue' = Append(queue, Stop)
  <2>1. Stop \notin Pending'
    BY StaWorkerAssumption DEF Pending
  <2>2. Waiting' = Among(Pending', queue)
    BY <1>3, <2>1, WaitingAppend
  <2> QED
    BY <1>1, <2>2 DEF Waiting
<1> QED
  BY <1>2, <1>3 DEF Idles

\* Every effect is a step of the executor's tasks, or none.
LEMMA TaskStepMaps ==
  ASSUME TypeOK, TaskInv, QueueInv, Effect
  PROVE  Executor!TaskStep \/ UNCHANGED Executor!taskVars
<1> future \in [Tasks -> FutureState] /\ queue \in Seq(Tasks \cup {Stop})
  BY DEF TypeOK
<1> USE DEF Finished, Withdrew
<1>0. ASSUME Waiting' = Waiting, UNCHANGED <<stack, Finished, Withdrew>>, Ended' = Ended
      PROVE  UNCHANGED Executor!taskVars
  BY <1>0 DEF Executor!taskVars, Waiting, Pending, Ended, Refused, Refusals
<1>1. CASE Idles
  BY <1>1, <1>0, WaitingIdles DEF Idles
<1>2. CASE Skips
  <2>1. Waiting' = Waiting
    BY <1>2, WaitingDrops DEF Skips, Pending
  <2> QED
    BY <1>2, <1>0, <2>1 DEF Skips
<1>3. CASE Ends
  <2>1. Waiting' = Waiting
    BY <1>3, WaitingDrops, WaitingSame DEF Ends, Pending
  <2>2. UNCHANGED <<stack, Finished, Withdrew>> /\ stack = <<>> /\ Ended'
    BY <1>3 DEF Ends
  <2>3. Executor!StopRunning
    BY <2>1, <2>2 DEF Executor!StopRunning, Waiting, Pending, Ended, Refused, Refusals
  <2> QED
    BY <2>3 DEF Executor!TaskStep
<1>4. CASE Begins
  <2>1. /\ Waiting # <<>>
        /\ stack' = <<Head(Waiting)>>
        /\ Waiting' = Tail(Waiting)
    BY <1>4, WaitingBegins
  <2>2. UNCHANGED <<Finished, Withdrew>> /\ stack = <<>> /\ ~Ended /\ Ended' = Ended
    <3>1. ~Ended /\ ~Ended' /\ stack = <<>>
      BY <1>4 DEF Begins
    <3>2. \A t \in Tasks : \/ future'[t] = future[t]
                           \/ future[t] = "pending" /\ future'[t] = "running"
      BY <1>4 DEF Begins
    <3>3. \A t \in Tasks : Refused(t)' = Refused(t)
      BY <1>4 DEF Begins
    <3>4. Finished' = Finished
      BY <3>2
    <3>5. Withdrew' = Withdrew
      BY <3>2, <3>3
    <3>6. Ended' = Ended
      BY <3>1 DEF Ended
    <3> QED
      BY <3>1, <3>4, <3>5, <3>6, Zenon
  <2>3. Executor!Begin
    BY <2>1, <2>2 DEF Executor!Begin, Waiting, Pending, Ended, Refused, Refusals
  <2> QED
    BY <2>3 DEF Executor!TaskStep
<1>5. CASE Finishes
  <2> DEFINE t == stack[Len(stack)]
  <2>1. t \in began /\ t \in Tasks
    BY <1>5, PopStack, LenProperties, EmptySeq DEF Finishes, TaskInv, TypeOK
  <2>2. future[t] \notin {"none", "pending", "cancelled"}
    BY <2>1 DEF TaskInv
  <2> HIDE DEF t
  <2>3. \E result \in {"done", "failed"} : future' = [future EXCEPT ![t] = result]
    BY <1>5 DEF Finishes, t
  <2>4. Pending' = Pending /\ Finished' = Finished \cup {t}
    BY <2>1, <2>2, <2>3 DEF Pending
  <2>5. Withdrew' = Withdrew
    BY <1>5, <2>1, <2>2, <2>3 DEF Finishes
  <2>6. Waiting' = Waiting
    BY <1>5, <2>4, WaitingSame DEF Finishes
  <2>7. stack # <<>> /\ stack' = SubSeq(stack, 1, Len(stack) - 1) /\ Ended' = Ended
    BY <1>5 DEF Finishes
  <2>8. Executor!Finish
    BY <2>4, <2>5, <2>6, <2>7 DEF Executor!Finish, Waiting, Pending, Ended, Refused, Refusals, t
  <2> QED
    BY <2>8 DEF Executor!TaskStep
<1>6. ASSUME NEW t \in Tasks, Refuses(t) PROVE Executor!TaskStep
  <2>1. Executor!New(t)
    BY <1>6, ExecutorNew DEF Refuses
  <2>2. Waiting' = Waiting /\ UNCHANGED <<stack, Finished>> /\ Ended' = Ended
    BY <1>6, WaitingSame DEF Refuses, Pending
  <2>3. Withdrew' = Withdrew \cup {t}
    BY <1>6 DEF Refuses
  <2>4. Executor!Refuse(t)
    BY <2>1, <2>2, <2>3 DEF Executor!Refuse, Waiting, Pending, Ended, Refused, Refusals
  <2> QED
    BY <2>4 DEF Executor!TaskStep
<1>7. ASSUME NEW t \in Tasks, Accepts(t) PROVE Executor!TaskStep
  <2>1. Executor!New(t)
    BY <1>7, ExecutorNew DEF Accepts
  <2>2. Waiting' = Append(Waiting, t)
    BY <1>7, WaitingAccepts
  <2>3. UNCHANGED <<stack, Finished, Withdrew>> /\ Ended' = Ended /\ state = "RUNNING"
    BY <1>7 DEF Accepts
  <2>4. Executor!Accept(t)
    BY <2>1, <2>2, <2>3 DEF Executor!Accept, Waiting, Pending, Ended, Refused, Refusals
  <2> QED
    BY <2>4 DEF Executor!TaskStep
<1>8. ASSUME NEW t \in Tasks, Withdraws(t) PROVE Executor!TaskStep
  <2>1. InSeq(t, Waiting) /\ Waiting' = Among(Tasks \ {t}, Waiting)
    BY <1>8, WaitingWithdraws
  <2>2. UNCHANGED <<stack, Finished>> /\ Ended' = Ended /\ Withdrew' = Withdrew \cup {t}
    BY <1>8 DEF Withdraws
  <2>3. Executor!Withdraw(t)
    BY <2>1, <2>2, InstanceSame DEF Executor!Withdraw, Waiting, Pending, Ended, Refused, Refusals
  <2> QED
    BY <2>3 DEF Executor!TaskStep
<1>9. ASSUME NEW t \in Tasks, Nests(t) PROVE Executor!TaskStep
  <2>1. Executor!New(t)
    BY <1>9, ExecutorNew DEF Nests
  <2>2. Pending' = Pending /\ UNCHANGED <<Finished, Withdrew>>
    BY <1>9 DEF Nests, Pending
  <2>3. Waiting' = Waiting
    BY <1>9, <2>2, WaitingSame DEF Nests
  <2>4. state = "RUNNING" /\ stack # <<>> /\ stack' = Append(stack, t) /\ Ended' = Ended
    BY <1>9 DEF Nests
  <2>5. Executor!Nest(t)
    BY <2>1, <2>2, <2>3, <2>4 DEF Executor!Nest, Waiting, Pending, Ended, Refused, Refusals
  <2> QED
    BY <2>5 DEF Executor!TaskStep
<1> QED
  BY <1>1, <1>2, <1>3, <1>4, <1>5, <1>6, <1>7, <1>8, <1>9 DEF Effect

\* The state only moves forward as far as the intake shows.
LEMMA IntakeStepMaps ==
  ASSUME TypeOK, LifeInv, EntryInv, Next
  PROVE  Executor!IntakeStep \/ UNCHANGED Intake
<1>1. \/ state' = state
      \/ state' \in {"CLOSING", "CLOSED", "FAILED"}
      \/ state = "NEW" /\ state' = "STARTING"
      \/ state = "STARTING" /\ state' = "RUNNING"
  <2> USE DEF workerVars, ThreadGoes
  <2>1. ASSUME NEW c \in Callers, CallerBegins(c)
        PROVE  \/ state' = state
               \/ state' \in {"CLOSING", "CLOSED", "FAILED"}
               \/ state = "NEW" /\ state' = "STARTING"
    BY <2>1 DEF CallerBegins, StartAlreadyRunning, StartRefused, StartThread,
                StartAwaitsOther, CloseUnstarted, CloseBegin
  <2>2. ASSUME NEW c \in Callers, CallerContinues(c)
        PROVE  state' = state \/ state' \in {"CLOSING", "CLOSED", "FAILED"}
    BY <2>2 DEF CallerContinues, SeeReady, AfterReady, StartTimesOut, CancelStartup,
                RequestStop, PutStop, FailStart, Submit, GetResult, CallTimesOut,
                CheckDone, Cancel, Poison, Joined, JoinTimesOut, FinishClose
  <2>3. CASE ThreadContinues
    <3>1. CASE Decide
      BY <3>1 DEF Decide, EntryInv, OpeningInv
    <3>2. CASE ~Decide
      BY <2>3, <3>2
      DEF ThreadContinues, InitializerReturns, InitializerRaises, SignalFailure, SignalReady,
          Recheck, TakeStop, SkipCancelled, BeginTask, EndTask, FinalizerReturns,
          FinalizerRaises, ExitThread, ThreadDies
    <3> QED
      BY <3>1, <3>2
  <2>4. ASSUME NEW t \in Tasks, ReentrantCall(t) PROVE state' = state
    BY <2>4 DEF ReentrantCall
  <2> QED
    BY <2>1, <2>2, <2>3, <2>4 DEF Next
<1> QED
  BY <1>1 DEF Executor!IntakeStep, Intake, TypeOK, WorkerState

\* Every step of the worker keeps EntryInv.
LEMMA EntryStep ==
  TypeOK /\ LifeInv /\ StopInv /\ EntryInv /\ [Next]_vars => EntryInv'
  <1> SUFFICES ASSUME TypeOK, LifeInv, StopInv, EntryInv, [Next]_vars PROVE EntryInv'
    OBVIOUS
  <1>1. CASE Next
    BY <1>1, EntryCaller, EntryThread DEF Next
  <1>2. CASE UNCHANGED vars
    BY <1>2 DEF EntryInv, HolderInv, OpeningInv, vars, workerVars, threadVars, callVars
  <1> QED
    BY <1>1, <1>2

\* A step of the worker has one of the effects.
LEMMA NextEffect ==
  ASSUME TypeOK, LifeInv, TaskInv, EntryInv, Next
  PROVE  Effect
  BY EffectCaller, EffectThread DEF Next, EntryInv

\* Every step of the worker keeps QueueInv.
LEMMA QueueKept ==
  TypeOK /\ LifeInv /\ TaskInv /\ EntryInv /\ QueueInv /\ [Next]_vars => QueueInv'
  <1> SUFFICES ASSUME TypeOK, LifeInv, TaskInv, EntryInv, QueueInv, [Next]_vars PROVE QueueInv'
    OBVIOUS
  <1>1. CASE Next
    BY <1>1, NextEffect, QueueStep
  <1>2. CASE UNCHANGED vars
    BY <1>2 DEF QueueInv, vars, workerVars, threadVars, callVars
  <1> QED
    BY <1>1, <1>2

\* A new worker is a new executor.
LEMMA ExecutorInit ==
  Init => Executor!Init
<1> SUFFICES ASSUME Init PROVE Executor!Init
  OBVIOUS
<1>1. Waiting = <<>>
  BY AmongEmpty DEF Init, Waiting
<1>2. Finished = {} /\ Withdrew = {} /\ ~Ended /\ Intake = "unopened" /\ stack = <<>>
  BY DEF Init, Finished, Withdrew, Ended, Intake, Refused, Refusals
<1> QED
  BY <1>1, <1>2, InstanceSame
  DEF Executor!Init, Waiting, Pending, Finished, Withdrew, Ended, Intake, Refused, Refusals

\* Every step of the worker is a step of the executor, or none it shows.
LEMMA ExecutorStep ==
  TypeOK /\ LifeInv /\ TaskInv /\ EntryInv /\ QueueInv /\ [Next]_vars => [Executor!Next]_Executor!vars
<1> SUFFICES ASSUME TypeOK, LifeInv, TaskInv, EntryInv, QueueInv, [Next]_vars
             PROVE  [Executor!Next]_Executor!vars
  OBVIOUS
<1>1. CASE Next
  <2>1. Executor!TaskStep \/ UNCHANGED Executor!taskVars
    BY <1>1, NextEffect, TaskStepMaps
  <2>2. Executor!IntakeStep \/ UNCHANGED Intake
    BY <1>1, IntakeStepMaps
  <2> QED
    BY <2>1, <2>2 DEF Executor!Next, Intake
<1>2. CASE UNCHANGED vars
  BY <1>2 DEF Executor!vars, Executor!taskVars, vars, workerVars, threadVars, callVars
<1> QED
  BY <1>1, <1>2

\* The worker implements the executor: however calls, deadlines, stops and closes
\* interleave, accepted tasks run one at a time in the order of their acceptance,
\* a refused or withdrawn task never runs, the intake opens and shuts once, and
\* nothing runs after the stop (DedicatedSTAWorker, worker.py).
THEOREM ImplementsSerialExecutor == Spec => ImplementsExecutor
<1>1. Spec => [](TypeOK /\ LifeInv /\ TaskInv /\ PoisonInv /\ StopInv)
  BY Base, TaskInit, TaskStep, PoisonInit, PoisonStep, StopInit, StopStep, PTL DEF Spec
<1>2. Spec => [](EntryInv /\ QueueInv)
  BY <1>1, EntryInit, EntryStep, QueueInit, QueueKept, PTL DEF Spec
<1> QED
  BY <1>1, <1>2, ExecutorInit, ExecutorStep, PTL DEF Spec, ImplementsExecutor, Executor!Spec

================================================================================
