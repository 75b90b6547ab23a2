--------------------------- MODULE GatewaySessionProofs ---------------------------
(***************************************************************************)
(* Proofs about ETABSGatewaySession on top of its worker, for any number   *)
(* of callers and clean-ups.  Every step of the session is a step of the   *)
(* worker or leaves it alone, so what StaWorkerProofs says of the worker   *)
(* holds beneath a session; the invariant adds who holds which task.       *)
(***************************************************************************)
EXTENDS GatewaySession, StaWorkerProofs

Missed == {"start_timeout", "timeout_cancelled", "timeout_running"}
Shut == {"CLOSING", "CLOSED", "FAILED"}

\* A task that was handed over has somebody who waits for it, until it ended or
\* its deadline was missed.
FutureInv ==
  /\ \A t \in Tasks : outcome[t] = "returned" => future[t] = "done"
  /\ \A t \in Tasks : future[t] \in {"pending", "running"} =>
       outcome[t] \in Missed \/ \E c \in Callers : task[c] = t
  /\ \A c \in Callers : task[c] \in Tasks => outcome[task[c]] = "none"
  /\ \A i \in DOMAIN stack : future[stack[i]] = "running"
  /\ Len(stack) <= 1

\* An intake that was shut stays shut, and one that nobody shut is open while the
\* thread serves.
IntakeInv ==
  /\ state \in Shut /\ thread \in {"init", "decide"} => startupCancelled \/ stopRequested
  /\ ~startupCancelled /\ ~stopRequested =>
       /\ thread \in {"signal", "recheck", "loop", "run"} => state = "RUNNING"
       /\ thread \in Left => began = {}

\* The tasks a caller may hold where it stands.
Serves(step) ==
  {t \in Tasks : \/ step = "attach" /\ t = Attach
                 \/ step = "context" /\ t = ReadContext
                 \/ step = "detach" /\ t \in Detaches
                 \/ step = "bounded_call" /\ t \in BoundedCalls}

HeldInv ==
  \A c \in Callers :
    \/ pc[c] = "idle" /\ task[c] = NoTask
    \/ pc[c] \in {"join", "finish_close"} /\ task[c] = NoTask /\ at[c] = "close_worker"
    \/ pc[c] \notin {"idle", "join", "finish_close"} /\ task[c] \in Serves(at[c])

Starting(c) == at[c] \in {"start", "attach", "context"}
Cleaning(c) == at[c] \in {"cleanup", "found", "detach", "close_worker"}
Starter(c) == Starting(c) \/ (Cleaning(c) /\ purpose[c] = "start")

\* One thread starts the session, and while it does nobody closes it.
RoleInv ==
  /\ \A c \in Callers : Starter(c) => session = "STARTING"
  /\ \A c, d \in Callers : Starter(c) /\ Starter(d) => c = d
  /\ \A c \in Callers : Cleaning(c) /\ purpose[c] = "close" => session \in {"CLOSING", "CLOSED"}
  /\ closedClean => session = "CLOSED"

\* Nothing is detached before or during an attach.
DetachInv ==
  /\ \A t \in Detaches : future[t] # "failed"
  /\ (\E t \in Detaches : future[t] # "none") =>
       /\ session \notin {"NEW", "READY"}
       /\ \A c \in Callers : ~Starting(c)

AttachInv ==
  /\ \A c \in Callers : at[c] = "context" => outcome[Attach] = "returned"
  /\ session = "READY" => future[Attach] = "done"
  /\ attached => Attach \in began
  /\ future[Attach] = "done" /\ (\A t \in Detaches : future[t] = "none") => attached
  /\ NoDeadlineMissed /\ (\E t \in Detaches : future[t] = "done") => ~attached

\* A clean-up leaves a worker that serves nobody, and one without trouble a closed one.
CloseInv ==
  /\ \A c \in Callers : at[c] = "close_worker" =>
       /\ state \in Shut
       /\ pc[c] = "idle" /\ ~trouble[c] => state = "CLOSED"
  /\ closedClean => state = "CLOSED"
  /\ session = "FAILED" => state \in Shut

\* What a clean-up knows of the attachment when no deadline was missed.
ReleaseInv ==
  /\ \A c \in Callers : at[c] = "detach" /\ pc[c] = "idle" /\ ~trouble[c] =>
       \E t \in Detaches : future[t] = "done"
  /\ NoDeadlineMissed =>
       /\ \A c \in Callers : at[c] = "detach" /\ purpose[c] = "start" /\ attached => pc[c] \in InCall
       /\ \A c \in Callers : at[c] = "close_worker" /\ (~trouble[c] \/ purpose[c] = "start") => ~attached
       /\ session = "FAILED" => ~attached
       /\ closedClean => ~attached
       /\ \/ session \in {"NEW", "READY"}
          \/ session = "STARTING" /\ \A c \in Callers : at[c] # "close_worker"
          => ~stopRequested

WorkerInv == IInv /\ FutureInv /\ IntakeInv

SessionInv ==
  /\ WorkerInv /\ SessionTypeOK /\ HeldInv
  /\ ~ConcurrentClose => RoleInv /\ DetachInv /\ AttachInv /\ CloseInv /\ ReleaseInv

--------------------------------------------------------------------------------
(* What a step of the worker does to the state a session looks at.         *)

\* A caller's function is handed to start(): refused, or on its way to the queue.
CallEffect(c, t) ==
  /\ pc[c] = "idle" /\ Fresh(t)
  /\ UNCHANGED <<stopRequested, startupCancelled, stack, began, future>>
  /\ \/ UNCHANGED <<state, thread>>
     \/ state = "NEW" /\ state' = "STARTING" /\ thread = "none" /\ thread' = "init"
  /\ \/ /\ state \in Shut
        /\ outcome' = [outcome EXCEPT ![t] = "refused"]
        /\ UNCHANGED <<pc, task>>
     \/ /\ state \notin Shut
        /\ \E step \in {"submit", "await_ready"} :
             /\ pc' = [pc EXCEPT ![c] = step]
             /\ state = "RUNNING" => step = "submit"
        /\ task' = [task EXCEPT ![c] = t]
        /\ UNCHANGED outcome

\* A caller closes the worker: at once, or by waiting for the thread.
CloseEffect(c) ==
  /\ pc[c] = "idle"
  /\ UNCHANGED <<startupCancelled, thread, stack, began, future, task, outcome>>
  /\ \/ state \in {"NEW", "CLOSED"} /\ state' = "CLOSED" /\ UNCHANGED <<pc, stopRequested>>
     \/ /\ state \notin {"NEW", "CLOSED"} /\ state' = "CLOSING"
        /\ stopRequested' = TRUE \/ (state = "CLOSING" /\ UNCHANGED stopRequested)
        /\ pc' = [pc EXCEPT ![c] = "join"]

\* How the call of a task ends for its caller, with r as its result.
EndsWith(c, r) ==
  \/ /\ r \in {"refused", "start_timeout"}
     /\ pc[c] \in InCall => state # "RUNNING"
     /\ future[task[c]] = "none" /\ UNCHANGED future
  \/ r = "returned" /\ future[task[c]] = "done" /\ UNCHANGED future
  \/ r = "call_error" /\ future[task[c]] \in {"done", "failed"} /\ UNCHANGED future
  \/ /\ r = "timeout_cancelled"
     /\ future[task[c]] = "pending"
     /\ future' = [future EXCEPT ![task[c]] = "cancelled"]
  \/ r = "timeout_running" /\ UNCHANGED future

\* The caller goes on inside close(), goes on inside a call, or leaves a call.
InClose(c) ==
  /\ task[c] = NoTask /\ UNCHANGED <<task, outcome, future>>
  /\ \/ pc[c] = "join" /\ pc' = [pc EXCEPT ![c] = "finish_close"] /\ UNCHANGED state
     \/ pc[c] = "join" /\ pc' = [pc EXCEPT ![c] = "idle"] /\ UNCHANGED state
     \/ pc[c] = "finish_close" /\ pc' = [pc EXCEPT ![c] = "idle"] /\ state' = "CLOSED"

OnInCall(c) ==
  /\ task[c] \in Tasks /\ UNCHANGED <<task, outcome>>
  /\ \E step \in CallerStep \ {"idle", "join", "finish_close"} :
       /\ pc' = [pc EXCEPT ![c] = step]
       /\ pc[c] \in InCall => step \in InCall
  /\ \/ UNCHANGED future
     \/ /\ state = "RUNNING" /\ pc[c] = "submit"
        /\ future' = [future EXCEPT ![task[c]] = "pending"]

LeavesCall(c) ==
  /\ task[c] \in Tasks
  /\ pc' = [pc EXCEPT ![c] = "idle"]
  /\ task' = [task EXCEPT ![c] = NoTask]
  /\ \E r \in Outcome : outcome' = [outcome EXCEPT ![task[c]] = r] /\ EndsWith(c, r)

CallerEffect(c) ==
  /\ pc[c] # "idle"
  /\ UNCHANGED <<thread, stack, began>>
  /\ startupCancelled => startupCancelled'
  /\ stopRequested => stopRequested'
  /\ stopRequested' => \/ stopRequested \/ startupCancelled
                       \/ \E t \in Tasks : outcome'[t] = "timeout_running"
  /\ \/ UNCHANGED state
     \/ /\ state \in {"STARTING", "RUNNING"} /\ state' = "FAILED"
        /\ startupCancelled \/ stopRequested'
     \/ thread = "dead" /\ state' = "CLOSED"
  /\ InClose(c) \/ OnInCall(c) \/ LeavesCall(c)

\* The worker thread takes a task up, ends the one it runs, or moves on.
ThreadEffect ==
  /\ UNCHANGED <<startupCancelled, stopRequested, callVars>>
  /\ began \subseteq began'
  /\ state \in Shut => state' \in Shut
  /\ state = "CLOSED" => state' = "CLOSED"
  /\ \/ thread # "run" /\ UNCHANGED <<future, stack>>
     \/ \E t \in Tasks : /\ thread # "run" /\ future[t] = "pending"
                         /\ future' = [future EXCEPT ![t] = "running"]
                         /\ stack' = <<t>>
     \/ \E r \in {"done", "failed"} :
          /\ thread = "run" /\ stack[1] \in began /\ future[stack[1]] = "running"
          /\ future' = [future EXCEPT ![stack[1]] = r]
          /\ stack' = <<>>

--------------------------------------------------------------------------------
(* The actions of the worker have these effects.                           *)

\* What a caller stands in decides whether it carries a task.
Carries(c) ==
  \/ pc[c] \in {"join", "finish_close"} /\ task[c] = NoTask
  \/ pc[c] \notin {"idle", "join", "finish_close"} /\ task[c] \in Tasks

\* A call of the worker has the effect CallEffect.
LEMMA CallHasEffect ==
  ASSUME TypeOK, LifeInv, NEW c \in Callers, NEW t \in Tasks, CallWorker(c, t)
  PROVE  CallEffect(c, t)
  <1> t # NoTask
    BY StaWorkerAssumption
  <1> USE DEF TypeOK, CallEffect, Shut, Enter, WorkerState, workerVars, threadVars, callVars
  <1>1. CASE StartAlreadyRunning(c, t)
    BY <1>1 DEF StartAlreadyRunning, Proceed
  <1>2. CASE StartRefused(c, t)
    <2>1. outcome' = [outcome EXCEPT ![t] = "refused"]
      BY <1>2 DEF StartRefused
    <2> QED
      BY <1>2, <2>1 DEF StartRefused
  <1>3. CASE StartThread(c, t)
    BY <1>3 DEF StartThread, LifeInv
  <1>4. CASE StartAwaitsOther(c, t)
    BY <1>4 DEF StartAwaitsOther
  <1> QED
    BY <1>1, <1>2, <1>3, <1>4 DEF CallWorker

\* A close of the worker has the effect CloseEffect.
LEMMA CloseHasEffect ==
  ASSUME TypeOK, NEW c \in Callers, CloseWorker(c), pc[c] = "idle"
  PROVE  CloseEffect(c)
  BY DEF TypeOK, CloseEffect, CloseWorker, CloseUnstarted, CloseBegin, Goto,
         vars, workerVars, threadVars, callVars

\* A step of a caller inside the worker has the effect CallerEffect.
LEMMA CallerHasEffect ==
  ASSUME TypeOK, LifeInv, TaskInv, StopInv, NEW c \in Callers, CallerContinues(c), Carries(c)
  PROVE  CallerEffect(c)
  <1> NoTask \notin Tasks
    BY StaWorkerAssumption
  <1> USE DEF TypeOK, CallerEffect, Carries, Goto, workerVars, threadVars, callVars,
              CallerStep, InCall
  <1>1. CASE SeeReady(c)
    BY <1>1 DEF SeeReady, OnInCall
  <1>2. CASE AfterReady(c)
    <2>1. CASE state = "RUNNING"
      BY <1>2, <2>1 DEF AfterReady, Proceed, OnInCall
    <2>2. CASE state # "RUNNING"
      <3>1. outcome' = [outcome EXCEPT ![task[c]] = "refused"]
        BY <1>2, <2>2 DEF AfterReady, Leave
      <3>2. LeavesCall(c)
        BY <1>2, <2>2, <3>1 DEF AfterReady, Leave, LeavesCall, EndsWith, Outcome, TaskInv, BeforeSubmit
      <3> QED
        BY <1>2, <2>2, <3>1, <3>2 DEF AfterReady
    <2> QED
      BY <2>1, <2>2
  <1>3. CASE StartTimesOut(c)
    BY <1>3 DEF StartTimesOut, OnInCall
  <1>4. CASE CancelStartup(c)
    BY <1>4 DEF CancelStartup, OnInCall
  <1>5. CASE RequestStop(c)
    BY <1>5 DEF RequestStop, OnInCall, StopInv
  <1>6. CASE PutStop(c)
    BY <1>6 DEF PutStop, OnInCall
  <1>7. CASE FailStart(c)
    <2>1. outcome' = [outcome EXCEPT ![task[c]] = "start_timeout"]
      BY <1>7 DEF FailStart, Leave
    <2>2. LeavesCall(c)
      BY <1>7, <2>1 DEF FailStart, Leave, LeavesCall, EndsWith, Outcome, TaskInv, BeforeSubmit
    <2>3. startupCancelled
      BY <1>7 DEF FailStart, StopInv
    <2> QED
      BY <1>7, <2>2, <2>3 DEF FailStart
  <1>8. CASE Submit(c)
    <2>1. CASE state = "RUNNING"
      BY <1>8, <2>1 DEF Submit, OnInCall
    <2>2. CASE state # "RUNNING"
      <3>1. outcome' = [outcome EXCEPT ![task[c]] = "refused"]
        BY <1>8, <2>2 DEF Submit, Leave
      <3>2. LeavesCall(c)
        BY <1>8, <2>2, <3>1 DEF Submit, Leave, LeavesCall, EndsWith, Outcome, TaskInv, BeforeSubmit
      <3> QED
        BY <1>8, <2>2, <3>1, <3>2 DEF Submit
    <2> QED
      BY <2>1, <2>2
  <1>9. CASE GetResult(c)
    <2>1. PICK r \in {"returned", "call_error"} :
            /\ outcome' = [outcome EXCEPT ![task[c]] = r]
            /\ r = "returned" => future[task[c]] = "done"
            /\ r = "call_error" => future[task[c]] = "failed"
      BY <1>9 DEF GetResult, Leave
    <2>2. LeavesCall(c)
      BY <1>9, <2>1 DEF GetResult, Leave, LeavesCall, EndsWith, Outcome
    <2> QED
      BY <1>9, <2>2 DEF GetResult
  <1>10. CASE CallTimesOut(c)
    BY <1>10 DEF CallTimesOut, OnInCall
  <1>11. CASE CheckDone(c)
    <2>1. CASE future[task[c]] \in {"done", "failed"}
      <3>1. outcome' = [outcome EXCEPT ![task[c]] = "call_error"]
        BY <1>11, <2>1 DEF CheckDone, Leave
      <3>2. LeavesCall(c)
        BY <1>11, <2>1, <3>1 DEF CheckDone, Leave, LeavesCall, EndsWith, Outcome
      <3> QED
        BY <1>11, <2>1, <3>1, <3>2 DEF CheckDone
    <2>2. CASE future[task[c]] \notin {"done", "failed"}
      BY <1>11, <2>2 DEF CheckDone, OnInCall
    <2> QED
      BY <2>1, <2>2
  <1>12. CASE Cancel(c)
    <2>1. CASE future[task[c]] = "pending"
      <3>1. outcome' = [outcome EXCEPT ![task[c]] = "timeout_cancelled"]
        BY <1>12, <2>1 DEF Cancel, Leave
      <3>2. LeavesCall(c)
        BY <1>12, <2>1, <3>1 DEF Cancel, Leave, LeavesCall, EndsWith, Outcome
      <3> QED
        BY <1>12, <2>1, <3>1, <3>2 DEF Cancel
    <2>2. CASE future[task[c]] # "pending"
      BY <1>12, <2>2 DEF Cancel, OnInCall
    <2> QED
      BY <2>1, <2>2
  <1>13. CASE Poison(c)
    <2>1. outcome' = [outcome EXCEPT ![task[c]] = "timeout_running"]
      BY <1>13 DEF Poison, Leave
    <2>2. LeavesCall(c)
      BY <1>13, <2>1 DEF Poison, Leave, LeavesCall, EndsWith, Outcome
    <2>3. outcome'[task[c]] = "timeout_running" /\ task[c] \in Tasks
      BY <1>13, <2>1 DEF Poison
    <2> QED
      BY <1>13, <2>2, <2>3 DEF Poison
  <1>14. CASE Joined(c)
    BY <1>14 DEF Joined, InClose
  <1>15. CASE JoinTimesOut(c)
    <2>1. UNCHANGED <<task, outcome>>
      BY <1>15 DEF JoinTimesOut, Leave
    <2> QED
      BY <1>15, <2>1 DEF JoinTimesOut, Leave, InClose
  <1>16. CASE FinishClose(c)
    <2>1. UNCHANGED <<task, outcome>>
      BY <1>16 DEF FinishClose, Leave
    <2> QED
      BY <1>16, <2>1 DEF FinishClose, Leave, InClose, LifeInv
  <1> QED
    BY <1>1, <1>2, <1>3, <1>4, <1>5, <1>6, <1>7, <1>8, <1>9, <1>10, <1>11, <1>12, <1>13,
       <1>14, <1>15, <1>16 DEF CallerContinues

\* A step of the worker thread has the effect ThreadEffect when no function
\* calls the worker again.
LEMMA ThreadHasEffect ==
  ASSUME TypeOK, LifeInv, TaskInv, FutureInv, IntakeInv, ThreadContinues
  PROVE  ThreadEffect
  <1> USE DEF TypeOK, LifeInv, ThreadEffect, Shut, IntakeInv, workerVars, callVars, ThreadGoes
  <1>1. CASE BeginTask
    <2>1. Head(queue) \in Tasks
      BY <1>1, HeadTailProperties DEF BeginTask
    <2> QED
      BY <1>1, <2>1 DEF BeginTask
  <1>2. ASSUME NEW ok \in BOOLEAN, EndTask(ok)
        PROVE  ThreadEffect
    <2>1. Len(stack) = 1 /\ 1 \in DOMAIN stack
      <3>1. stack # <<>> /\ Len(stack) <= 1
        BY <1>2 DEF EndTask, FutureInv
      <3>2. Len(stack) \in Nat /\ DOMAIN stack = 1 .. Len(stack) /\ Len(stack) # 0
        BY <3>1, EmptySeq, LenProperties
      <3> QED
        BY <3>1, <3>2
    <2>2. stack[1] \in began /\ future[stack[1]] = "running" /\ stack[1] \in Tasks
      BY <2>1 DEF FutureInv, TaskInv
    <2>3. SubSeq(stack, 1, Len(stack) - 1) = <<>>
      BY <1>2, <2>1, PopStack, EmptySeq DEF EndTask
    <2>4. outcome' = outcome
      BY <1>2, <2>1, <2>2 DEF EndTask
    <2> QED
      BY <1>2, <2>1, <2>2, <2>3, <2>4 DEF EndTask
  <1>3. CASE ~BeginTask /\ ~\E ok \in BOOLEAN : EndTask(ok)
    BY <1>3 DEF ThreadContinues, InitializerReturns, InitializerRaises, SignalFailure,
         Decide, SignalReady, Recheck, TakeStop, SkipCancelled,
         FinalizerReturns, FinalizerRaises, ExitThread, ThreadDies, threadVars
  <1> QED
    BY <1>1, <1>2, <1>3

--------------------------------------------------------------------------------
(* What a session knows of its worker.                                     *)

\* A caller that is back carries nothing, one in the worker what its step says.
LEMMA HeldCarries ==
  ASSUME HeldInv, NEW c \in Callers
  PROVE  /\ pc[c] = "idle" => task[c] = NoTask
         /\ pc[c] # "idle" => Carries(c)
         /\ task[c] \in Tasks => task[c] \in Serves(at[c])
  BY StaWorkerAssumption DEF HeldInv, Carries, Serves

\* A call keeps FutureInv and IntakeInv.
LEMMA WorkerCall ==
  ASSUME TypeOK, LifeInv, FutureInv, IntakeInv, HeldInv, NEW c \in Callers, NEW t \in Tasks,
         CallEffect(c, t)
  PROVE  FutureInv' /\ IntakeInv'
  <1> pc[c] = "idle" /\ task[c] = NoTask /\ NoTask \notin Tasks
    BY HeldCarries, StaWorkerAssumption DEF CallEffect
  <1> USE DEF TypeOK
  <1>1. FutureInv'
    BY DEF FutureInv, CallEffect, Fresh, Missed
  <1>2. IntakeInv'
    BY DEF IntakeInv, CallEffect, Shut, Left
  <1> QED
    BY <1>1, <1>2

\* A close keeps FutureInv and IntakeInv.
LEMMA WorkerClose ==
  ASSUME TypeOK, LifeInv, FutureInv, IntakeInv, NEW c \in Callers, CloseEffect(c)
  PROVE  FutureInv' /\ IntakeInv'
  BY DEF TypeOK, LifeInv, FutureInv, IntakeInv, CloseEffect, Shut, Left, Missed

\* A step of a caller inside the worker keeps FutureInv and IntakeInv.
LEMMA WorkerCaller ==
  ASSUME TypeOK, LifeInv, TaskInv, PoisonInv, FutureInv, IntakeInv, HeldInv,
         NEW c \in Callers, CallerEffect(c)
  PROVE  FutureInv' /\ IntakeInv'
  <1> NoTask \notin Tasks
    BY StaWorkerAssumption
  <1> USE DEF TypeOK
  <1>1. IntakeInv'
    BY DEF IntakeInv, CallerEffect, Shut, Left, PoisonInv
  <1> SUFFICES FutureInv'
    BY <1>1
  <1> UNCHANGED stack
    BY DEF CallerEffect
  <1>2. CASE InClose(c)
    BY <1>2 DEF FutureInv, InClose
  <1>3. CASE OnInCall(c)
    <2>1. UNCHANGED <<task, outcome>> /\ task[c] \in Tasks
      BY <1>3 DEF OnInCall
    <2>2. CASE UNCHANGED future
      BY <2>1, <2>2 DEF FutureInv
    <2>3. CASE pc[c] = "submit" /\ future' = [future EXCEPT ![task[c]] = "pending"]
      <3>1. future[task[c]] = "none" /\ outcome[task[c]] = "none"
        BY <2>1, <2>3 DEF TaskInv, BeforeSubmit
      <3>2. \A t \in Tasks : future'[t] = IF t = task[c] THEN "pending" ELSE future[t]
        BY <2>3
      <3>3. \A i \in DOMAIN stack : future'[stack[i]] = "running"
        BY <3>1, <2>3 DEF FutureInv
      <3> QED
        BY <2>1, <3>1, <3>2, <3>3 DEF FutureInv
    <2> QED
      BY <1>3, <2>2, <2>3 DEF OnInCall
  <1>4. CASE LeavesCall(c)
    <2>1. PICK r \in Outcome : outcome' = [outcome EXCEPT ![task[c]] = r] /\ EndsWith(c, r)
      BY <1>4 DEF LeavesCall
    <2>2. /\ task[c] \in Tasks /\ task' = [task EXCEPT ![c] = NoTask]
          /\ \A d \in Callers : d # c => task[d] # task[c]
          /\ outcome[task[c]] = "none"
      BY <1>4 DEF LeavesCall, TaskInv, FutureInv
    <2>3. /\ r = "returned" => future'[task[c]] = "done"
          /\ r \in Missed \/ future'[task[c]] \notin {"pending", "running"}
          /\ \A t \in Tasks : t # task[c] => future'[t] = future[t]
      BY <2>1, <2>2 DEF EndsWith, Missed
    <2>4. UNCHANGED stack /\ \A i \in DOMAIN stack : future'[stack[i]] = "running"
      BY <2>1, <2>2 DEF EndsWith, FutureInv, CallerEffect
    <2>5. \A t \in Tasks : outcome'[t] = "returned" => future'[t] = "done"
      BY <2>1, <2>2, <2>3 DEF FutureInv
    <2>6. \A t \in Tasks : future'[t] \in {"pending", "running"} =>
             outcome'[t] \in Missed \/ \E d \in Callers : task'[d] = t
      <3> SUFFICES ASSUME NEW t \in Tasks, future'[t] \in {"pending", "running"}
                   PROVE  outcome'[t] \in Missed \/ \E d \in Callers : task'[d] = t
        OBVIOUS
      <3>1. CASE t = task[c]
        BY <3>1, <2>1, <2>2, <2>3
      <3>2. CASE t # task[c]
        <4>1. outcome[t] \in Missed \/ \E d \in Callers : task[d] = t
          BY <3>2, <2>3 DEF FutureInv
        <4> QED
          BY <3>2, <4>1, <2>1, <2>2
      <3> QED
        BY <3>1, <3>2
    <2>7. \A d \in Callers : task'[d] \in Tasks => outcome'[task'[d]] = "none"
      BY <2>1, <2>2 DEF FutureInv
    <2> QED
      BY <2>4, <2>5, <2>6, <2>7 DEF FutureInv
  <1> QED
    BY <1>2, <1>3, <1>4 DEF CallerEffect

\* A step of the thread keeps FutureInv.
LEMMA FutureThread ==
  ASSUME TypeOK, LifeInv, TaskInv, FutureInv, ThreadEffect
  PROVE  FutureInv'
  <1> USE DEF TypeOK, callVars
  <1>1. CASE UNCHANGED <<future, stack>>
    BY <1>1 DEF FutureInv, ThreadEffect
  <1>2. ASSUME NEW t \in Tasks, future[t] = "pending", thread # "run",
               future' = [future EXCEPT ![t] = "running"], stack' = <<t>>
        PROVE  FutureInv'
    BY <1>2 DEF FutureInv, ThreadEffect
  <1>3. ASSUME NEW r \in {"done", "failed"}, thread = "run", stack[1] \in began,
               future[stack[1]] = "running",
               future' = [future EXCEPT ![stack[1]] = r], stack' = <<>>
        PROVE  FutureInv'
    <2>1. \A t \in Tasks : future'[t] = IF t = stack[1] THEN r ELSE future[t]
      BY <1>3
    <2>2. \A i \in DOMAIN stack' : FALSE
      BY <1>3
    <2>3. Len(stack') <= 1
      BY <1>3
    <2>4. UNCHANGED <<outcome, task>>
      BY DEF ThreadEffect
    <2> QED
      BY <1>3, <2>1, <2>2, <2>3, <2>4 DEF FutureInv
  <1> QED
    BY <1>1, <1>2, <1>3 DEF ThreadEffect

\* A step of the thread keeps IntakeInv: nobody but a stop request ends it.
LEMMA IntakeThread ==
  ASSUME TypeOK, LifeInv, StopInv, IntakeInv, ThreadContinues
  PROVE  IntakeInv'
  <1> USE DEF IntakeInv, Left, Shut, ThreadGoes, workerVars
  <1>1. CASE TakeStop
    <2>1. Head(queue) = queue[1] /\ 1 \in DOMAIN queue
      BY <1>1, TailOf DEF TakeStop, TypeOK
    <2> QED
      BY <1>1, <2>1 DEF TakeStop, StopInv
  <1>2. ASSUME NEW ok \in BOOLEAN, EndTask(ok)
        PROVE  IntakeInv'
    BY <1>2 DEF EndTask
  <1>3. CASE BeginTask \/ SkipCancelled
    BY <1>3 DEF BeginTask, SkipCancelled, threadVars
  <1>4. CASE InitializerReturns \/ InitializerRaises \/ SignalFailure \/ Decide
    BY <1>4 DEF InitializerReturns, InitializerRaises, SignalFailure, Decide, StopInv
  <1>5. CASE SignalReady \/ Recheck
    BY <1>5 DEF SignalReady, Recheck
  <1>6. CASE FinalizerReturns \/ FinalizerRaises \/ ExitThread \/ ThreadDies
    BY <1>6 DEF FinalizerReturns, FinalizerRaises, ExitThread, ThreadDies, StopInv
  <1> QED
    BY <1>1, <1>2, <1>3, <1>4, <1>5, <1>6 DEF ThreadContinues

--------------------------------------------------------------------------------
(* The types of a session, and who carries which task.                     *)

\* A local step of a caller that is back keeps HeldInv, wherever it goes.
LEMMA HeldLocal ==
  ASSUME SessionTypeOK, HeldInv, NEW c \in Callers, NEW step, At(c, step),
         pc[c] = "idle", UNCHANGED <<pc, task>>
  PROVE  HeldInv'
  BY DEF SessionTypeOK, HeldInv, At, Serves

\* A call keeps HeldInv when the session calls the task its next step waits for.
LEMMA HeldCall ==
  ASSUME TypeOK, SessionTypeOK, HeldInv, NEW c \in Callers, NEW step, At(c, step),
         NEW t \in Tasks, CallEffect(c, t), t \in Serves(step)
  PROVE  HeldInv'
  <1>1. task[c] = NoTask /\ pc[c] = "idle"
    BY HeldCarries DEF CallEffect
  <1>2. \A d \in Callers : d # c => pc'[d] = pc[d] /\ task'[d] = task[d] /\ at'[d] = at[d]
    BY DEF TypeOK, SessionTypeOK, At, CallEffect
  <1>3. \/ pc'[c] = "idle" /\ task'[c] = NoTask
        \/ pc'[c] \in {"submit", "await_ready"} /\ task'[c] = t /\ at'[c] = step
    BY <1>1 DEF TypeOK, SessionTypeOK, At, CallEffect
  <1> QED
    BY <1>2, <1>3 DEF HeldInv, Serves

\* A step inside the worker keeps HeldInv.
LEMMA HeldCaller ==
  ASSUME TypeOK, SessionTypeOK, HeldInv, NEW c \in Callers, CallerEffect(c), UNCHANGED at
  PROVE  HeldInv'
  <1>1. \A d \in Callers : d # c => pc'[d] = pc[d] /\ task'[d] = task[d]
    BY DEF TypeOK, CallerEffect, InClose, OnInCall, LeavesCall
  <1>2. CASE InClose(c)
    BY <1>1, <1>2, StaWorkerAssumption DEF TypeOK, HeldInv, Serves, InClose, CallerEffect
  <1>3. CASE OnInCall(c)
    BY <1>1, <1>3, StaWorkerAssumption DEF TypeOK, HeldInv, Serves, OnInCall, CallerEffect
  <1>4. CASE LeavesCall(c)
    BY <1>1, <1>4 DEF TypeOK, HeldInv, Serves, LeavesCall
  <1> QED
    BY <1>2, <1>3, <1>4 DEF CallerEffect

\* Every step of a session is a step of its worker, or leaves the worker alone.
LEMMA StepsOfWorker ==
  [SessionNext]_allVars => [Next]_vars
  <1> SUFFICES ASSUME [SessionNext]_allVars PROVE [Next]_vars
    OBVIOUS
  <1> Attach \in Tasks /\ ReadContext \in Tasks /\ Detaches \subseteq Tasks /\ BoundedCalls \subseteq Tasks
    BY GatewaySessionAssumption
  <1>1. ASSUME NEW c \in Callers, NEW t \in Tasks, CallWorker(c, t)
        PROVE  Next
    BY <1>1 DEF CallWorker, Next, CallerBegins
  <1>2. ASSUME NEW c \in Callers, CloseWorker(c)
        PROVE  Next \/ UNCHANGED vars
    BY <1>2 DEF CloseWorker, Next, CallerBegins
  <1>3. CASE UNCHANGED allVars
    BY <1>3 DEF allVars
  <1>4. CASE WorkerThread
    BY <1>4 DEF WorkerThread, Next
  <1>5. ASSUME NEW c \in Callers,
               \/ CallAttach(c) \/ CallReadContext(c) \/ CallDetach(c)
               \/ CallCloseWorker(c) \/ CallBounded(c) \/ CallerInWorker(c)
        PROVE  Next \/ UNCHANGED vars
    BY <1>5, <1>1, <1>2 DEF CallAttach, CallReadContext, CallDetach, CallCloseWorker,
       CallBounded, CallerInWorker, Next
  <1>6. ASSUME NEW c \in Callers,
               \/ BeginStart(c) \/ StartFails(c) \/ BecomeReady(c) \/ BeginClose(c)
               \/ FindAttached(c) \/ Settle(c) \/ CloseAgain(c) \/ BeginBounded(c) \/ EndBounded(c)
        PROVE  UNCHANGED vars
    BY <1>6 DEF BeginStart, StartFails, BecomeReady, BeginClose, FindAttached, Settle,
       CloseAgain, BeginBounded, EndBounded, allVars
  <1> QED
    BY <1>3, <1>4, <1>5, <1>6 DEF SessionNext

\* A session as its constructor leaves it.
LEMMA BaseSessionInit ==
  SessionInit => WorkerInv /\ SessionTypeOK /\ HeldInv
  <1> SUFFICES ASSUME SessionInit PROVE WorkerInv /\ SessionTypeOK /\ HeldInv
    OBVIOUS
  <1>1. IInv
    BY TypeInit, LifeInit, TaskInit, PoisonInit, StopInit DEF SessionInit, IInv
  <1>2. FutureInv
    <2>1. stack = <<>> /\ Len(stack) = 0 /\ DOMAIN stack = {}
      BY EmptySeq DEF SessionInit, Init
    <2>2. \A c \in Callers : task[c] \notin Tasks
      BY StaWorkerAssumption DEF SessionInit, Init
    <2> QED
      BY <2>1, <2>2 DEF SessionInit, Init, FutureInv
  <1>3. IntakeInv
    BY DEF SessionInit, Init, IntakeInv, Shut, Left
  <1>4. SessionTypeOK /\ HeldInv
    BY DEF SessionInit, Init, SessionTypeOK, HeldInv, GatewayState, SessionStep
  <1> QED
    BY <1>1, <1>2, <1>3, <1>4 DEF WorkerInv

\* The parts of the invariant that hold whoever closes the session and when.
LEMMA BaseSessionStep ==
  WorkerInv /\ SessionTypeOK /\ HeldInv /\ [SessionNext]_allVars =>
    (WorkerInv /\ SessionTypeOK /\ HeldInv)'
  <1> SUFFICES ASSUME WorkerInv, SessionTypeOK, HeldInv, [SessionNext]_allVars
               PROVE  (WorkerInv /\ SessionTypeOK /\ HeldInv)'
    OBVIOUS
  <1> TypeOK /\ LifeInv /\ TaskInv /\ PoisonInv /\ StopInv /\ FutureInv /\ IntakeInv
    BY DEF WorkerInv, IInv
  <1> Attach \in Tasks /\ ReadContext \in Tasks /\ Detaches \subseteq Tasks /\ BoundedCalls \subseteq Tasks
    BY GatewaySessionAssumption
  <1>1. IInv'
    BY StepsOfWorker, BaseStep, TaskStep, PoisonStep, StopStep DEF IInv
  <1>2. SessionTypeOK' /\ HeldInv' /\ FutureInv' /\ IntakeInv'
    <2>1. CASE UNCHANGED allVars
      BY <2>1 DEF allVars, vars, workerVars, threadVars, callVars, sessionVars,
         SessionTypeOK, HeldInv, FutureInv, IntakeInv
    <2>2. CASE WorkerThread
      <3>1. ThreadContinues /\ ThreadEffect /\ UNCHANGED <<sessionVars, trouble, callVars>>
        BY <2>2, ThreadHasEffect DEF WorkerThread, ThreadEffect
      <3>2. FutureInv' /\ IntakeInv'
        BY <3>1, FutureThread, IntakeThread
      <3>3. attached' \in BOOLEAN
        BY <2>2 DEF WorkerThread, TaskEffect, SessionTypeOK
      <3>4. SessionTypeOK' /\ HeldInv'
        BY <3>1, <3>3 DEF SessionTypeOK, HeldInv, sessionVars, callVars
      <3> QED
        BY <3>2, <3>4
    <2>3. ASSUME NEW c \in Callers,
                 \/ BeginStart(c) \/ StartFails(c) \/ BecomeReady(c) \/ BeginClose(c)
                 \/ FindAttached(c) \/ Settle(c) \/ CloseAgain(c) \/ BeginBounded(c) \/ EndBounded(c)
          PROVE  SessionTypeOK' /\ HeldInv' /\ FutureInv' /\ IntakeInv'
      <3>1. UNCHANGED vars
        BY <2>3 DEF BeginStart, StartFails, BecomeReady, BeginClose, FindAttached, Settle,
           CloseAgain, BeginBounded, EndBounded, allVars
      <3>2. FutureInv' /\ IntakeInv'
        BY <3>1 DEF vars, workerVars, threadVars, callVars, FutureInv, IntakeInv
      <3>3. pc[c] = "idle" /\ UNCHANGED <<pc, task>>
        <4>1. at[c] \in {"idle", "cleanup"} => pc[c] = "idle"
          BY DEF SessionTypeOK
        <4>2. CASE CloseAgain(c)
          BY <4>1, <4>2, <3>1 DEF CloseAgain, vars, callVars
        <4>3. CASE ~CloseAgain(c)
          BY <4>1, <4>3, <3>1, <2>3 DEF BeginStart, StartFails, BecomeReady, BeginClose,
             FindAttached, Settle, BeginBounded, EndBounded, Back, vars, callVars
        <4> QED
          BY <4>2, <4>3
      <3>4. \E step \in SessionStep : At(c, step)
        <4>1. CASE CloseAgain(c)
          <5>1. At(c, at[c]) /\ at[c] \in SessionStep
            BY <4>1 DEF CloseAgain, At, allVars, sessionVars, SessionTypeOK
          <5> QED
            BY <5>1
        <4>2. CASE ~CloseAgain(c)
          BY <4>2, <2>3 DEF BeginStart, StartFails, BecomeReady, BeginClose, FindAttached,
             Settle, BeginBounded, EndBounded, SessionStep
        <4> QED
          BY <4>1, <4>2
      <3>5. HeldInv'
        BY <3>3, <3>4, HeldLocal
      <3>6. SessionTypeOK'
        <4>1. at' \in [Callers -> SessionStep]
          BY <3>4 DEF SessionTypeOK, At
        <4>2. \A d \in Callers : at'[d] \in {"idle", "start", "cleanup", "found", "bounded"} => pc'[d] = "idle"
          BY <3>3, <3>4 DEF SessionTypeOK, At
        <4>3. CASE CloseAgain(c) \/ FindAttached(c) \/ BeginStart(c) \/ BeginBounded(c) \/ EndBounded(c)
          BY <4>1, <4>2, <4>3 DEF SessionTypeOK, GatewayState, CloseAgain, FindAttached,
             BeginStart, BeginBounded, EndBounded, allVars, sessionVars
        <4>4. CASE StartFails(c) \/ BecomeReady(c) \/ BeginClose(c) \/ Settle(c)
          BY <4>1, <4>2, <4>4 DEF SessionTypeOK, GatewayState, StartFails, BecomeReady,
             BeginClose, Settle
        <4> QED
          BY <4>3, <4>4, <2>3
      <3> QED
        BY <3>2, <3>5, <3>6
    <2>4. ASSUME NEW c \in Callers, NEW t \in Tasks, NEW step \in SessionStep,
                 CallWorker(c, t), At(c, step), t \in Serves(step),
                 UNCHANGED <<session, context, attached, purpose, closedClean>>,
                 trouble' \in [Callers -> BOOLEAN]
          PROVE  SessionTypeOK' /\ HeldInv' /\ FutureInv' /\ IntakeInv'
      <3>1. CallEffect(c, t)
        BY <2>4, CallHasEffect
      <3>2. FutureInv' /\ IntakeInv' /\ HeldInv'
        BY <2>4, <3>1, WorkerCall, HeldCall
      <3>3. at' \in [Callers -> SessionStep]
        BY <2>4 DEF SessionTypeOK, At
      <3>4. \A d \in Callers : at'[d] \in {"idle", "start", "cleanup", "found", "bounded"} => pc'[d] = "idle"
        BY <3>2 DEF HeldInv, Serves
      <3> QED
        BY <2>4, <3>2, <3>3, <3>4 DEF SessionTypeOK
    <2>5. ASSUME NEW c \in Callers,
                 CallAttach(c) \/ CallReadContext(c) \/ CallDetach(c) \/ CallBounded(c)
          PROVE  SessionTypeOK' /\ HeldInv' /\ FutureInv' /\ IntakeInv'
      <3>1. CASE CallAttach(c)
        BY <3>1, <2>4 DEF CallAttach, Serves, SessionStep, SessionTypeOK
      <3>2. CASE CallReadContext(c)
        BY <3>2, <2>4 DEF CallReadContext, Serves, SessionStep, SessionTypeOK
      <3>3. CASE CallBounded(c)
        BY <3>3, <2>4 DEF CallBounded, Serves, SessionStep, SessionTypeOK
      <3>4. CASE CallDetach(c)
        <4>1. PICK t \in Detaches :
                /\ CallWorker(c, t)
                /\ trouble' = [trouble EXCEPT ![c] = @ \/ outcome'[t] = "refused"]
          BY <3>4 DEF CallDetach
        <4>2. trouble' \in [Callers -> BOOLEAN]
          BY <4>1 DEF SessionTypeOK
        <4> QED
          BY <3>4, <4>1, <4>2, <2>4 DEF CallDetach, Serves, SessionStep
      <3> QED
        BY <2>5, <3>1, <3>2, <3>3, <3>4
    <2>6. ASSUME NEW c \in Callers, CallCloseWorker(c)
          PROVE  SessionTypeOK' /\ HeldInv' /\ FutureInv' /\ IntakeInv'
      <3>1. pc[c] = "idle"
        BY <2>6 DEF CallCloseWorker, SessionTypeOK, Back
      <3>2. CloseEffect(c) /\ At(c, "close_worker")
        BY <2>6, <3>1, CloseHasEffect DEF CallCloseWorker
      <3>3. FutureInv' /\ IntakeInv'
        BY <3>2, WorkerClose
      <3>4. HeldInv'
        BY <3>1, <3>2, HeldCarries DEF HeldInv, SessionTypeOK, TypeOK, At, CloseEffect, Serves
      <3>5. SessionTypeOK'
        BY <2>6, <3>1, <3>2 DEF CallCloseWorker, SessionTypeOK, SessionStep, TypeOK, At, CloseEffect
      <3> QED
        BY <3>3, <3>4, <3>5
    <2>7. ASSUME NEW c \in Callers, CallerInWorker(c)
          PROVE  SessionTypeOK' /\ HeldInv' /\ FutureInv' /\ IntakeInv'
      <3>1. CallerContinues(c) /\ UNCHANGED <<sessionVars, attached>>
        BY <2>7 DEF CallerInWorker
      <3>2. pc[c] # "idle"
        BY <3>1 DEF CallerContinues, SeeReady, AfterReady, StartTimesOut, CancelStartup,
           RequestStop, PutStop, FailStart, Submit, GetResult, CallTimesOut, CheckDone,
           Cancel, Poison, Joined, JoinTimesOut, FinishClose
      <3>3. CallerEffect(c)
        BY <3>1, <3>2, HeldCarries, CallerHasEffect
      <3>4. FutureInv' /\ IntakeInv' /\ HeldInv'
        BY <3>1, <3>3, WorkerCaller, HeldCaller DEF sessionVars
      <3>5. trouble' \in [Callers -> BOOLEAN]
        BY <2>7 DEF CallerInWorker, SessionTypeOK
      <3>6. \A d \in Callers : at'[d] \in {"idle", "start", "cleanup", "found", "bounded"} => pc'[d] = "idle"
        BY <3>4 DEF HeldInv, Serves
      <3> QED
        BY <3>1, <3>4, <3>5, <3>6 DEF SessionTypeOK, sessionVars
    <2> QED
      BY <2>1, <2>2, <2>3, <2>5, <2>6, <2>7 DEF SessionNext
  <1> QED
    BY <1>1, <1>2 DEF WorkerInv

--------------------------------------------------------------------------------
(* What every step of a session leaves alone or only lets grow.            *)

\* Results are final, and nothing that was requested or shut is taken back.
Kept ==
  /\ \A t \in Tasks :
       /\ outcome[t] # "none" => outcome'[t] = outcome[t]
       /\ future[t] = "done" => future'[t] = "done"
       /\ future'[t] = "none" => future[t] = "none"
  /\ startupCancelled => startupCancelled'
  /\ stopRequested => stopRequested'
  /\ state \in Shut => state' \in Shut
  /\ state = "CLOSED" => state' = "CLOSED"
  /\ began \subseteq began'

\* The connection changes when an attach or a detach ends on the worker thread.
Attachment ==
  \/ /\ UNCHANGED attached
     /\ \A t \in Detaches \cup {Attach} : future'[t] = "done" => future[t] = "done"
     /\ \A t \in Detaches : future'[t] = "failed" => future[t] = "failed"
  \/ /\ future[Attach] = "running" /\ Attach \in began
     /\ future' = [future EXCEPT ![Attach] = "done"]
     /\ ~attached /\ attached' = TRUE /\ UNCHANGED <<callVars, sessionVars, trouble, stopRequested>>
  \/ \E t \in Detaches :
       /\ future[t] = "running"
       /\ future' = [future EXCEPT ![t] = "done"]
       /\ attached' = FALSE /\ UNCHANGED <<callVars, sessionVars, trouble, stopRequested>>

\* A task reaches the queue by the hand of the caller that carries it.
HandedOver ==
  \A t \in Tasks : future[t] = "none" /\ future'[t] # "none" =>
    /\ \E c \in Callers : task[c] = t
    /\ UNCHANGED <<at, purpose, session>>

\* Every step of a session respects these three.
LEMMA StepKeeps ==
  ASSUME WorkerInv, SessionTypeOK, HeldInv, [SessionNext]_allVars
  PROVE  Kept /\ Attachment /\ HandedOver
  <1> TypeOK /\ LifeInv /\ TaskInv /\ PoisonInv /\ StopInv /\ FutureInv /\ IntakeInv
    BY DEF WorkerInv, IInv
  <1> /\ Attach \in Tasks /\ ReadContext \in Tasks /\ Detaches \subseteq Tasks
      /\ BoundedCalls \subseteq Tasks /\ Attach \notin Detaches
    BY GatewaySessionAssumption
  <1>1. ASSUME UNCHANGED <<vars, attached>>
        PROVE  Kept /\ Attachment /\ HandedOver
    BY <1>1 DEF Kept, Attachment, HandedOver, vars, workerVars, threadVars, callVars
  <1>2. ASSUME NEW c \in Callers, NEW t \in Tasks, CallWorker(c, t), UNCHANGED attached
        PROVE  Kept /\ Attachment /\ HandedOver
    <2>1. CallEffect(c, t)
      BY <1>2, CallHasEffect
    <2> QED
      BY <1>2, <2>1 DEF TypeOK, Kept, Attachment, HandedOver, CallEffect, Fresh, Shut
  <1>3. ASSUME NEW c \in Callers, CallCloseWorker(c)
        PROVE  Kept /\ Attachment /\ HandedOver
    <2>1. pc[c] = "idle"
      BY <1>3 DEF CallCloseWorker, SessionTypeOK, Back
    <2>2. CloseEffect(c) /\ UNCHANGED attached
      BY <1>3, <2>1, CloseHasEffect DEF CallCloseWorker
    <2> QED
      BY <2>2 DEF TypeOK, Kept, Attachment, HandedOver, CloseEffect, Shut
  <1>4. ASSUME NEW c \in Callers, CallerInWorker(c)
        PROVE  Kept /\ Attachment /\ HandedOver
    <2>1. CallerContinues(c) /\ UNCHANGED <<sessionVars, attached>>
      BY <1>4 DEF CallerInWorker
    <2>2. pc[c] # "idle"
      BY <2>1 DEF CallerContinues, SeeReady, AfterReady, StartTimesOut, CancelStartup,
         RequestStop, PutStop, FailStart, Submit, GetResult, CallTimesOut, CheckDone,
         Cancel, Poison, Joined, JoinTimesOut, FinishClose
    <2>3. CallerEffect(c)
      BY <2>1, <2>2, HeldCarries, CallerHasEffect
    <2>4. /\ startupCancelled => startupCancelled'
          /\ stopRequested => stopRequested'
          /\ state \in Shut => state' \in Shut
          /\ state = "CLOSED" => state' = "CLOSED"
          /\ began \subseteq began'
      BY <2>3 DEF CallerEffect, Shut
    <2>5. /\ \A t \in Tasks :
               /\ outcome[t] # "none" => outcome'[t] = outcome[t]
               /\ future'[t] \in {"none", "done", "failed"} => future'[t] = future[t]
               /\ future[t] = "done" => future'[t] = "done"
          /\ HandedOver
      <3>1. CASE InClose(c)
        BY <3>1 DEF InClose, HandedOver
      <3>2. CASE OnInCall(c)
        <4>1. future[task[c]] = "none" \/ UNCHANGED future
          BY <3>2 DEF OnInCall, TaskInv, BeforeSubmit
        <4>2. \A t \in Tasks : t # task[c] => future'[t] = future[t]
          BY <3>2 DEF OnInCall, TypeOK
        <4>3. UNCHANGED future \/ future'[task[c]] = "pending"
          BY <3>2 DEF OnInCall, TypeOK
        <4> QED
          BY <3>2, <4>1, <4>2, <4>3, <2>1 DEF OnInCall, HandedOver, sessionVars
      <3>3. CASE LeavesCall(c)
        <4>1. outcome[task[c]] = "none"
          BY <3>3 DEF LeavesCall, FutureInv
        <4>2. \/ UNCHANGED future
              \/ /\ future[task[c]] = "pending"
                 /\ future' = [future EXCEPT ![task[c]] = "cancelled"]
          BY <3>3 DEF LeavesCall, EndsWith
        <4> QED
          BY <3>3, <4>1, <4>2 DEF LeavesCall, TypeOK, HandedOver
      <3> QED
        BY <2>3, <3>1, <3>2, <3>3 DEF CallerEffect
    <2> QED
      BY <2>1, <2>4, <2>5 DEF Kept, Attachment
  <1>5. CASE WorkerThread
    <2>1. ThreadEffect /\ UNCHANGED <<callVars, sessionVars, trouble, stopRequested, startupCancelled>>
      BY <1>5, ThreadHasEffect DEF WorkerThread, ThreadEffect
    <2>2. CASE thread # "run"
      <3>1. UNCHANGED attached
        BY <1>5, <2>2 DEF WorkerThread
      <3> QED
        BY <2>1, <2>2, <3>1 DEF ThreadEffect, Kept, Attachment, HandedOver, TypeOK, callVars
    <2>3. CASE thread = "run"
      <3>1. PICK r \in {"done", "failed"} :
              /\ stack[1] \in began /\ future[stack[1]] = "running"
              /\ future' = [future EXCEPT ![stack[1]] = r]
        BY <2>1, <2>3 DEF ThreadEffect
      <3>2. stack[1] \in Tasks /\ future'[stack[1]] = r
        BY <3>1 DEF TypeOK
      <3>3. TaskEffect(stack[1], r)
        BY <1>5, <2>3, <3>2 DEF WorkerThread
      <3>4. Attachment
        <4>1. CASE stack[1] = Attach /\ r = "done"
          BY <2>1, <3>1, <3>3, <4>1, GatewaySessionAssumption DEF TaskEffect, Attachment
        <4>2. CASE stack[1] \in Detaches /\ r = "done"
          BY <2>1, <3>1, <3>3, <4>2, GatewaySessionAssumption DEF TaskEffect, Attachment
        <4>3. CASE ~(stack[1] \in Detaches \cup {Attach} /\ r = "done")
          BY <3>1, <3>3, <4>3 DEF TaskEffect, Attachment, TypeOK
        <4> QED
          BY <4>1, <4>2, <4>3
      <3>5. Kept /\ HandedOver
        BY <2>1, <3>1 DEF ThreadEffect, Kept, HandedOver, TypeOK, callVars
      <3> QED
        BY <3>4, <3>5
    <2> QED
      BY <2>2, <2>3
  <1>6. CASE UNCHANGED allVars
    BY <1>1, <1>6 DEF allVars
  <1>7. ASSUME NEW c \in Callers,
               \/ BeginStart(c) \/ StartFails(c) \/ BecomeReady(c) \/ BeginClose(c)
               \/ FindAttached(c) \/ Settle(c) \/ CloseAgain(c) \/ BeginBounded(c) \/ EndBounded(c)
        PROVE  UNCHANGED <<vars, attached>>
    BY <1>7 DEF BeginStart, StartFails, BecomeReady, BeginClose, FindAttached, Settle,
       CloseAgain, BeginBounded, EndBounded, allVars
  <1>8. ASSUME NEW c \in Callers,
               CallAttach(c) \/ CallReadContext(c) \/ CallDetach(c) \/ CallBounded(c)
        PROVE  \E t \in Tasks : CallWorker(c, t) /\ UNCHANGED attached
    BY <1>8 DEF CallAttach, CallReadContext, CallDetach, CallBounded
  <1> QED
    BY <1>1, <1>2, <1>3, <1>4, <1>5, <1>6, <1>7, <1>8 DEF SessionNext

\* A deadline that was missed stays missed.
LEMMA MissedStays ==
  Kept /\ NoDeadlineMissed' => NoDeadlineMissed
  <1> SUFFICES ASSUME Kept, NoDeadlineMissed' PROVE NoDeadlineMissed
    OBVIOUS
  <1>1. ~startupCancelled
    BY DEF Kept, NoDeadlineMissed
  <1>2. ASSUME NEW t \in Tasks
        PROVE  outcome[t] \notin {"start_timeout", "timeout_cancelled", "timeout_running"}
    BY DEF Kept, NoDeadlineMissed
  <1> QED
    BY <1>1, <1>2 DEF NoDeadlineMissed

--------------------------------------------------------------------------------
(* Who starts and who cleans up, when nobody closes a session being started. *)

\* The actions of a session that leave its worker alone.
Local(c) ==
  \/ BeginStart(c) \/ StartFails(c) \/ BecomeReady(c) \/ BeginClose(c)
  \/ FindAttached(c) \/ Settle(c) \/ BeginBounded(c) \/ EndBounded(c)

\* Every step keeps RoleInv: a start has one caller, and a close none.
LEMMA RoleStep ==
  ASSUME SessionTypeOK, RoleInv, ~ConcurrentClose, [SessionNext]_allVars
  PROVE  RoleInv'
  <1> USE DEF SessionTypeOK, RoleInv, Starter, Starting, Cleaning, At
  <1>1. CASE UNCHANGED allVars
    BY <1>1 DEF allVars, sessionVars
  <1>2. CASE WorkerThread
    BY <1>2 DEF WorkerThread, sessionVars
  <1>3. ASSUME NEW c \in Callers, BeginStart(c) PROVE RoleInv'
    BY <1>3 DEF BeginStart
  <1>4. ASSUME NEW c \in Callers, CallAttach(c) \/ CallReadContext(c) PROVE RoleInv'
    BY <1>4 DEF CallAttach, CallReadContext
  <1>5. ASSUME NEW c \in Callers, StartFails(c) PROVE RoleInv'
    BY <1>5 DEF StartFails
  <1>6. ASSUME NEW c \in Callers, BecomeReady(c) PROVE RoleInv'
    BY <1>6 DEF BecomeReady
  <1>7. ASSUME NEW c \in Callers, BeginClose(c) PROVE RoleInv'
    BY <1>7 DEF BeginClose
  <1>8. ASSUME NEW c \in Callers, FindAttached(c) \/ CallDetach(c) \/ CallCloseWorker(c) PROVE RoleInv'
    BY <1>8 DEF FindAttached, CallDetach, CallCloseWorker
  <1>9. ASSUME NEW c \in Callers, Settle(c) PROVE RoleInv'
    BY <1>9 DEF Settle
  <1>10. ASSUME NEW c \in Callers, BeginBounded(c) \/ CallBounded(c) \/ EndBounded(c) PROVE RoleInv'
    BY <1>10 DEF BeginBounded, CallBounded, EndBounded
  <1>11. ASSUME NEW c \in Callers, CloseAgain(c) \/ CallerInWorker(c) PROVE RoleInv'
    BY <1>11 DEF CloseAgain, CallerInWorker, allVars, sessionVars
  <1> QED
    BY <1>1, <1>2, <1>3, <1>4, <1>5, <1>6, <1>7, <1>8, <1>9, <1>10, <1>11 DEF SessionNext

\* While a task of the attach or of a detach is carried, its caller stands there.
LEMMA Carriers ==
  ASSUME HeldInv, NEW c \in Callers
  PROVE  /\ task[c] = Attach => at[c] = "attach"
         /\ task[c] \in Detaches => at[c] = "detach"
  <1> Attach \in Tasks /\ Detaches \subseteq Tasks
    BY GatewaySessionAssumption
  <1> QED
    BY HeldCarries, GatewaySessionAssumption DEF Serves

\* An attach that runs in time is waited for by the caller that starts the session.
LEMMA AttachIsAwaited ==
  ASSUME FutureInv, HeldInv, RoleInv, NoDeadlineMissed, future[Attach] = "running"
  PROVE  session = "STARTING" /\ \E c \in Callers : at[c] = "attach"
  <1>1. Attach \in Tasks
    BY GatewaySessionAssumption
  <1>2. PICK c \in Callers : task[c] = Attach
    BY <1>1 DEF FutureInv, NoDeadlineMissed, Missed
  <1>3. at[c] = "attach"
    BY <1>2, Carriers
  <1> QED
    BY <1>3 DEF RoleInv, Starter, Starting

\* Where a step may bring the session and its callers once a detach was made.
LEMMA AfterDetach ==
  ASSUME SessionTypeOK, [SessionNext]_allVars, session \notin {"NEW", "READY"},
         \A c \in Callers : ~Starting(c)
  PROVE  session' \notin {"NEW", "READY"} /\ \A c \in Callers : ~Starting(c)'
  <1> USE DEF SessionTypeOK, Starting, At
  <1>1. CASE UNCHANGED allVars \/ WorkerThread
    BY <1>1 DEF WorkerThread, allVars, sessionVars
  <1>2. ASSUME NEW c \in Callers, Local(c)
        PROVE  session' \notin {"NEW", "READY"} /\ \A d \in Callers : ~Starting(d)'
    BY <1>2 DEF Local, BeginStart, StartFails, BecomeReady, BeginClose, FindAttached, Settle,
       BeginBounded, EndBounded
  <1>3. ASSUME NEW c \in Callers,
               \/ CallAttach(c) \/ CallReadContext(c) \/ CallDetach(c)
               \/ CallCloseWorker(c) \/ CallBounded(c)
        PROVE  session' \notin {"NEW", "READY"} /\ \A d \in Callers : ~Starting(d)'
    BY <1>3 DEF CallAttach, CallReadContext, CallDetach, CallCloseWorker, CallBounded
  <1>4. ASSUME NEW c \in Callers, CloseAgain(c) \/ CallerInWorker(c)
        PROVE  session' \notin {"NEW", "READY"} /\ \A d \in Callers : ~Starting(d)'
    BY <1>4 DEF CloseAgain, CallerInWorker, allVars, sessionVars
  <1> QED
    BY <1>1, <1>2, <1>3, <1>4 DEF SessionNext, Local

\* Every step keeps DetachInv: a detach belongs to a clean-up, and no attach follows.
LEMMA DetachStep ==
  ASSUME WorkerInv, SessionTypeOK, HeldInv, RoleInv, DetachInv, [SessionNext]_allVars
  PROVE  DetachInv'
  <1> Attach \in Tasks /\ Detaches \subseteq Tasks /\ Attach \notin Detaches /\ TypeOK
    BY GatewaySessionAssumption DEF WorkerInv, IInv
  <1>1. Kept /\ Attachment /\ HandedOver
    BY StepKeeps
  <1>2. \A t \in Detaches : future'[t] # "failed"
    BY <1>1 DEF Attachment, DetachInv, TypeOK
  <1>3. ASSUME NEW t \in Detaches, future'[t] # "none"
        PROVE  session' \notin {"NEW", "READY"} /\ \A c \in Callers : ~Starting(c)'
    <2>1. CASE future[t] # "none"
      <3>1. session \notin {"NEW", "READY"} /\ \A c \in Callers : ~Starting(c)
        BY <2>1 DEF DetachInv
      <3> QED
        BY <3>1, AfterDetach
    <2>2. CASE future[t] = "none"
      <3>1. /\ \E c \in Callers : task[c] = t
            /\ UNCHANGED <<at, purpose, session>>
        BY <1>1, <1>3, <2>2 DEF HandedOver
      <3>2. PICK c \in Callers : at[c] = "detach"
        BY <3>1, Carriers
      <3>3. Cleaning(c) /\ ~Starting(c) /\ purpose[c] \in {"start", "close"}
        BY <3>2 DEF Cleaning, Starting, SessionTypeOK
      <3>4. session \notin {"NEW", "READY"}
        BY <3>3 DEF RoleInv, Starter
      <3>5. \A d \in Callers : ~Starting(d)
        BY <3>3 DEF RoleInv, Starter
      <3> QED
        BY <3>1, <3>4, <3>5 DEF Starting
    <2> QED
      BY <2>1, <2>2
  <1> QED
    BY <1>2, <1>3 DEF DetachInv

--------------------------------------------------------------------------------
(* What the connection holds, and how the worker is left.                  *)

\* How the steps of a start follow one another.
LEMMA StartOrder ==
  ASSUME SessionTypeOK, [SessionNext]_allVars
  PROVE  /\ \A c \in Callers : at'[c] = "context" => at[c] = "context" \/ outcome[Attach] = "returned"
         /\ session' = "READY" => session = "READY" \/ \E c \in Callers : at[c] = "context"
         /\ session' = "NEW" => session = "NEW"
         /\ session' = "FAILED" => session = "FAILED" \/ \E c \in Callers :
              at[c] = "close_worker" /\ pc[c] = "idle" /\ purpose[c] = "start" /\ UNCHANGED <<state, attached>>
         /\ closedClean' => closedClean \/ \E c \in Callers :
              at[c] = "close_worker" /\ pc[c] = "idle" /\ ~trouble[c] /\ UNCHANGED <<state, attached>>
  <1> DEFINE P == /\ \A c \in Callers : at'[c] = "context" => at[c] = "context" \/ outcome[Attach] = "returned"
                  /\ session' = "READY" => session = "READY" \/ \E c \in Callers : at[c] = "context"
                  /\ session' = "NEW" => session = "NEW"
                  /\ session' = "FAILED" => session = "FAILED" \/ \E c \in Callers :
                       at[c] = "close_worker" /\ pc[c] = "idle" /\ purpose[c] = "start" /\ UNCHANGED <<state, attached>>
                  /\ closedClean' => closedClean \/ \E c \in Callers :
                       at[c] = "close_worker" /\ pc[c] = "idle" /\ ~trouble[c] /\ UNCHANGED <<state, attached>>
  <1> USE DEF SessionTypeOK, At
  <1>1. CASE UNCHANGED allVars \/ WorkerThread
    BY <1>1 DEF WorkerThread, allVars, sessionVars
  <1>2. ASSUME NEW c \in Callers, Settle(c)
        PROVE  P
    BY <1>2 DEF Settle, Back, vars, workerVars
  <1>3. ASSUME NEW c \in Callers, Local(c), ~Settle(c)
        PROVE  P
    BY <1>3 DEF Local, BeginStart, StartFails, BecomeReady, BeginClose, FindAttached,
       BeginBounded, EndBounded
  <1>4. ASSUME NEW c \in Callers,
               \/ CallAttach(c) \/ CallReadContext(c) \/ CallDetach(c)
               \/ CallCloseWorker(c) \/ CallBounded(c)
        PROVE  P
    BY <1>4 DEF CallAttach, CallReadContext, CallDetach, CallCloseWorker, CallBounded, Gave
  <1>5. ASSUME NEW c \in Callers, CloseAgain(c) \/ CallerInWorker(c)
        PROVE  P
    BY <1>5 DEF CloseAgain, CallerInWorker, allVars, sessionVars
  <1> QED
    BY <1>1, <1>2, <1>3, <1>4, <1>5 DEF SessionNext, Local

\* Every step keeps AttachInv.
LEMMA AttachStep ==
  ASSUME WorkerInv, SessionTypeOK, HeldInv, RoleInv, DetachInv, AttachInv, [SessionNext]_allVars
  PROVE  AttachInv'
  <1> /\ Attach \in Tasks /\ Detaches \subseteq Tasks /\ Attach \notin Detaches
      /\ TypeOK /\ FutureInv
    BY GatewaySessionAssumption DEF WorkerInv, IInv
  <1>1. Kept /\ Attachment
    BY StepKeeps
  <1>2. \A c \in Callers : at'[c] = "context" => outcome'[Attach] = "returned"
    BY <1>1, StartOrder DEF AttachInv, Kept
  <1>3. session' = "READY" => future'[Attach] = "done"
    <2>1. (\E c \in Callers : at[c] = "context") => future[Attach] = "done"
      BY DEF AttachInv, FutureInv
    <2> QED
      BY <2>1, <1>1, StartOrder DEF AttachInv, Kept
  <1>4. attached' => Attach \in began'
    BY <1>1 DEF Attachment, AttachInv, Kept, TypeOK
  <1>5. future'[Attach] = "done" /\ (\A t \in Detaches : future'[t] = "none") => attached'
    BY <1>1 DEF Attachment, AttachInv, Kept, TypeOK
  <1>6. NoDeadlineMissed' /\ (\E t \in Detaches : future'[t] = "done") => ~attached'
    <2> SUFFICES ASSUME NoDeadlineMissed', NEW t \in Detaches, future'[t] = "done"
                 PROVE  ~attached'
      OBVIOUS
    <2>1. NoDeadlineMissed
      BY <1>1, MissedStays
    <2>2. CASE /\ UNCHANGED attached
               /\ \A u \in Detaches \cup {Attach} : future'[u] = "done" => future[u] = "done"
      BY <2>1, <2>2 DEF AttachInv
    <2>3. CASE /\ future[Attach] = "running"
               /\ future' = [future EXCEPT ![Attach] = "done"]
      <3>1. future[t] = "done"
        BY <2>3 DEF TypeOK
      <3>2. \A c \in Callers : ~Starting(c)
        BY <3>1 DEF DetachInv
      <3>3. \E c \in Callers : at[c] = "attach"
        BY <2>1, <2>3, AttachIsAwaited
      <3> QED
        BY <3>2, <3>3 DEF Starting
    <2>4. CASE attached' = FALSE
      BY <2>4
    <2> QED
      BY <1>1, <2>2, <2>3, <2>4 DEF Attachment
  <1> QED
    BY <1>2, <1>3, <1>4, <1>5, <1>6 DEF AttachInv

\* How a caller comes to, and goes on in, the last two steps of a clean-up.
LEMMA CleanOrder ==
  ASSUME WorkerInv, SessionTypeOK, HeldInv, [SessionNext]_allVars,
         NEW c \in Callers, at'[c] \in {"detach", "close_worker"}
  PROVE  /\ purpose'[c] = purpose[c]
         /\ \/ at[c] = at'[c] /\ (trouble[c] => trouble'[c]) /\ pc'[c] = pc[c]
            \/ at[c] = at'[c] /\ (trouble[c] => trouble'[c]) /\ CallerInWorker(c)
            \/ at'[c] = "detach" /\ CallDetach(c)
            \/ at'[c] = "close_worker" /\ CallCloseWorker(c)
  <1> DEFINE P == /\ purpose'[c] = purpose[c]
                  /\ \/ at[c] = at'[c] /\ (trouble[c] => trouble'[c]) /\ pc'[c] = pc[c]
                     \/ at[c] = at'[c] /\ (trouble[c] => trouble'[c]) /\ CallerInWorker(c)
                     \/ at'[c] = "detach" /\ CallDetach(c)
                     \/ at'[c] = "close_worker" /\ CallCloseWorker(c)
  <1> TypeOK /\ LifeInv /\ TaskInv /\ StopInv /\ FutureInv /\ IntakeInv
    BY DEF WorkerInv, IInv
  <1> /\ Attach \in Tasks /\ ReadContext \in Tasks /\ Detaches \subseteq Tasks
      /\ BoundedCalls \subseteq Tasks
    BY GatewaySessionAssumption
  <1>1. CASE UNCHANGED allVars
    BY <1>1 DEF allVars, sessionVars, vars, callVars
  <1>2. CASE WorkerThread
    BY <1>2, ThreadHasEffect DEF WorkerThread, ThreadEffect, sessionVars, callVars
  <1>3. ASSUME NEW d \in Callers, Local(d)
        PROVE  P
    <2>1. UNCHANGED pc
      BY <1>3 DEF Local, BeginStart, StartFails, BecomeReady, BeginClose, FindAttached, Settle,
         BeginBounded, EndBounded, vars, callVars
    <2>2. at'[d] \notin {"detach", "close_worker"} /\ \E step \in SessionStep : At(d, step)
      BY <1>3 DEF Local, BeginStart, StartFails, BecomeReady, BeginClose, FindAttached, Settle,
         BeginBounded, EndBounded, At, SessionTypeOK, SessionStep
    <2>3. c # d /\ at'[c] = at[c]
      BY <2>2 DEF At, SessionTypeOK
    <2>4. purpose'[c] = purpose[c] /\ trouble'[c] = trouble[c]
      BY <1>3, <2>3 DEF Local, BeginStart, StartFails, BecomeReady, BeginClose, FindAttached,
         Settle, BeginBounded, EndBounded, SessionTypeOK
    <2> QED
      BY <2>1, <2>3, <2>4
  <1>4. ASSUME NEW d \in Callers, d # c, NEW t \in Tasks, CallWorker(d, t)
        PROVE  pc'[c] = pc[c]
    BY <1>4, CallHasEffect DEF CallEffect, TypeOK
  <1>5. ASSUME NEW d \in Callers,
               CallAttach(d) \/ CallReadContext(d) \/ CallDetach(d) \/ CallBounded(d)
        PROVE  P
    <2>1. CASE d = c
      BY <1>5, <2>1 DEF CallAttach, CallReadContext, CallDetach, CallBounded, At, SessionTypeOK
    <2>2. CASE d # c
      <3>1. pc'[c] = pc[c]
        BY <1>4, <1>5, <2>2 DEF CallAttach, CallReadContext, CallDetach, CallBounded
      <3>2. at'[c] = at[c] /\ purpose'[c] = purpose[c] /\ trouble'[c] = trouble[c]
        BY <1>5, <2>2 DEF CallAttach, CallReadContext, CallDetach, CallBounded, At, SessionTypeOK
      <3> QED
        BY <3>1, <3>2
    <2> QED
      BY <2>1, <2>2
  <1>6. ASSUME NEW d \in Callers, CallCloseWorker(d)
        PROVE  P
    <2>1. CASE d = c
      BY <1>6, <2>1 DEF CallCloseWorker, At, SessionTypeOK
    <2>2. CASE d # c
      <3>1. CloseEffect(d)
        BY <1>6, CloseHasEffect DEF CallCloseWorker, SessionTypeOK, Back
      <3> QED
        BY <1>6, <2>2, <3>1 DEF CallCloseWorker, At, SessionTypeOK, CloseEffect, TypeOK
    <2> QED
      BY <2>1, <2>2
  <1>7. ASSUME NEW d \in Callers, CallerInWorker(d)
        PROVE  P
    <2>1. UNCHANGED <<at, purpose>> /\ (trouble[c] => trouble'[c])
      BY <1>7 DEF CallerInWorker, sessionVars, SessionTypeOK
    <2>2. CASE d # c
      <3>1. CallerContinues(d)
        BY <1>7 DEF CallerInWorker
      <3>2. pc'[c] = pc[c]
        BY <2>2, <3>1 DEF CallerContinues, SeeReady, AfterReady, StartTimesOut, CancelStartup,
           RequestStop, PutStop, FailStart, Submit, GetResult, CallTimesOut, CheckDone, Cancel,
           Poison, Joined, JoinTimesOut, FinishClose, Goto, Leave, Proceed, TypeOK
      <3> QED
        BY <2>1, <3>2
    <2> QED
      BY <1>7, <2>1, <2>2
  <1>8. ASSUME NEW d \in Callers, CloseAgain(d)
        PROVE  P
    BY <1>1, <1>8 DEF CloseAgain
  <1> QED
    BY <1>1, <1>2, <1>3, <1>5, <1>6, <1>7, <1>8 DEF SessionNext, Local

\* A step of a caller inside the worker, seen from the session.
LEMMA InWorkerEffect ==
  ASSUME WorkerInv, HeldInv, NEW c \in Callers, CallerInWorker(c)
  PROVE  CallerEffect(c) /\ UNCHANGED <<sessionVars, attached>>
  <1> TypeOK /\ LifeInv /\ TaskInv /\ StopInv
    BY DEF WorkerInv, IInv
  <1>1. CallerContinues(c) /\ UNCHANGED <<sessionVars, attached>>
    BY DEF CallerInWorker
  <1>2. pc[c] # "idle"
    BY <1>1 DEF CallerContinues, SeeReady, AfterReady, StartTimesOut, CancelStartup,
       RequestStop, PutStop, FailStart, Submit, GetResult, CallTimesOut, CheckDone,
       Cancel, Poison, Joined, JoinTimesOut, FinishClose
  <1> QED
    BY <1>1, <1>2, HeldCarries, CallerHasEffect

\* Every step keeps CloseInv: the clean-up of a caller ends with a worker that
\* serves nobody, and with a closed one when nothing failed.
LEMMA CloseStep ==
  ASSUME WorkerInv, SessionTypeOK, HeldInv, CloseInv, [SessionNext]_allVars
  PROVE  CloseInv'
  <1> TypeOK
    BY DEF WorkerInv, IInv
  <1>1. Kept
    BY StepKeeps
  <1>2. ASSUME NEW c \in Callers, at'[c] = "close_worker"
        PROVE  state' \in Shut /\ (pc'[c] = "idle" /\ ~trouble'[c] => state' = "CLOSED")
    <2>1. CASE CallCloseWorker(c)
      <3>1. CloseEffect(c)
        BY <2>1, CloseHasEffect DEF CallCloseWorker, SessionTypeOK, Back
      <3> QED
        BY <3>1 DEF CloseEffect, Shut, TypeOK
    <2>2. CASE at[c] = "close_worker" /\ (trouble[c] => trouble'[c]) /\ pc'[c] = pc[c]
      BY <1>1, <2>2 DEF CloseInv, Kept
    <2>3. CASE at[c] = "close_worker" /\ (trouble[c] => trouble'[c]) /\ CallerInWorker(c)
      <3>1. CallerEffect(c) /\ state' \in Shut
        BY <1>1, <2>3, InWorkerEffect DEF CloseInv, Kept
      <3>2. pc[c] \in {"join", "finish_close"} /\ task[c] \notin Tasks
        BY <2>3, <3>1, StaWorkerAssumption DEF HeldInv, Serves, CallerEffect
      <3>3. InClose(c)
        BY <3>1, <3>2 DEF CallerEffect, OnInCall, LeavesCall
      <3>4. pc[c] = "join" /\ pc'[c] = "idle" => trouble'[c]
        BY <2>3 DEF CallerInWorker, SessionTypeOK
      <3> QED
        BY <3>1, <3>3, <3>4 DEF InClose, TypeOK
    <2> QED
      BY <1>2, <2>1, <2>2, <2>3, CleanOrder
  <1>3. closedClean' => state' = "CLOSED"
    BY <1>1, StartOrder DEF CloseInv, Kept
  <1>4. session' = "FAILED" => state' \in Shut
    BY <1>1, StartOrder DEF CloseInv, Kept
  <1> QED
    BY <1>2, <1>3, <1>4 DEF CloseInv

\* While a failed start cleans up in time, the worker serves its detach.
LEMMA WorkerServes ==
  ASSUME WorkerInv, RoleInv, AttachInv, ReleaseInv, NoDeadlineMissed, SessionTypeOK,
         NEW c \in Callers, at[c] \in {"cleanup", "found", "detach"}, purpose[c] = "start", attached
  PROVE  state = "RUNNING"
  <1>1. session = "STARTING" /\ \A d \in Callers : at[d] # "close_worker"
    BY DEF RoleInv, Starter, Cleaning, SessionTypeOK
  <1>2. ~stopRequested /\ ~startupCancelled
    BY <1>1 DEF ReleaseInv, NoDeadlineMissed
  <1>3. began # {}
    BY DEF AttachInv
  <1>4. thread \in {"loop", "run"}
    BY <1>2, <1>3 DEF WorkerInv, IInv, StopInv, IntakeInv, Left, TypeOK, ThreadStep
  <1> QED
    BY <1>2, <1>4 DEF WorkerInv, IntakeInv

\* A connection that a step attaches belongs to a session that somebody starts.
LEMMA AttachesEarly ==
  ASSUME WorkerInv, SessionTypeOK, HeldInv, RoleInv, NoDeadlineMissed, [SessionNext]_allVars,
         ~attached, attached'
  PROVE  /\ session = "STARTING" /\ UNCHANGED <<session, at, purpose, closedClean>>
         /\ \A c \in Callers : ~Cleaning(c)
  <1>1. future[Attach] = "running" /\ UNCHANGED sessionVars
    BY StepKeeps DEF Attachment
  <1>2. session = "STARTING" /\ \E c \in Callers : at[c] = "attach"
    BY <1>1, AttachIsAwaited DEF WorkerInv
  <1>3. PICK c \in Callers : at[c] = "attach"
    BY <1>2
  <1>4. \A d \in Callers : ~Cleaning(d)
    BY <1>2, <1>3 DEF RoleInv, Starter, Starting, Cleaning, SessionTypeOK
  <1> QED
    BY <1>1, <1>2, <1>4 DEF sessionVars

\* Every step keeps the first part of ReleaseInv: a detach without trouble was made.
LEMMA DetachedStep ==
  ASSUME WorkerInv, SessionTypeOK, HeldInv, DetachInv, ReleaseInv, [SessionNext]_allVars,
         NEW c \in Callers, at'[c] = "detach", pc'[c] = "idle", ~trouble'[c]
  PROVE  \E t \in Detaches : future'[t] = "done"
  <1> TypeOK /\ LifeInv /\ FutureInv /\ Detaches \subseteq Tasks
    BY GatewaySessionAssumption DEF WorkerInv, IInv
  <1>1. Kept
    BY StepKeeps
  <1>2. CASE CallDetach(c)
    <2>1. PICK t \in Detaches :
            /\ CallWorker(c, t)
            /\ trouble' = [trouble EXCEPT ![c] = @ \/ outcome'[t] = "refused"]
      BY <1>2 DEF CallDetach
    <2>2. CallEffect(c, t) /\ t \in Tasks
      BY <2>1, CallHasEffect
    <2>3. outcome'[t] # "refused"
      BY <2>1 DEF SessionTypeOK
    <2>4. pc'[c] \in {"submit", "await_ready"}
      BY <2>2, <2>3 DEF CallEffect, TypeOK
    <2> QED
      BY <2>4
  <1>3. CASE at[c] = "detach" /\ (trouble[c] => trouble'[c]) /\ pc'[c] = pc[c]
    BY <1>1, <1>3 DEF ReleaseInv, Kept
  <1>4. CASE at[c] = "detach" /\ CallerInWorker(c)
    <2>1. CallerEffect(c)
      BY <1>4, InWorkerEffect
    <2>2. task[c] \in Detaches
      BY <1>4, <2>1 DEF HeldInv, Serves, CallerEffect
    <2>3. LeavesCall(c)
      BY <2>1, <2>2, GatewaySessionAssumption, StaWorkerAssumption
      DEF CallerEffect, InClose, OnInCall, TypeOK
    <2>4. PICK r \in Outcome : outcome' = [outcome EXCEPT ![task[c]] = r] /\ EndsWith(c, r)
      BY <2>3 DEF LeavesCall
    <2>5. outcome'[task[c]] = r
      BY <2>2, <2>4 DEF TypeOK
    <2>6. r \in {"none", "returned"}
      BY <1>4, <2>2, <2>5 DEF CallerInWorker, SessionTypeOK
    <2>7. future'[task[c]] = "done"
      BY <2>4, <2>6 DEF EndsWith
    <2> QED
      BY <2>2, <2>7
  <1> QED
    BY <1>2, <1>3, <1>4, CleanOrder

\* Every step keeps the claim that a failed start in time waits for its detach.
LEMMA WaitingStep ==
  ASSUME WorkerInv, SessionTypeOK, HeldInv, RoleInv, DetachInv, AttachInv, ReleaseInv,
         [SessionNext]_allVars, NoDeadlineMissed',
         NEW c \in Callers, at'[c] = "detach", purpose'[c] = "start", attached'
  PROVE  pc'[c] \in InCall
  <1> TypeOK /\ LifeInv /\ FutureInv /\ Detaches \subseteq Tasks
    BY GatewaySessionAssumption DEF WorkerInv, IInv
  <1>1. Kept /\ NoDeadlineMissed /\ purpose[c] = "start"
    BY StepKeeps, MissedStays, CleanOrder
  <1>2. attached
    <2> SUFFICES ASSUME ~attached PROVE FALSE
      OBVIOUS
    <2>1. ~Cleaning(c) /\ at[c] = "detach"
      BY <1>1, AttachesEarly
    <2> QED
      BY <2>1 DEF Cleaning
  <1>3. CASE CallDetach(c)
    <2>1. PICK t \in Detaches : CallWorker(c, t)
      BY <1>3 DEF CallDetach
    <2>2. CallEffect(c, t)
      BY <2>1, CallHasEffect
    <2>3. state = "RUNNING"
      BY <1>1, <1>2, <1>3, WorkerServes DEF CallDetach
    <2> QED
      BY <2>2, <2>3 DEF CallEffect, Shut, InCall, TypeOK
  <1>4. CASE at[c] = "detach" /\ pc'[c] = pc[c]
    BY <1>1, <1>2, <1>4 DEF ReleaseInv
  <1>5. CASE at[c] = "detach" /\ CallerInWorker(c)
    <2>1. CallerEffect(c) /\ pc[c] \in InCall
      BY <1>1, <1>2, <1>5, InWorkerEffect DEF ReleaseInv
    <2>2. task[c] \in Detaches
      BY <1>5, <2>1 DEF HeldInv, Serves, CallerEffect
    <2>3. CASE OnInCall(c)
      BY <2>1, <2>3 DEF OnInCall, TypeOK
    <2>4. CASE LeavesCall(c)
      <3>1. PICK r \in Outcome : outcome' = [outcome EXCEPT ![task[c]] = r] /\ EndsWith(c, r)
        BY <2>4 DEF LeavesCall
      <3>2. outcome'[task[c]] = r
        BY <2>2, <3>1 DEF TypeOK
      <3>3. r \notin {"start_timeout", "timeout_cancelled", "timeout_running"}
        BY <2>2, <3>2 DEF NoDeadlineMissed
      <3>4. state = "RUNNING"
        BY <1>1, <1>2, <1>5, WorkerServes
      <3>5. future[task[c]] \in {"done", "failed"}
        BY <2>1, <3>1, <3>3, <3>4 DEF EndsWith
      <3>6. future[task[c]] = "done"
        BY <2>2, <3>5 DEF DetachInv
      <3>7. ~attached
        BY <1>1, <2>2, <3>6 DEF AttachInv
      <3> QED
        BY <1>2, <3>7
    <2>5. ~InClose(c)
      BY <2>2, GatewaySessionAssumption, StaWorkerAssumption DEF InClose
    <2> QED
      BY <2>1, <2>3, <2>4, <2>5 DEF CallerEffect
  <1> QED
    BY <1>3, <1>4, <1>5, CleanOrder

\* Every step keeps the claim that a clean-up in time closes the worker detached.
LEMMA ReleasedStep ==
  ASSUME WorkerInv, SessionTypeOK, HeldInv, RoleInv, DetachInv, AttachInv, ReleaseInv,
         [SessionNext]_allVars, NoDeadlineMissed',
         NEW c \in Callers, at'[c] = "close_worker", ~trouble'[c] \/ purpose'[c] = "start"
  PROVE  ~attached'
  <1> Detaches \subseteq Tasks
    BY GatewaySessionAssumption
  <1>1. Kept /\ NoDeadlineMissed /\ purpose'[c] = purpose[c]
    BY StepKeeps, MissedStays, CleanOrder
  <1>2. CASE CallCloseWorker(c)
    <2>1. UNCHANGED <<attached, trouble>>
      BY <1>2 DEF CallCloseWorker
    <2>2. CASE ~attached
      BY <2>1, <2>2
    <2>3. CASE at[c] = "detach" /\ pc[c] = "idle" /\ ~trouble[c]
      <3>1. \E t \in Detaches : future[t] = "done"
        BY <2>3 DEF ReleaseInv
      <3> QED
        BY <1>1, <2>1, <3>1 DEF AttachInv
    <2>4. CASE at[c] = "detach" /\ pc[c] = "idle" /\ purpose[c] = "start"
      BY <1>1, <2>1, <2>4 DEF ReleaseInv, InCall
    <2> QED
      BY <1>1, <1>2, <2>1, <2>2, <2>3, <2>4 DEF CallCloseWorker, Back
  <1>3. CASE at[c] = "close_worker" /\ (trouble[c] => trouble'[c])
    <2>1. ~attached
      BY <1>1, <1>3 DEF ReleaseInv
    <2>2. Cleaning(c)
      BY <1>3 DEF Cleaning
    <2> QED
      BY <1>1, <2>1, <2>2, AttachesEarly
  <1> QED
    BY <1>2, <1>3, CleanOrder

\* Nobody has closed the worker of a session that is new, ready or being started.
Unclosed == \/ session \in {"NEW", "READY"}
            \/ session = "STARTING" /\ \A c \in Callers : at[c] # "close_worker"

\* No step leads back to a worker that nobody closed.
LEMMA UnclosedBefore ==
  ASSUME SessionTypeOK, RoleInv, [SessionNext]_allVars, Unclosed'
  PROVE  Unclosed
  <1> USE DEF SessionTypeOK, Unclosed, At
  <1>1. CASE UNCHANGED allVars \/ WorkerThread
    BY <1>1 DEF WorkerThread, allVars, sessionVars
  <1>2. ASSUME NEW c \in Callers, BecomeReady(c)
        PROVE  Unclosed
    <2>1. session = "STARTING" /\ \A d \in Callers : at[d] # "close_worker"
      BY <1>2 DEF BecomeReady, RoleInv, Starter, Starting, Cleaning
    <2> QED
      BY <2>1
  <1>3. ASSUME NEW c \in Callers, Local(c), ~BecomeReady(c)
        PROVE  Unclosed
    BY <1>3 DEF Local, BeginStart, StartFails, BeginClose, FindAttached, Settle,
       BeginBounded, EndBounded
  <1>4. ASSUME NEW c \in Callers,
               \/ CallAttach(c) \/ CallReadContext(c) \/ CallDetach(c)
               \/ CallCloseWorker(c) \/ CallBounded(c)
        PROVE  Unclosed
    BY <1>4 DEF CallAttach, CallReadContext, CallDetach, CallCloseWorker, CallBounded
  <1>5. ASSUME NEW c \in Callers, CloseAgain(c) \/ CallerInWorker(c)
        PROVE  Unclosed
    BY <1>5 DEF CloseAgain, CallerInWorker, allVars, sessionVars
  <1> QED
    BY <1>1, <1>2, <1>3, <1>4, <1>5 DEF SessionNext, Local

\* Every step keeps the claim that such a worker was not told to stop.
LEMMA UnstoppedStep ==
  ASSUME WorkerInv, SessionTypeOK, HeldInv, RoleInv, RoleInv', ReleaseInv,
         [SessionNext]_allVars, NoDeadlineMissed', Unclosed'
  PROVE  ~stopRequested'
  <1> /\ TypeOK /\ LifeInv /\ TaskInv /\ FutureInv /\ IntakeInv
      /\ Attach \in Tasks /\ ReadContext \in Tasks /\ Detaches \subseteq Tasks
      /\ BoundedCalls \subseteq Tasks
    BY GatewaySessionAssumption DEF WorkerInv, IInv
  <1>1. ~stopRequested
    BY StepKeeps, MissedStays, UnclosedBefore DEF ReleaseInv, Unclosed
  <1>2. CASE UNCHANGED allVars
    BY <1>1, <1>2 DEF allVars, vars, workerVars
  <1>3. CASE WorkerThread
    BY <1>1, <1>3, ThreadHasEffect DEF WorkerThread, ThreadEffect
  <1>4. ASSUME NEW c \in Callers, Local(c)
        PROVE  ~stopRequested'
    BY <1>1, <1>4 DEF Local, BeginStart, StartFails, BecomeReady, BeginClose, FindAttached,
       Settle, BeginBounded, EndBounded, vars, workerVars
  <1>5. ASSUME NEW c \in Callers, NEW t \in Tasks, CallWorker(c, t)
        PROVE  ~stopRequested'
    BY <1>1, <1>5, CallHasEffect DEF CallEffect
  <1>6. ASSUME NEW c \in Callers,
               CallAttach(c) \/ CallReadContext(c) \/ CallDetach(c) \/ CallBounded(c)
        PROVE  ~stopRequested'
    BY <1>5, <1>6 DEF CallAttach, CallReadContext, CallDetach, CallBounded
  <1>7. ASSUME NEW c \in Callers, CallCloseWorker(c)
        PROVE  ~stopRequested'
    <2>1. at'[c] = "close_worker" /\ purpose' = purpose /\ purpose[c] \in {"start", "close"}
      BY <1>7 DEF CallCloseWorker, At, SessionTypeOK
    <2>2. ~Unclosed'
      BY <2>1 DEF Unclosed, RoleInv, Starter, Cleaning
    <2> QED
      BY <2>2
  <1>8. ASSUME NEW c \in Callers, CallerInWorker(c)
        PROVE  ~stopRequested'
    <2>1. CallerEffect(c)
      BY <1>8, InWorkerEffect
    <2>2. ~startupCancelled
      BY StepKeeps, MissedStays DEF NoDeadlineMissed
    <2> QED
      BY <1>1, <2>1, <2>2 DEF CallerEffect, NoDeadlineMissed
  <1>9. ASSUME NEW c \in Callers, CloseAgain(c)
        PROVE  ~stopRequested'
    BY <1>2, <1>9 DEF CloseAgain
  <1> QED
    BY <1>2, <1>3, <1>4, <1>6, <1>7, <1>8, <1>9 DEF SessionNext, Local

\* Every step keeps ReleaseInv.
LEMMA ReleaseStep ==
  ASSUME WorkerInv, SessionTypeOK, HeldInv, RoleInv, RoleInv', DetachInv, AttachInv,
         ReleaseInv, [SessionNext]_allVars
  PROVE  ReleaseInv'
  <1>1. \A c \in Callers : at'[c] = "detach" /\ pc'[c] = "idle" /\ ~trouble'[c] =>
          \E t \in Detaches : future'[t] = "done"
    BY DetachedStep
  <1>2. ASSUME NoDeadlineMissed'
        PROVE  /\ session' = "FAILED" => ~attached'
               /\ closedClean' => ~attached'
    <2>1. NoDeadlineMissed
      BY <1>2, StepKeeps, MissedStays
    <2>2. CASE ~attached /\ attached'
      <3>1. session = "STARTING" /\ UNCHANGED <<session, closedClean>>
        BY <2>1, <2>2, AttachesEarly
      <3> QED
        BY <3>1 DEF RoleInv
    <2>3. CASE attached /\ attached'
      <3>1. session # "FAILED" /\ ~closedClean
        BY <2>1, <2>3 DEF ReleaseInv
      <3>2. \A c \in Callers : at[c] = "close_worker" /\ pc[c] = "idle" =>
              trouble[c] /\ purpose[c] # "start"
        BY <2>1, <2>3 DEF ReleaseInv
      <3> QED
        BY <3>1, <3>2, StartOrder
    <2> QED
      BY <2>2, <2>3
  <1>3. NoDeadlineMissed' =>
          /\ \A c \in Callers : at'[c] = "detach" /\ purpose'[c] = "start" /\ attached' => pc'[c] \in InCall
          /\ \A c \in Callers : at'[c] = "close_worker" /\ (~trouble'[c] \/ purpose'[c] = "start") => ~attached'
          /\ Unclosed' => ~stopRequested'
    BY WaitingStep, ReleasedStep, UnstoppedStep
  <1> QED
    BY <1>1, <1>2, <1>3 DEF ReleaseInv, Unclosed

--------------------------------------------------------------------------------
(* The theorems.                                                           *)

\* A session as its constructor leaves it has started, closed and attached nothing.
LEMMA SessionInvInit ==
  SessionInit => SessionInv
  <1> SUFFICES ASSUME SessionInit PROVE SessionInv
    OBVIOUS
  <1>1. WorkerInv /\ SessionTypeOK /\ HeldInv
    BY BaseSessionInit
  <1>2. Attach \in Tasks /\ Detaches \subseteq Tasks
    BY GatewaySessionAssumption
  <1>3. RoleInv /\ DetachInv /\ AttachInv /\ CloseInv /\ ReleaseInv
    BY <1>2 DEF SessionInit, Init, RoleInv, DetachInv, AttachInv, CloseInv, ReleaseInv,
       Starter, Starting, Cleaning
  <1> QED
    BY <1>1, <1>3 DEF SessionInv

\* Every step of a session keeps the invariant.
LEMMA SessionInvStep ==
  SessionInv /\ [SessionNext]_allVars => SessionInv'
  <1> SUFFICES ASSUME SessionInv, [SessionNext]_allVars PROVE SessionInv'
    OBVIOUS
  <1>1. (WorkerInv /\ SessionTypeOK /\ HeldInv)'
    BY BaseSessionStep DEF SessionInv
  <1>2. ASSUME ~ConcurrentClose
        PROVE  (RoleInv /\ DetachInv /\ AttachInv /\ CloseInv /\ ReleaseInv)'
    <2>1. RoleInv'
      BY <1>2, RoleStep DEF SessionInv
    <2> QED
      BY <1>2, <2>1, DetachStep, AttachStep, CloseStep, ReleaseStep DEF SessionInv
  <1> QED
    BY <1>1, <1>2 DEF SessionInv

\* The invariant holds in every reachable state of a session.
LEMMA SessionInvAlways == SessionSpec => []SessionInv
  BY SessionInvInit, SessionInvStep, PTL DEF SessionSpec

\* Every reachable state of a session is well typed, and a caller between two
\* operations of its worker is outside the worker.
THEOREM SessionTypeCorrect == SessionSpec => []SessionTypeOK
  <1>1. SessionInv => SessionTypeOK
    BY DEF SessionInv
  <1> QED
    BY <1>1, SessionInvAlways, PTL

\* The worker beneath a session keeps the promise it makes on its own: a caller
\* that was told its function did not start can retry it.
THEOREM WithdrawnInSession == SessionSpec => []WithdrawnNeverRuns
  <1>1. SessionInv => WithdrawnNeverRuns
    BY DEF SessionInv, WorkerInv, IInv, TaskInv, WithdrawnNeverRuns
  <1> QED
    BY <1>1, SessionInvAlways, PTL

\* health() reports HEALTHY only for a session whose connection holds ETABS, when
\* no close() begins during a start().
THEOREM HealthTruthful == ~ConcurrentClose => (SessionSpec => []HealthIsTruthful)
  <1> SUFFICES ASSUME ~ConcurrentClose PROVE SessionSpec => []HealthIsTruthful
    OBVIOUS
  <1>1. SessionInv => HealthIsTruthful
    BY DEF SessionInv, DetachInv, AttachInv, HealthIsTruthful
  <1> QED
    BY <1>1, SessionInvAlways, PTL

\* A close() that returned True has ended the worker thread and, if no deadline
\* was missed, released the COM references on it.
THEOREM CleanCloseIsClean == ~ConcurrentClose => (SessionSpec => []CleanCloseReleases)
  <1> SUFFICES ASSUME ~ConcurrentClose PROVE SessionSpec => []CleanCloseReleases
    OBVIOUS
  <1>1. SessionInv => CleanCloseReleases
    BY DEF SessionInv, WorkerInv, IInv, LifeInv, CloseInv, ReleaseInv, CleanCloseReleases
  <1> QED
    BY <1>1, SessionInvAlways, PTL

\* A start() that failed leaves nothing attached and a worker that serves nobody.
THEOREM FailedStartIsClean == ~ConcurrentClose => (SessionSpec => []FailedStartReleases)
  <1> SUFFICES ASSUME ~ConcurrentClose PROVE SessionSpec => []FailedStartReleases
    OBVIOUS
  <1>1. SessionInv => FailedStartReleases
    BY DEF SessionInv, CloseInv, ReleaseInv, FailedStartReleases, Shut
  <1> QED
    BY <1>1, SessionInvAlways, PTL

\* CLOSED is the last state of a session that nobody closes while it starts.
THEOREM ClosedSessionFinal == ~ConcurrentClose => (SessionSpec => ClosedSessionIsFinal)
  <1> SUFFICES ASSUME ~ConcurrentClose PROVE SessionSpec => ClosedSessionIsFinal
    OBVIOUS
  <1>1. SessionInv /\ [SessionNext]_allVars => [session = "CLOSED" => session' = "CLOSED"]_allVars
    <2> SUFFICES ASSUME SessionInv, SessionNext, session = "CLOSED" PROVE session' = "CLOSED"
      BY DEF allVars, sessionVars
    <2>1. RoleInv /\ SessionTypeOK
      BY DEF SessionInv
    <2> USE DEF RoleInv, Starter, Starting, Cleaning, SessionTypeOK, sessionVars
    <2>2. CASE WorkerThread
      BY <2>2 DEF WorkerThread
    <2>3. ASSUME NEW c \in Callers, Local(c) PROVE session' = "CLOSED"
      BY <2>1, <2>3 DEF Local, BeginStart, StartFails, BecomeReady, BeginClose, FindAttached,
         Settle, BeginBounded, EndBounded
    <2>4. ASSUME NEW c \in Callers,
                 \/ CallAttach(c) \/ CallReadContext(c) \/ CallDetach(c) \/ CallCloseWorker(c)
                 \/ CallBounded(c) \/ CallerInWorker(c) \/ CloseAgain(c)
          PROVE  session' = "CLOSED"
      BY <2>4 DEF CallAttach, CallReadContext, CallDetach, CallCloseWorker, CallBounded,
         CallerInWorker, CloseAgain, allVars
    <2> QED
      BY <2>2, <2>3, <2>4 DEF SessionNext, Local
  <1> QED
    BY <1>1, SessionInvAlways, PTL DEF SessionSpec, ClosedSessionIsFinal

================================================================================
