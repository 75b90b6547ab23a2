------------------------------- MODULE StaWorker -------------------------------
(***************************************************************************)
(* DedicatedSTAWorker (packages/etabs_gateway/.../worker.py): one worker   *)
(* thread owns the COM apartment and runs, one at a time, the functions    *)
(* other threads hand it through a queue.                                  *)
(*                                                                         *)
(* A step is one critical section of the code or one call on an object     *)
(* that other threads use without the lock (Event.set, Queue.put, Future   *)
(* methods).  Every deadline (start, call, close) may expire at any moment *)
(* at which the code is still waiting: time itself is abstracted.  Which   *)
(* exception class a refused or failed operation raises is left out.       *)
(***************************************************************************)
EXTENDS Naturals, Subsequences

CONSTANTS
  Callers,   \* threads of the application that use the worker
  Tasks,     \* functions handed to the worker; each is handed over once
  Stop,      \* the _STOP sentinel of the queue
  NoTask     \* what a caller that only starts or closes the worker carries

ASSUME StaWorkerAssumption ==
  /\ Stop \notin Tasks
  /\ NoTask \notin Tasks

VARIABLES
  state,            \* WorkerState
  ready,            \* the _ready event
  stopRequested,    \* the _stop_requested event
  startupCancelled, \* the _startup_cancelled event
  finalizerError,   \* _finalizer_error is not None
  queue,            \* the queue of tasks and Stop sentinels
  thread,           \* where _thread_main stands
  stack,            \* tasks on the worker's call stack, a reentrant call on top
  future,           \* the Future of each task
  began,            \* history: tasks whose function was entered
  pc,               \* where each caller stands in start, call or close
  task,             \* the task each caller is calling
  outcome           \* what the call of each task gave its caller

workerVars == <<state, ready, stopRequested, startupCancelled, finalizerError>>
threadVars == <<thread, stack, began>>
callVars   == <<pc, task, outcome>>
vars == <<workerVars, queue, threadVars, future, callVars>>

WorkerState == {"NEW", "STARTING", "RUNNING", "CLOSING", "CLOSED", "FAILED"}

ThreadStep == {"none", "init", "decide", "signal", "recheck", "loop", "run",
               "failed", "finalize", "exit", "last", "dead"}

FutureState == {"none", "pending", "running", "cancelled", "done", "failed"}

CallerStep == {"idle", "await_ready", "after_ready", "submit", "wait",
               "expired", "cancel", "poison", "late_start", "late_stop",
               "late_put", "late_fail", "join", "finish_close"}

Outcome == {"none", "returned", "call_error", "refused", "start_timeout",
            "timeout_cancelled", "timeout_running"}

\* A task no caller has taken up yet.
Fresh(t) == /\ future[t] = "none"
            /\ outcome[t] = "none"
            /\ \A c \in Callers : task[c] # t

Alive == thread \notin {"none", "dead"}

Init ==
  /\ state = "NEW"
  /\ ready = FALSE
  /\ stopRequested = FALSE
  /\ startupCancelled = FALSE
  /\ finalizerError = FALSE
  /\ queue = <<>>
  /\ thread = "none"
  /\ stack = <<>>
  /\ future = [t \in Tasks |-> "none"]
  /\ began = {}
  /\ pc = [c \in Callers |-> "idle"]
  /\ task = [c \in Callers |-> NoTask]
  /\ outcome = [t \in Tasks |-> "none"]

--------------------------------------------------------------------------------
(* Callers: start(), submit() and call().                                  *)

Goto(c, step) == /\ pc' = [pc EXCEPT ![c] = step]
                 /\ UNCHANGED <<task, outcome>>

\* The operation of c ends, by a return or an exception, with this result.
Leave(c, result) ==
  /\ pc' = [pc EXCEPT ![c] = "idle"]
  /\ task' = [task EXCEPT ![c] = NoTask]
  /\ outcome' = [t \in Tasks |-> IF t = task[c] THEN result ELSE outcome[t]]

\* start() succeeded: a plain start returns, a call goes on to its submission.
Proceed(c, t) ==
  /\ pc' = [pc EXCEPT ![c] = IF t = NoTask THEN "idle" ELSE "submit"]
  /\ task' = [task EXCEPT ![c] = t]
  /\ UNCHANGED outcome

\* c enters start(), by itself (t = NoTask) or on the way to calling t.
Enter(c, t) == /\ pc[c] = "idle"
               /\ t = NoTask \/ (t \in Tasks /\ Fresh(t))

StartAlreadyRunning(c, t) ==
  /\ Enter(c, t)
  /\ state = "RUNNING"
  /\ Proceed(c, t)
  /\ UNCHANGED <<workerVars, queue, threadVars, future>>

StartRefused(c, t) ==
  /\ Enter(c, t)
  /\ state \in {"CLOSING", "CLOSED", "FAILED"}
  /\ outcome' = [u \in Tasks |-> IF u = t THEN "refused" ELSE outcome[u]]
  /\ UNCHANGED <<workerVars, queue, threadVars, future, pc, task>>

StartThread(c, t) ==
  /\ Enter(c, t)
  /\ state = "NEW"
  /\ state' = "STARTING"
  /\ thread' = "init"
  /\ pc' = [pc EXCEPT ![c] = "await_ready"]
  /\ task' = [task EXCEPT ![c] = t]
  /\ UNCHANGED <<ready, stopRequested, startupCancelled, finalizerError, queue,
                 stack, began, future, outcome>>

StartAwaitsOther(c, t) ==
  /\ Enter(c, t)
  /\ state = "STARTING"
  /\ pc' = [pc EXCEPT ![c] = "await_ready"]
  /\ task' = [task EXCEPT ![c] = t]
  /\ UNCHANGED <<workerVars, queue, threadVars, future, outcome>>

SeeReady(c) ==
  /\ pc[c] = "await_ready"
  /\ ready
  /\ Goto(c, "after_ready")
  /\ UNCHANGED <<workerVars, queue, threadVars, future>>

AfterReady(c) ==
  /\ pc[c] = "after_ready"
  /\ IF state = "RUNNING" THEN Proceed(c, task[c]) ELSE Leave(c, "refused")
  /\ UNCHANGED <<workerVars, queue, threadVars, future>>

\* The start deadline passes.  What follows is four unlocked steps: the two
\* events, the sentinel, and the state under the lock.
StartTimesOut(c) ==
  /\ pc[c] = "await_ready"
  /\ ~ready
  /\ Goto(c, "late_start")
  /\ UNCHANGED <<workerVars, queue, threadVars, future>>

CancelStartup(c) ==
  /\ pc[c] = "late_start"
  /\ startupCancelled' = TRUE
  /\ Goto(c, "late_stop")
  /\ UNCHANGED <<state, ready, stopRequested, finalizerError, queue,
                 threadVars, future>>

RequestStop(c) ==
  /\ pc[c] = "late_stop"
  /\ stopRequested' = TRUE
  /\ Goto(c, "late_put")
  /\ UNCHANGED <<state, ready, startupCancelled, finalizerError, queue,
                 threadVars, future>>

\* Mutant: the sentinel of an expired start is forgotten.
PutNoStop(c) ==
  /\ pc[c] = "late_put"
  /\ Goto(c, "late_fail")
  /\ UNCHANGED <<workerVars, queue, threadVars, future>>

PutStop(c) ==
  /\ pc[c] = "late_put"
  /\ queue' = Append(queue, Stop)
  /\ Goto(c, "late_fail")
  /\ UNCHANGED <<workerVars, threadVars, future>>

FailStart(c) ==
  /\ pc[c] = "late_fail"
  /\ state' = IF state = "STARTING" THEN "FAILED" ELSE state
  /\ Leave(c, "start_timeout")
  /\ UNCHANGED <<ready, stopRequested, startupCancelled, finalizerError, queue,
                 threadVars, future>>

\* Mutant: the state is not checked again after start().
SubmitUnchecked(c) ==
  /\ pc[c] = "submit"
  /\ queue' = Append(queue, task[c])
  /\ future' = [future EXCEPT ![task[c]] = "pending"]
  /\ Goto(c, "wait")
  /\ UNCHANGED <<workerVars, threadVars>>

Submit(c) ==
  /\ pc[c] = "submit"
  /\ IF state = "RUNNING"
     THEN /\ queue' = Append(queue, task[c])
          /\ future' = [future EXCEPT ![task[c]] = "pending"]
          /\ Goto(c, "wait")
     ELSE /\ Leave(c, "refused")
          /\ UNCHANGED <<queue, future>>
  /\ UNCHANGED <<workerVars, threadVars>>

GetResult(c) ==
  /\ pc[c] = "wait"
  /\ future[task[c]] \in {"done", "failed"}
  /\ Leave(c, IF future[task[c]] = "done" THEN "returned" ELSE "call_error")
  /\ UNCHANGED <<workerVars, queue, threadVars, future>>

\* Mutant: the deadline covers the time in the queue only.
CallTimesOutWhenQueued(c) ==
  /\ pc[c] = "wait"
  /\ future[task[c]] = "pending"
  /\ Goto(c, "expired")
  /\ UNCHANGED <<workerVars, queue, threadVars, future>>

CallTimesOut(c) ==
  /\ pc[c] = "wait"
  /\ future[task[c]] \in {"pending", "running"}
  /\ Goto(c, "expired")
  /\ UNCHANGED <<workerVars, queue, threadVars, future>>

\* After the deadline the caller asks the future whether it is done; a done
\* one is reported as a failure of the call.
CheckDone(c) ==
  /\ pc[c] = "expired"
  /\ IF future[task[c]] \in {"done", "failed"}
     THEN Leave(c, "call_error")
     ELSE Goto(c, "cancel")
  /\ UNCHANGED <<workerVars, queue, threadVars, future>>

\* Future.cancel() withdraws a task that has not begun; it is refused for one
\* that runs or that finished since CheckDone.
Cancel(c) ==
  /\ pc[c] = "cancel"
  /\ IF future[task[c]] = "pending"
     THEN /\ future' = [future EXCEPT ![task[c]] = "cancelled"]
          /\ Leave(c, "timeout_cancelled")
     ELSE /\ Goto(c, "poison")
          /\ UNCHANGED future
  /\ UNCHANGED <<workerVars, queue, threadVars>>

\* Mutant: a running timeout is reported and the worker kept.
NoPoison(c) ==
  /\ pc[c] = "poison"
  /\ Leave(c, "timeout_running")
  /\ UNCHANGED <<workerVars, queue, threadVars, future>>

Poison(c) ==
  /\ pc[c] = "poison"
  /\ IF state = "RUNNING"
     THEN /\ state' = "FAILED"
          /\ stopRequested' = TRUE
          /\ queue' = Append(queue, Stop)
     ELSE UNCHANGED <<state, stopRequested, queue>>
  /\ Leave(c, "timeout_running")
  /\ UNCHANGED <<ready, startupCancelled, finalizerError, threadVars, future>>

--------------------------------------------------------------------------------
(* Callers: close().                                                       *)

CloseUnstarted(c) ==
  /\ pc[c] = "idle"
  /\ state = "NEW"
  /\ state' = "CLOSED"
  /\ UNCHANGED <<ready, stopRequested, startupCancelled, finalizerError, queue,
                 threadVars, future, callVars>>

\* Mutant: a closed worker is closed again.
CloseBeginAlways(c) ==
  /\ pc[c] = "idle"
  /\ state # "NEW"
  /\ IF state = "CLOSING"
     THEN UNCHANGED <<state, stopRequested, queue>>
     ELSE /\ state' = "CLOSING"
          /\ stopRequested' = TRUE
          /\ queue' = Append(queue, Stop)
  /\ Goto(c, "join")
  /\ UNCHANGED <<ready, startupCancelled, finalizerError, threadVars, future>>

CloseBegin(c) ==
  /\ pc[c] = "idle"
  /\ state \notin {"CLOSED", "NEW"}
  /\ IF state = "CLOSING"
     THEN UNCHANGED <<state, stopRequested, queue>>
     ELSE /\ state' = "CLOSING"
          /\ stopRequested' = TRUE
          /\ queue' = Append(queue, Stop)
  /\ Goto(c, "join")
  /\ UNCHANGED <<ready, startupCancelled, finalizerError, threadVars, future>>

\* Mutant: an expired join is taken for a finished thread.
JoinedUnchecked(c) ==
  /\ pc[c] = "join"
  /\ Goto(c, "finish_close")
  /\ UNCHANGED <<workerVars, queue, threadVars, future>>

Joined(c) ==
  /\ pc[c] = "join"
  /\ ~Alive
  /\ Goto(c, "finish_close")
  /\ UNCHANGED <<workerVars, queue, threadVars, future>>

JoinTimesOut(c) ==
  /\ pc[c] = "join"
  /\ Alive
  /\ Leave(c, "none")
  /\ UNCHANGED <<workerVars, queue, threadVars, future>>

FinishClose(c) ==
  /\ pc[c] = "finish_close"
  /\ state' = "CLOSED"
  /\ Leave(c, "none")
  /\ UNCHANGED <<ready, stopRequested, startupCancelled, finalizerError, queue,
                 threadVars, future>>

--------------------------------------------------------------------------------
(* The worker thread: _thread_main().                                      *)

ThreadGoes(step) == /\ thread' = step
                    /\ UNCHANGED <<stack, began, queue, future, callVars>>

InitializerReturns ==
  /\ thread = "init"
  /\ ThreadGoes("decide")
  /\ UNCHANGED workerVars

InitializerRaises ==
  /\ thread = "init"
  /\ state' = "FAILED"
  /\ ThreadGoes("failed")
  /\ UNCHANGED <<ready, stopRequested, startupCancelled, finalizerError>>

SignalFailure ==
  /\ thread = "failed"
  /\ ready' = TRUE
  /\ ThreadGoes("exit")
  /\ UNCHANGED <<state, stopRequested, startupCancelled, finalizerError>>

\* Mutant: the thread announces RUNNING whatever was requested meanwhile.
DecideRunning ==
  /\ thread = "decide"
  /\ state' = "RUNNING"
  /\ ThreadGoes("signal")
  /\ UNCHANGED <<ready, stopRequested, startupCancelled, finalizerError>>

\* The state a started thread announces, under the lock.
Decide ==
  /\ thread = "decide"
  /\ state' = IF startupCancelled \/ stopRequested THEN "CLOSING" ELSE "RUNNING"
  /\ ThreadGoes("signal")
  /\ UNCHANGED <<ready, stopRequested, startupCancelled, finalizerError>>

SignalReady ==
  /\ thread = "signal"
  /\ ready' = TRUE
  /\ ThreadGoes("recheck")
  /\ UNCHANGED <<state, stopRequested, startupCancelled, finalizerError>>

Recheck ==
  /\ thread = "recheck"
  /\ ThreadGoes(IF startupCancelled \/ stopRequested THEN "finalize" ELSE "loop")
  /\ UNCHANGED workerVars

TakeStop ==
  /\ thread = "loop"
  /\ queue # <<>>
  /\ Head(queue) = Stop
  /\ queue' = Tail(queue)
  /\ thread' = "finalize"
  /\ UNCHANGED <<workerVars, stack, began, future, callVars>>

SkipCancelled ==
  /\ thread = "loop"
  /\ queue # <<>>
  /\ Head(queue) # Stop
  /\ future[Head(queue)] = "cancelled"
  /\ queue' = Tail(queue)
  /\ UNCHANGED <<workerVars, threadVars, future, callVars>>

\* Mutant: the thread runs an item without asking its future first.
BeginTaskUnchecked ==
  /\ thread = "loop"
  /\ queue # <<>>
  /\ Head(queue) # Stop
  /\ future' = [future EXCEPT ![Head(queue)] = "running"]
  /\ began' = began \cup {Head(queue)}
  /\ stack' = <<Head(queue)>>
  /\ thread' = "run"
  /\ queue' = Tail(queue)
  /\ UNCHANGED <<workerVars, callVars>>

BeginTask ==
  /\ thread = "loop"
  /\ queue # <<>>
  /\ Head(queue) # Stop
  /\ future[Head(queue)] = "pending"
  /\ future' = [future EXCEPT ![Head(queue)] = "running"]
  /\ began' = began \cup {Head(queue)}
  /\ stack' = <<Head(queue)>>
  /\ thread' = "run"
  /\ queue' = Tail(queue)
  /\ UNCHANGED <<workerVars, callVars>>

\* The function on top of the stack calls the worker again: it runs inline
\* while the worker is healthy and is refused once the worker is poisoned.
ReentrantCall(t) ==
  /\ thread = "run"
  /\ Fresh(t)
  /\ IF state = "RUNNING"
     THEN /\ stack' = Append(stack, t)
          /\ began' = began \cup {t}
          /\ future' = [future EXCEPT ![t] = "running"]
          /\ UNCHANGED outcome
     ELSE /\ outcome' = [outcome EXCEPT ![t] = "refused"]
          /\ UNCHANGED <<stack, began, future>>
  /\ UNCHANGED <<workerVars, queue, thread, pc, task>>

\* Mutant: a reentrant call returns to the queue loop.
EndTaskToLoop(ok) ==
  /\ thread = "run"
  /\ future' = [future EXCEPT ![stack[Len(stack)]] = IF ok THEN "done" ELSE "failed"]
  /\ thread' = "loop"
  /\ stack' = SubSeq(stack, 1, Len(stack) - 1)
  /\ UNCHANGED <<workerVars, queue, began, callVars>>

\* The function on top of the stack returns or raises.  A reentrant call hands
\* its result to the function below it, a queued one only to its future.
EndTask(ok) ==
  /\ thread = "run"
  /\ LET t == stack[Len(stack)]
         nested == Len(stack) > 1
     IN  /\ future' = [future EXCEPT ![t] = IF ok THEN "done" ELSE "failed"]
         /\ thread' = IF nested THEN "run" ELSE "loop"
         /\ outcome' = [outcome EXCEPT ![t] =
                          IF ~nested THEN @ ELSE IF ok THEN "returned" ELSE "call_error"]
  /\ stack' = SubSeq(stack, 1, Len(stack) - 1)
  /\ UNCHANGED <<workerVars, queue, began, pc, task>>

FinalizerReturns ==
  /\ thread = "finalize"
  /\ ThreadGoes("exit")
  /\ UNCHANGED workerVars

FinalizerRaises ==
  /\ thread = "finalize"
  /\ finalizerError' = TRUE
  /\ state' = "FAILED"
  /\ ThreadGoes("exit")
  /\ UNCHANGED <<ready, stopRequested, startupCancelled>>

ExitThread ==
  /\ thread = "exit"
  /\ state' = IF state \in {"FAILED", "CLOSED"} THEN state
              ELSE IF stopRequested THEN "CLOSED" ELSE "FAILED"
  /\ ThreadGoes("last")
  /\ UNCHANGED <<ready, stopRequested, startupCancelled, finalizerError>>

ThreadDies ==
  /\ thread = "last"
  /\ ready' = TRUE
  /\ ThreadGoes("dead")
  /\ UNCHANGED <<state, stopRequested, startupCancelled, finalizerError>>

--------------------------------------------------------------------------------
\* What a caller does once it is inside an operation.
CallerContinues(c) ==
  \/ SeeReady(c) \/ AfterReady(c) \/ StartTimesOut(c)
  \/ CancelStartup(c) \/ RequestStop(c) \/ PutStop(c) \/ FailStart(c)
  \/ Submit(c) \/ GetResult(c) \/ CallTimesOut(c) \/ CheckDone(c) \/ Cancel(c)
  \/ Poison(c) \/ Joined(c) \/ JoinTimesOut(c) \/ FinishClose(c)

\* What a caller may decide to do next.
CallerBegins(c) ==
  \/ \E t \in Tasks \cup {NoTask} :
       \/ StartAlreadyRunning(c, t) \/ StartRefused(c, t)
       \/ StartThread(c, t) \/ StartAwaitsOther(c, t)
  \/ CloseUnstarted(c) \/ CloseBegin(c)

\* What the thread does by itself, and what the injected functions do on it.
ThreadContinues ==
  \/ InitializerReturns \/ InitializerRaises \/ SignalFailure
  \/ Decide \/ SignalReady \/ Recheck
  \/ TakeStop \/ SkipCancelled \/ BeginTask
  \/ (\E ok \in BOOLEAN : EndTask(ok))
  \/ FinalizerReturns \/ FinalizerRaises \/ ExitThread \/ ThreadDies

Next ==
  \/ \E c \in Callers : CallerBegins(c) \/ CallerContinues(c)
  \/ ThreadContinues
  \/ \E t \in Tasks : ReentrantCall(t)

Spec == Init /\ [][Next]_vars

--------------------------------------------------------------------------------
(* Properties.                                                             *)

\* Every variable has its type; the thread is inside a task exactly when the
\* call stack holds one, so a reentrant call that ends returns to the task
\* that made it (submit(), worker.py 178-191).
TypeOK ==
  /\ state \in WorkerState
  /\ ready \in BOOLEAN
  /\ stopRequested \in BOOLEAN
  /\ startupCancelled \in BOOLEAN
  /\ finalizerError \in BOOLEAN
  /\ queue \in Seq(Tasks \cup {Stop})
  /\ thread \in ThreadStep
  /\ stack \in Seq(Tasks)
  /\ stack # <<>> <=> thread = "run"
  /\ future \in [Tasks -> FutureState]
  /\ began \subseteq Tasks
  /\ pc \in [Callers -> CallerStep]
  /\ task \in [Callers -> Tasks \cup {NoTask}]
  /\ outcome \in [Tasks -> Outcome]

\* A caller that was told its function did not start (the worker refused it,
\* the start timed out, or the timeout carries cancelled_before_start = True)
\* can retry it safely: the function has not run and never will, whatever the
\* worker thread does meanwhile (call(), worker.py 209-261, against the queue
\* loop, 357-371).
WithdrawnNeverRuns ==
  \A t \in Tasks :
    outcome[t] \in {"refused", "start_timeout", "timeout_cancelled"} => t \notin began

\* CLOSED means that the worker thread has left its last task and its
\* finalizer behind, along each of the three ways to that state (close() of a
\* new worker, close() after the join, the end of the thread).
ClosedMeansQuiet ==
  state = "CLOSED" => thread \in {"none", "last", "dead"}

\* CLOSED is final: no late start, close, poison or thread step leaves it.
ClosedIsFinal == [][state = "CLOSED" => state' = "CLOSED"]_vars

\* A task that close() or a poisoned worker finds in the queue is still served
\* (run, or skipped if its caller withdrew it), never stranded behind the Stop
\* sentinel.  Two gaps of the code bound the claim: a start deadline that
\* expires puts its sentinel without the lock (137-148), and a thread that is
\* told to stop before its first task leaves without reading the queue (354).
NothingStranded ==
  ~startupCancelled =>
    /\ \A i, j \in DOMAIN queue : i < j /\ queue[i] = Stop => queue[j] = Stop
    /\ began # {} /\ thread \in {"finalize", "exit", "last", "dead"} =>
         \A i \in DOMAIN queue : queue[i] = Stop

\* Once a call has timed out while its function ran, the worker never serves
\* another one: the timed-out function may still be changing the model.
PoisonSticks ==
  (\E t \in Tasks : outcome[t] = "timeout_running") =>
    state \in {"FAILED", "CLOSING", "CLOSED"}

\* A call that reports the failure of its operation does so because the
\* function failed (comment of call(), worker.py 226-229).
CallErrorMeansTaskFailed ==
  \A t \in Tasks : outcome[t] = "call_error" => future[t] = "failed"

\* The worker implements the abstract executor: serial, first in first out,
\* nothing after the stop, the intake opened and shut once.
Executor == INSTANCE SerialExecutor WITH
  waiting <- Among({t \in Tasks : future[t] = "pending"}, queue),
  running <- stack,
  finished <- {t \in Tasks : future[t] \in {"done", "failed"}},
  withdrawn <- {t \in Tasks : \/ future[t] = "cancelled"
                              \/ outcome[t] \in {"refused", "start_timeout"}},
  intake <- IF state = "RUNNING" THEN "open"
            ELSE IF state \in {"NEW", "STARTING"} THEN "unopened" ELSE "shut",
  stopped <- thread \in {"failed", "finalize", "exit", "last", "dead"}

ImplementsExecutor == Executor!Spec

--------------------------------------------------------------------------------
(* Liveness.                                                               *)

\* Callers are threads the operating system schedules, and each wait of theirs
\* has a deadline; nothing is assumed of the functions the worker runs.
FairSpec == Spec /\ \A c \in Callers : WF_vars(CallerContinues(c))

\* The worker thread is scheduled, and the functions it runs end.
WorkerProgress == WF_vars(ThreadContinues)

\* No operation of the worker keeps its caller for ever, even when the ETABS
\* call it waits for hangs: each wait (ready, result, join) has a deadline.
OperationsReturn == \A c \in Callers : pc[c] # "idle" ~> pc[c] = "idle"

\* When the functions it runs end, a worker told to stop ends its thread, so
\* that a later close() finds it dead.
StopEndsThread == WorkerProgress => (stopRequested /\ thread # "none" ~> thread = "dead")

================================================================================
