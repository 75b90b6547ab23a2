----------------------------- MODULE GatewaySession -----------------------------
(***************************************************************************)
(* ETABSGatewaySession (session.py) and the connection it owns             *)
(* (ReadOnlyETABSConnection, connection.py), composed with the worker      *)
(* thread of StaWorker.  The session's own lock is held for single         *)
(* assignments only; between them a caller is inside the worker's start(), *)
(* call() or close(), and other callers run.                               *)
(*                                                                         *)
(* The tasks of the worker are the closures the connection hands over.     *)
(* Which ETABS object an attach finds is not modelled: it succeeds or      *)
(* fails.  No closure calls the worker again, so ReentrantCall is no step  *)
(* of this module.  The branch of start() that compares the attachment of  *)
(* the context with the one just made is left out: the connection attaches *)
(* at most once before it is detached, so they are the same object.        *)
(***************************************************************************)
EXTENDS StaWorker, FiniteSets

CONSTANTS
  Attach, ReadContext,  \* the tasks of connection.attach() and read_context()
  Detaches,             \* the tasks of connection.detach(), one per clean-up
  BoundedCalls,         \* tasks of execute_bounded_read and of bounded mutations
  ConcurrentClose       \* may close() begin while another thread is in start()?

ASSUME GatewaySessionAssumption ==
  /\ Attach # ReadContext
  /\ {Attach, ReadContext} \cap (Detaches \cup BoundedCalls) = {}
  /\ Detaches \cap BoundedCalls = {}
  /\ Tasks = {Attach, ReadContext} \cup Detaches \cup BoundedCalls
  /\ ConcurrentClose \in BOOLEAN

VARIABLES
  session,   \* GatewayState
  context,   \* _context is not None
  attached,  \* the connection holds its COM references (_attachment is not None)
  at,        \* where each caller stands in an operation of the session
  purpose,   \* why a caller cleans up: a failed start, or a close
  trouble,   \* the clean-up of the caller has recorded a failure
  closedClean  \* history: some close() returned True

sessionVars == <<session, context, at, purpose, closedClean>>
allVars == <<vars, sessionVars, attached, trouble>>

GatewayState == {"NEW", "STARTING", "READY", "CLOSING", "CLOSED", "FAILED"}

SessionStep == {"idle", "start", "attach", "context", "cleanup", "detach",
                "found", "close_worker", "bounded", "bounded_call"}

SessionInit ==
  /\ Init
  /\ session = "NEW"
  /\ context = FALSE
  /\ attached = FALSE
  /\ at = [c \in Callers |-> "idle"]
  /\ purpose = [c \in Callers |-> "close"]
  /\ trouble = [c \in Callers |-> FALSE]
  /\ closedClean = FALSE

--------------------------------------------------------------------------------
(* The worker operations a caller of the session performs.                 *)

CallWorker(c, t) ==
  \/ StartAlreadyRunning(c, t) \/ StartRefused(c, t)
  \/ StartThread(c, t) \/ StartAwaitsOther(c, t)

CloseWorker(c) ==
  \/ CloseUnstarted(c) \/ CloseBegin(c)
  \/ state = "CLOSED" /\ UNCHANGED vars

At(c, step) == at' = [at EXCEPT ![c] = step]

\* c is back from a worker operation; what its call of t gave.
Back(c) == pc[c] = "idle"
Gave(t) == outcome[t]

--------------------------------------------------------------------------------
(* start()                                                                 *)

\* Mutant: start() does not look at the state of the session.
BeginStartAlways(c) ==
  /\ at[c] = "idle"
  /\ session' = "STARTING"
  /\ At(c, "start")
  /\ UNCHANGED <<vars, context, attached, purpose, trouble, closedClean>>

BeginStart(c) ==
  /\ at[c] = "idle"
  /\ session = "NEW"
  /\ session' = "STARTING"
  /\ At(c, "start")
  /\ UNCHANGED <<vars, context, attached, purpose, trouble, closedClean>>

CallAttach(c) ==
  /\ at[c] = "start"
  /\ CallWorker(c, Attach)
  /\ At(c, "attach")
  /\ UNCHANGED <<session, context, attached, purpose, trouble, closedClean>>

CallReadContext(c) ==
  /\ at[c] = "attach"
  /\ Back(c)
  /\ Gave(Attach) = "returned"
  /\ CallWorker(c, ReadContext)
  /\ At(c, "context")
  /\ UNCHANGED <<session, context, attached, purpose, trouble, closedClean>>

\* Mutant: a failed start is recorded and nothing is cleaned up.
StartFailsDirty(c) ==
  /\ \/ at[c] = "attach" /\ Gave(Attach) # "returned"
     \/ at[c] = "context" /\ Gave(ReadContext) # "returned"
  /\ Back(c)
  /\ session' = "FAILED"
  /\ At(c, "idle")
  /\ UNCHANGED <<vars, context, attached, purpose, trouble, closedClean>>

\* Any exception of the two calls leads to the clean-up of a failed start.
StartFails(c) ==
  /\ \/ at[c] = "attach" /\ Gave(Attach) # "returned"
     \/ at[c] = "context" /\ Gave(ReadContext) # "returned"
  /\ Back(c)
  /\ At(c, "cleanup")
  /\ purpose' = [purpose EXCEPT ![c] = "start"]
  /\ trouble' = [trouble EXCEPT ![c] = FALSE]
  /\ UNCHANGED <<vars, session, context, attached, closedClean>>

\* The last critical section of start() does not look at the state again.
BecomeReady(c) ==
  /\ at[c] = "context"
  /\ Back(c)
  /\ Gave(ReadContext) = "returned"
  /\ session' = "READY"
  /\ context' = TRUE
  /\ At(c, "idle")
  /\ UNCHANGED <<vars, attached, purpose, trouble, closedClean>>

--------------------------------------------------------------------------------
(* close() and the clean-up it shares with a failed start.                 *)

\* A close() of a closed session returns False and changes nothing.
CloseAgain(c) ==
  /\ at[c] = "idle"
  /\ session = "CLOSED"
  /\ UNCHANGED allVars

\* Bound: each clean-up that may still come has a task of its own.
DetachToSpare ==
  Cardinality({t \in Detaches : Fresh(t)}) >
  Cardinality({c \in Callers : at[c] \in {"start", "attach", "context", "cleanup", "found"}})

\* Mutant: a close in progress leaves the session as it was.
BeginCloseSilently(c) ==
  /\ DetachToSpare
  /\ at[c] = "idle"
  /\ session # "CLOSED"
  /\ ConcurrentClose \/ session # "STARTING"
  /\ At(c, "cleanup")
  /\ purpose' = [purpose EXCEPT ![c] = "close"]
  /\ trouble' = [trouble EXCEPT ![c] = FALSE]
  /\ UNCHANGED <<vars, session, context, attached, closedClean>>

BeginClose(c) ==
  /\ DetachToSpare
  /\ at[c] = "idle"
  /\ session # "CLOSED"
  /\ ConcurrentClose \/ session # "STARTING"
  /\ session' = "CLOSING"
  /\ At(c, "cleanup")
  /\ purpose' = [purpose EXCEPT ![c] = "close"]
  /\ trouble' = [trouble EXCEPT ![c] = FALSE]
  /\ UNCHANGED <<vars, context, attached, closedClean>>

\* The clean-up finds the connection attached; it may be detached by another
\* clean-up before this one reaches the worker.
FindAttached(c) ==
  /\ at[c] = "cleanup"
  /\ attached
  /\ At(c, "found")
  /\ UNCHANGED <<vars, session, context, attached, purpose, trouble, closedClean>>

CallDetach(c) ==
  /\ at[c] = "found"
  /\ \E t \in Detaches :
       /\ CallWorker(c, t)
       /\ trouble' = [trouble EXCEPT ![c] = @ \/ outcome'[t] = "refused"]
  /\ At(c, "detach")
  /\ UNCHANGED <<session, context, attached, purpose, closedClean>>

\* Mutant: the worker is closed without a detach.
CallCloseWorkerOnly(c) ==
  /\ \/ at[c] = "cleanup"
     \/ at[c] = "detach" /\ Back(c)
  /\ CloseWorker(c)
  /\ At(c, "close_worker")
  /\ UNCHANGED <<session, context, attached, purpose, trouble, closedClean>>

\* The worker is closed whether or not the detach succeeded; a detach that
\* raised was recorded by CallDetach or CallerInWorker.
CallCloseWorker(c) ==
  /\ \/ at[c] \in {"cleanup", "found"} /\ ~attached
     \/ at[c] = "detach" /\ Back(c)
  /\ CloseWorker(c)
  /\ At(c, "close_worker")
  /\ UNCHANGED <<session, context, attached, purpose, trouble, closedClean>>

\* The state a clean-up ends in, whatever it is by then.
Settle(c) ==
  /\ at[c] = "close_worker"
  /\ Back(c)
  /\ session' = IF purpose[c] = "start" THEN "FAILED" ELSE "CLOSED"
  /\ closedClean' = (closedClean \/ (purpose[c] = "close" /\ ~trouble[c]))
  /\ At(c, "idle")
  /\ UNCHANGED <<vars, context, attached, purpose, trouble>>

--------------------------------------------------------------------------------
(* Bounded reads and bounded mutations: the state is checked under the     *)
(* lock, the worker is called after the lock was released.                 *)

\* Bound: each bounded call has a task of its own.
BoundedToSpare ==
  Cardinality({t \in BoundedCalls : Fresh(t)}) >
  Cardinality({c \in Callers : at[c] = "bounded"})

BeginBounded(c) ==
  /\ BoundedToSpare
  /\ at[c] = "idle"
  /\ session = "READY"
  /\ At(c, "bounded")
  /\ UNCHANGED <<vars, session, context, attached, purpose, trouble, closedClean>>

CallBounded(c) ==
  /\ at[c] = "bounded"
  /\ \E t \in BoundedCalls : CallWorker(c, t)
  /\ At(c, "bounded_call")
  /\ UNCHANGED <<session, context, attached, purpose, trouble, closedClean>>

EndBounded(c) ==
  /\ at[c] = "bounded_call"
  /\ Back(c)
  /\ At(c, "idle")
  /\ UNCHANGED <<vars, session, context, attached, purpose, trouble, closedClean>>

--------------------------------------------------------------------------------
(* The worker beneath.                                                     *)

\* A step of c inside the worker.  An expired join and a failed finalizer make
\* close() raise, and a detach that does not return is recorded as well.
CallerInWorker(c) ==
  /\ CallerContinues(c)
  /\ trouble' = [trouble EXCEPT ![c] =
       \/ @
       \/ pc[c] = "join" /\ pc'[c] = "idle"
       \/ pc[c] = "finish_close" /\ finalizerError
       \/ \E t \in Detaches : task[c] = t /\ outcome'[t] \notin {"none", "returned"}]
  /\ UNCHANGED <<sessionVars, attached>>

\* What the closures do on the worker thread when they end with this result.
TaskEffect(t, result) ==
  \/ t = Attach /\ result = "done" /\ ~attached /\ attached' = TRUE
  \/ t \in Detaches /\ result = "done" /\ attached' = FALSE
  \/ t \notin Detaches /\ result = "failed" /\ UNCHANGED attached
  \/ /\ t \in BoundedCalls \cup {ReadContext}
     /\ result = "done"
     /\ attached
     /\ UNCHANGED attached

WorkerThread ==
  /\ ThreadContinues
  /\ IF thread = "run"
     THEN TaskEffect(stack[1], future'[stack[1]])
     ELSE UNCHANGED attached
  /\ UNCHANGED <<sessionVars, trouble>>

SessionNext ==
  \/ \E c \in Callers :
       \/ BeginStart(c) \/ CallAttach(c) \/ CallReadContext(c)
       \/ StartFails(c) \/ BecomeReady(c)
       \/ BeginClose(c) \/ FindAttached(c) \/ CallDetach(c) \/ CallCloseWorker(c) \/ Settle(c)
       \/ CloseAgain(c)
       \/ BeginBounded(c) \/ CallBounded(c) \/ EndBounded(c)
       \/ CallerInWorker(c)
  \/ WorkerThread

SessionSpec == SessionInit /\ [][SessionNext]_allVars

--------------------------------------------------------------------------------
(* Properties.                                                             *)

NoDeadlineMissed ==
  /\ ~startupCancelled
  /\ \A t \in Tasks :
       outcome[t] \notin {"start_timeout", "timeout_cancelled", "timeout_running"}

\* Every variable of the session has its type, and a caller outside the session
\* is outside the worker: each operation waits for the worker calls it made.
SessionTypeOK ==
  /\ session \in GatewayState
  /\ context \in BOOLEAN
  /\ attached \in BOOLEAN
  /\ at \in [Callers -> SessionStep]
  /\ purpose \in [Callers -> {"start", "close"}]
  /\ trouble \in [Callers -> BOOLEAN]
  /\ closedClean \in BOOLEAN
  /\ \A c \in Callers : at[c] \in {"idle", "start", "cleanup", "found", "bounded"} => pc[c] = "idle"

\* health() reports HEALTHY (session.py 208) only for a session whose
\* connection still holds ETABS.
HealthIsTruthful == session = "READY" /\ context => attached

\* A close() that returned True has ended the worker thread and, if no deadline
\* was missed before, released the COM references on it (session.py 280-291).
CleanCloseReleases ==
  closedClean => /\ thread \in {"none", "last", "dead"}
                 /\ NoDeadlineMissed => ~attached

\* Without the exception for missed deadlines: COM references are released by
\* the thread that owns them, before it finalizes the COM apartment.
ReleasedByOwner == thread \in {"last", "dead"} => ~attached

\* A start() that failed leaves nothing attached and a worker that serves
\* nobody (the clean-up of session.py 120-137).
FailedStartReleases ==
  session = "FAILED" => state # "RUNNING" /\ (NoDeadlineMissed => ~attached)

\* After a close() that returned True, health() is not HEALTHY any more
\* (test_session.py 227-245 asserts UNAVAILABLE after close()).
ClosedIsNotHealthy == closedClean => ~(session = "READY" /\ context)

\* CLOSED is the last state of a session.
ClosedSessionIsFinal == [][session = "CLOSED" => session' = "CLOSED"]_allVars

================================================================================
