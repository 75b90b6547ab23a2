----------------------------- MODULE SerialExecutor -----------------------------
(***************************************************************************)
(* What a user of DedicatedSTAWorker may rely on, without threads, locks   *)
(* or deadlines: accepted tasks are run in the order of their acceptance   *)
(* and one at a time (a task that calls the worker again is the only       *)
(* nesting), a withdrawn task is never run, an intake that was shut stays  *)
(* shut, and nothing is run once the executor has stopped.                 *)
(***************************************************************************)
EXTENDS Naturals, Subsequences

CONSTANT Tasks

VARIABLES
  waiting,    \* accepted tasks that have not begun, oldest first
  running,    \* the task being run, then the reentrant calls it makes
  finished,   \* tasks that were run to their end
  withdrawn,  \* tasks that will never be run
  intake,     \* "unopened", then "open", then "shut"
  stopped     \* the executor runs nothing any more

taskVars == <<waiting, running, finished, withdrawn, stopped>>
vars == <<taskVars, intake>>

New(t) == /\ ~InSeq(t, waiting) /\ ~InSeq(t, running)
          /\ t \notin finished /\ t \notin withdrawn

Init ==
  /\ waiting = <<>>
  /\ running = <<>>
  /\ finished = {}
  /\ withdrawn = {}
  /\ intake = "unopened"
  /\ stopped = FALSE

Accept(t) ==
  /\ New(t)
  /\ intake = "open"
  /\ waiting' = Append(waiting, t)
  /\ UNCHANGED <<running, finished, withdrawn, stopped>>

Refuse(t) ==
  /\ New(t)
  /\ withdrawn' = withdrawn \cup {t}
  /\ UNCHANGED <<waiting, running, finished, stopped>>

Withdraw(t) ==
  /\ InSeq(t, waiting)
  /\ waiting' = Among(Tasks \ {t}, waiting)
  /\ withdrawn' = withdrawn \cup {t}
  /\ UNCHANGED <<running, finished, stopped>>

Begin ==
  /\ ~stopped
  /\ running = <<>>
  /\ waiting # <<>>
  /\ running' = <<Head(waiting)>>
  /\ waiting' = Tail(waiting)
  /\ UNCHANGED <<finished, withdrawn, stopped>>

Nest(t) ==
  /\ New(t)
  /\ intake = "open"
  /\ running # <<>>
  /\ running' = Append(running, t)
  /\ UNCHANGED <<waiting, finished, withdrawn, stopped>>

Finish ==
  /\ running # <<>>
  /\ running' = SubSeq(running, 1, Len(running) - 1)
  /\ finished' = finished \cup {running[Len(running)]}
  /\ UNCHANGED <<waiting, withdrawn, stopped>>

StopRunning ==
  /\ running = <<>>
  /\ stopped' = TRUE
  /\ UNCHANGED <<waiting, running, finished, withdrawn>>

TaskStep ==
  \/ \E t \in Tasks : Accept(t) \/ Refuse(t) \/ Withdraw(t) \/ Nest(t)
  \/ Begin \/ Finish \/ StopRunning

IntakeStep ==
  \/ intake = "unopened" /\ intake' \in {"open", "shut"}
  \/ intake = "open" /\ intake' = "shut"

Next == /\ TaskStep \/ UNCHANGED taskVars
        /\ IntakeStep \/ UNCHANGED intake

Spec == Init /\ [][Next]_vars

================================================================================
