--------------------------------- MODULE ColumnPage ---------------------------------
(***************************************************************************)
(* The page of the Column V2 application (apps/column_v2/index.html) with  *)
(* the server of ColumnWorkspace.  The page works on one workspace; its    *)
(* scripts run to the next await without interruption.  While it waits     *)
(* for an answer the user may edit, change the context and ask for more.   *)
(* Every such transition begins a new epoch; what an older one was waiting *)
(* for may not touch the page any more.                                    *)
(*                                                                         *)
(* Another program may use the same workspace.  Importing and exporting a  *)
(* packet are left out.                                                    *)
(***************************************************************************)
EXTENDS ColumnWorkspace, Sequences

CONSTANTS
  Programs,  \* other programs that use the workspace
  MaxEpoch,  \* bound: transitions of the page
  MaxForeign \* bound: requests of other programs

\* The page has at most one request of each of these; of downloads the user is
\* taken to start one at a time.
Tasks == {"states", "job", "download"}

ASSUME ColumnPageAssumption ==
  /\ Callers = Tasks \cup Programs
  /\ Tasks \cap Programs = {}
  /\ MaxEpoch \in Nat \ {0}
  /\ MaxForeign \in Nat

VARIABLES
  selected, \* context
  inputs,   \* bundle or packet, as the fields of the page show it
  epoch, ready, \* epoch and readyEpoch
  known,    \* workspace.revision
  result,   \* the result the page shows
  evidence, \* whether the evidence of 235 is shown
  busy,
  pending,  \* the chain of state requests: the first is under way
  job,      \* what calculate or reviewProduct awaits
  download, \* what download awaits
  saved,    \* the last file that was saved
  foreign   \* how many requests other programs sent

page == <<selected, inputs, epoch, ready, known, result, evidence, busy, pending, job, download, saved>>
vars == <<workspace, call, page, foreign>>

NoJob == [kind |-> "none", epoch |-> 0, revision |-> 0]

Editable == {"reference", "reference-owners", "235-product"}

\* The workspace was created and the first switchContext, to the context that the
\* browser had selected, is answered.
Init ==
  /\ InitWorkspace
  /\ revision = 1
  /\ selected = context
  /\ inputs = bundle
  /\ epoch = 1
  /\ ready = 1
  /\ known = 1
  /\ result = NoResult
  /\ evidence = (selected = "235")
  /\ busy = FALSE
  /\ pending = <<>>
  /\ job = NoJob
  /\ download = NoJob
  /\ saved = NoResult
  /\ foreign = 0

--------------------------------------------------------------------------------
(* What the user does.                                                     *)

\* clear(), then state(capture()) for inputs b in context ctx.
Transition(ctx, b, why) ==
  /\ epoch < MaxEpoch
  /\ epoch' = epoch + 1
  /\ ready' = 0
  /\ result' = NoResult
  /\ evidence' = FALSE
  /\ selected' = ctx
  /\ inputs' = b
  /\ pending' = Append(pending, [context |-> ctx, bundle |-> b, epoch |-> epoch', for |-> why])

Edit ==
  /\ selected \in Editable
  /\ \E i \in Inputs : Transition(selected, Raw(i), "edit")
  /\ UNCHANGED <<workspace, call, known, busy, job, download, saved, foreign>>

\* Also the reset button, which selects the context again.
SwitchContext ==
  /\ \E ctx \in Contexts : Transition(ctx, BundleOf(ctx, Default), "switch")
  /\ UNCHANGED <<workspace, call, known, busy, job, download, saved, foreign>>

Begin(kind) ==
  /\ ~busy /\ ready = epoch
  /\ busy' = TRUE
  /\ Transition(selected, inputs, kind)
  /\ job' = [kind |-> kind, epoch |-> epoch', revision |-> 0]
  /\ UNCHANGED <<workspace, call, known, download, saved, foreign>>

Calculate == selected # "235" /\ Begin("calculate")

\* Only the product context has reviews; the review itself follows the state.
ReviewProduct == selected = "235-product" /\ Begin("review")

\* download: ready says that pending is settled.
Download ==
  /\ ready = epoch
  /\ IF selected = "235" THEN evidence ELSE result # NoResult
  /\ download.kind = "none"
  /\ download' = [kind |-> "report", epoch |-> epoch, revision |-> known]
  /\ call' = [call EXCEPT !["download"] =
                [NoCall EXCEPT !.stage = "sent", !.kind = "report", !.revision = known, !.result = result]]
  /\ UNCHANGED <<workspace, selected, inputs, epoch, ready, known, result, evidence, busy,
                 pending, job, saved, foreign>>

--------------------------------------------------------------------------------
(* What the answers do.                                                    *)

\* The first of the chain is sent; the next follows when it is answered.
SendState ==
  /\ pending # <<>>
  /\ call["states"].stage = "idle"
  /\ call' = [call EXCEPT !["states"] =
                [NoCall EXCEPT !.stage = "sent", !.kind = "state",
                               !.context = Head(pending).context, !.bundle = Head(pending).bundle]]
  /\ UNCHANGED <<workspace, page, foreign>>

\* Mutant: only the context of the token is compared, so that an obsolete answer
\* counts again when the user returns to the context.
AcknowledgedInContext(t) == t.context = selected /\ call["states"].ok

\* The answer of a state request counts if no transition followed it.
Acknowledged(t) == t.epoch = epoch /\ call["states"].ok

\* Mutant: a function that finds itself obsolete returns and keeps the lock.
ContinueLocked(t) ==
  IF t.for \in {"edit", "switch"} \/ ~Acknowledged(t)
  THEN /\ call' = [call EXCEPT !["states"] = NoCall]
       /\ UNCHANGED <<busy, job>>
  ELSE /\ call' = [call EXCEPT !["states"] = NoCall,
                              !["job"] = [NoCall EXCEPT !.stage = "sent", !.kind = t.for,
                                                        !.revision = known']]
       /\ job' = [job EXCEPT !.revision = known']
       /\ UNCHANGED busy

\* calculate and reviewProduct send their request for the acknowledged revision,
\* or give up.
Continue(t) ==
  CASE t.for \in {"edit", "switch"} ->
         /\ call' = [call EXCEPT !["states"] = NoCall]
         /\ UNCHANGED <<busy, job>>
    [] t.for \in {"calculate", "review"} /\ Acknowledged(t) ->
         /\ call' = [call EXCEPT !["states"] = NoCall,
                                !["job"] = [NoCall EXCEPT !.stage = "sent", !.kind = t.for,
                                                          !.revision = known']]
         /\ job' = [job EXCEPT !.revision = known']
         /\ UNCHANGED busy
    [] OTHER ->
         /\ call' = [call EXCEPT !["states"] = NoCall]
         /\ job' = NoJob
         /\ busy' = FALSE

StateAnswer ==
  /\ call["states"].stage = "answered"
  /\ LET t == Head(pending)
     IN  /\ pending' = Tail(pending)
         /\ known' = IF Acknowledged(t) THEN call["states"].revision ELSE known
         /\ ready' = IF Acknowledged(t) THEN epoch ELSE ready
         /\ evidence' = (evidence \/ (Acknowledged(t) /\ t.for = "switch" /\ t.context = "235"))
         /\ Continue(t)
  /\ UNCHANGED <<workspace, selected, inputs, epoch, result, download, saved, foreign>>

JobEnds ==
  /\ busy' = FALSE
  /\ job' = NoJob
  /\ call' = [call EXCEPT !["job"] = NoCall]
  /\ UNCHANGED <<workspace, selected, epoch, evidence, pending, download, saved, foreign>>

\* Mutant: the result is shown whatever the page shows by now.
CalculateAnswerLate ==
  /\ job.kind = "calculate"
  /\ call["job"].stage = "answered"
  /\ result' = IF call["job"].ok THEN call["job"].result ELSE result
  /\ JobEnds
  /\ UNCHANGED <<inputs, ready, known>>

\* The result is rendered if epoch and revision are still those it was asked for.
CalculateAnswer ==
  /\ job.kind = "calculate"
  /\ call["job"].stage = "answered"
  /\ result' = IF call["job"].ok /\ job.epoch = epoch /\ job.revision = known
               THEN call["job"].result ELSE result
  /\ JobEnds
  /\ UNCHANGED <<inputs, ready, known>>

\* The reviewed packet and its revision are taken over, or the page is not ready.
ReviewAnswer ==
  /\ job.kind = "review"
  /\ call["job"].stage = "answered"
  /\ IF job.epoch # epoch THEN UNCHANGED <<inputs, ready, known>>
     ELSE IF call["job"].ok /\ call["job"].revision = job.revision + 1
     THEN inputs' = call["job"].bundle /\ ready' = epoch /\ known' = call["job"].revision
     ELSE ready' = 0 /\ UNCHANGED <<inputs, known>>
  /\ JobEnds
  /\ UNCHANGED result

\* Mutant: the file is saved when it arrives.
ReportAnswerSaves ==
  /\ call["download"].stage = "answered"
  /\ saved' = IF call["download"].ok THEN call["download"].result ELSE saved
  /\ download' = NoJob
  /\ call' = [call EXCEPT !["download"] = NoCall]
  /\ UNCHANGED <<workspace, selected, inputs, epoch, ready, known, result, evidence, busy,
                 pending, job, foreign>>

\* A report that arrives late is dropped.
ReportAnswer ==
  /\ call["download"].stage = "answered"
  /\ saved' = IF call["download"].ok /\ download.epoch = epoch /\ download.revision = known
              THEN call["download"].result ELSE saved
  /\ download' = NoJob
  /\ call' = [call EXCEPT !["download"] = NoCall]
  /\ UNCHANGED <<workspace, selected, inputs, epoch, ready, known, result, evidence, busy,
                 pending, job, foreign>>

--------------------------------------------------------------------------------
(* Another program, which may guess the present revision.                  *)

ForeignRequest ==
  /\ foreign < MaxForeign
  /\ foreign' = foreign + 1
  /\ \E p \in Programs :
       /\ call[p].stage = "idle"
       /\ \/ call' = [call EXCEPT ![p] = [NoCall EXCEPT !.stage = "sent", !.kind = "calculate",
                                                        !.revision = revision]]
          \/ \E ctx \in Contexts, i \in Inputs :
               call' = [call EXCEPT ![p] = [NoCall EXCEPT !.stage = "sent", !.kind = "state",
                                                          !.context = ctx, !.bundle = BundleOf(ctx, i)]]
  /\ UNCHANGED <<workspace, page>>

ForeignAnswer ==
  /\ \E p \in Programs :
       /\ call[p].stage = "answered"
       /\ call' = [call EXCEPT ![p] = NoCall]
  /\ UNCHANGED <<workspace, page, foreign>>

Server == \E c \in Callers : Serve(c) /\ UNCHANGED <<page, foreign>>

Next ==
  \/ Edit \/ SwitchContext \/ Calculate \/ ReviewProduct \/ Download
  \/ SendState \/ StateAnswer \/ CalculateAnswer \/ ReviewAnswer \/ ReportAnswer
  \/ ForeignRequest \/ ForeignAnswer
  \/ Server

\* Every request has a thread of its own, which the system schedules, and the
\* event loop of the page handles what is sent and answered.  The user and other
\* programs owe nothing.
Fairness ==
  /\ \A c \in Tasks : WF_vars(Serve(c) /\ UNCHANGED <<page, foreign>>)
  /\ WF_vars(SendState) /\ WF_vars(StateAnswer)
  /\ WF_vars(CalculateAnswer) /\ WF_vars(ReviewAnswer)

Spec == Init /\ [][Next]_vars /\ Fairness

--------------------------------------------------------------------------------
(* Properties.                                                             *)

\* Every variable has its type; the page is busy exactly while it has a job, and
\* a state request is under way only for the head of the chain.
TypeOK ==
  /\ context \in Contexts /\ bundle \in Bundles \cup {NoBundle}
  /\ revision \in Nat
  /\ {calculation, product_calculation, result, saved} \subseteq Results \cup {NoResult}
  /\ {running, stuck, evidence, busy} \subseteq BOOLEAN
  /\ \A c \in Callers : call[c].stage \in CallStages /\ call[c].kind \in Kinds
  /\ selected \in Contexts /\ inputs \in Bundles \cup {NoBundle}
  /\ epoch \in 1 .. MaxEpoch /\ ready \in {0, epoch} /\ known \in Nat
  /\ busy <=> job.kind # "none"
  /\ Len(pending) <= epoch
  /\ call["states"].stage # "idle" => pending # <<>>

\* What the page shows as the result was computed from the inputs that the page
\* shows, in the context it shows, however late the answer came (the tokens of
\* capture and active, 23-24, 60-72).
ShownIsCurrent ==
  result # NoResult => result = [context |-> selected, bundle |-> inputs]

\* A file is saved only if it reports what the page shows at that moment; an
\* export is pinned to context, revision and result (download, and report on the
\* server).
SavedIsShown ==
  [][saved' # saved => saved' = [context |-> selected, bundle |-> inputs]]_vars

\* A page that is ready and waits for no state or review agrees with the server
\* on context, inputs and revision, if no other program uses the workspace.
AgreedWhenReady ==
  ready = epoch /\ pending = <<>> /\ job.kind # "review" /\ foreign = 0 =>
    /\ Current = [context |-> selected, bundle |-> inputs]
    /\ known = revision

\* A calculation or review lets the user try again in the end, whatever happened
\* to it: the lock of the page is released.
BusyEnds == busy ~> ~busy

================================================================================
