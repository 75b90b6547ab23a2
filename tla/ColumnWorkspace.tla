------------------------------ MODULE ColumnWorkspace ------------------------------
(***************************************************************************)
(* One workspace of the Column V2 server (apps/column_v2/server.py): the   *)
(* inputs of the active context, the result computed from them, and the    *)
(* requests that change, compute and export them.  Each request runs in a  *)
(* thread of ThreadingHTTPServer.  What a handler does under the lock is   *)
(* one step; the two reference engines run between two locked sections,    *)
(* and then the workspace may have changed under them.                     *)
(*                                                                         *)
(* Inputs are known by name, a packet also by whether a review of the      *)
(* project was added to it; the identity of a result stands for the        *)
(* context and the inputs that its digest covers.                          *)
(***************************************************************************)
EXTENDS Naturals, FiniteSets

CONSTANTS
  Callers,    \* whoever may have one request under way
  Inputs,     \* names of inputs
  WellFormed, \* those that the typed readers accept
  Default,    \* the inputs a context begins with
  AuditFails  \* whether writing the audit file may fail

ASSUME ColumnWorkspaceAssumption ==
  /\ WellFormed \subseteq Inputs
  /\ Default \in WellFormed
  /\ AuditFails \in BOOLEAN

VARIABLES
  context, bundle, revision, calculation, product_calculation, running, \* Workspace
  stuck, \* running was set by a request that left without resetting it
  call   \* the request of each caller

workspace == <<context, bundle, revision, calculation, product_calculation, running, stuck>>

Contexts == {"reference", "reference-owners", "235", "235-product", "qualified"}

Bundles == [inputs : Inputs, reviewed : BOOLEAN]
NoBundle == [inputs |-> "none", reviewed |-> FALSE]
Raw(i) == [inputs |-> i, reviewed |-> FALSE]

\* The context of the accepted evidence has no inputs.
BundleOf(ctx, i) == IF ctx = "235" THEN NoBundle ELSE Raw(i)

\* What a result or a report is about.
Results == [context : Contexts, bundle : Bundles \cup {NoBundle}]
NoResult == [context |-> "none", bundle |-> NoBundle]

Kinds == {"state", "review", "calculate", "report"}

\* A calculation passes from "sent" over the choice of its method to the engine
\* and the finally clause; other requests are answered at once.
CallStages == {"idle", "sent", "others", "owners", "engine", "finally", "answered"}

NoCall == [stage |-> "idle", kind |-> "state", revision |-> 0, context |-> "none",
           bundle |-> NoBundle, result |-> NoResult, ok |-> FALSE]

\* The revision is left to whoever has selected the context.
InitWorkspace ==
  /\ context \in Contexts
  /\ bundle = BundleOf(context, Default)
  /\ calculation = NoResult
  /\ product_calculation = NoResult
  /\ running = FALSE
  /\ stuck = FALSE
  /\ call = [c \in Callers |-> NoCall]

--------------------------------------------------------------------------------
IsBundle(b) == b.inputs \in WellFormed

\* The outcomes of self.record: it raises when the audit file cannot be written.
Recorded == IF AuditFails THEN BOOLEAN ELSE {TRUE}

Current == [context |-> context, bundle |-> bundle]

\* The request is answered, with an error or with what it asked for.
Answered(c, ok, answer) ==
  call' = [call EXCEPT ![c].stage = "answered", ![c].ok = ok,
                       ![c].revision = IF call[c].kind \in {"state", "review"} THEN revision' ELSE @,
                       ![c].bundle = IF call[c].kind = "review" THEN bundle' ELSE @,
                       ![c].result = answer]

Rejected(c) == Answered(c, FALSE, NoResult)

Moves(c, s) == call' = [call EXCEPT ![c].stage = s]

Sent(c, kind) == call[c].stage = "sent" /\ call[c].kind = kind

\* The revision a request names is the current one.
Fresh(c) == call[c].revision = revision

--------------------------------------------------------------------------------
(* Requests that change the inputs.                                        *)

\* ColumnWorkspace.state: whatever becomes of the request, the revision grows and
\* no result is left.  All but the reference context refuse malformed inputs.
State(c) ==
  /\ Sent(c, "state")
  /\ revision' = revision + 1
  /\ context' = call[c].context
  /\ calculation' = NoResult
  /\ product_calculation' = NoResult
  /\ \E recorded \in Recorded :
       LET refused == recorded /\ context' \in {"reference-owners", "235-product", "qualified"}
                        /\ ~IsBundle(call[c].bundle)
       IN  /\ bundle' = IF refused THEN NoBundle ELSE call[c].bundle
           /\ Answered(c, recorded /\ ~refused, NoResult)
  /\ UNCHANGED <<running, stuck>>

\* review_product: a rejected review has already taken the result away.
Review(c) ==
  /\ Sent(c, "review")
  /\ IF context = "235-product" /\ Fresh(c)
     THEN /\ revision' = revision + 1
          /\ calculation' = NoResult
          /\ product_calculation' = NoResult
          /\ \/ /\ IsBundle(bundle)
                /\ bundle' = [bundle EXCEPT !.reviewed = TRUE]
                /\ \E recorded \in Recorded : Answered(c, recorded, NoResult)
             \/ UNCHANGED bundle /\ Rejected(c)
     ELSE /\ UNCHANGED <<revision, bundle, calculation, product_calculation>>
          /\ Rejected(c)
  /\ UNCHANGED <<context, running, stuck>>

--------------------------------------------------------------------------------
(* Calculations.                                                           *)

\* The context is read, and the lock given back before the method is entered.
Choose(c) ==
  /\ Sent(c, "calculate")
  /\ Moves(c, IF context = "reference-owners" THEN "owners" ELSE "others")
  /\ UNCHANGED workspace

\* Mutant: a calculation under way does not keep another one out.
EnterableTwice(c, ctx) == context = ctx /\ Fresh(c) /\ IsBundle(bundle)

\* What keeps an engine from being entered, in context ctx.
Enterable(c, ctx) == context = ctx /\ Fresh(c) /\ ~running /\ IsBundle(bundle)

Enter(c) == call' = [call EXCEPT ![c].stage = "engine", ![c].context = context, ![c].bundle = bundle]

\* calculate_reference_producer.
EnterOwners(c) ==
  /\ call[c].stage = "owners"
  /\ IF Enterable(c, "reference-owners")
     THEN /\ running' = TRUE
          /\ product_calculation' = NoResult
          /\ Enter(c)
     ELSE Rejected(c) /\ UNCHANGED <<running, product_calculation>>
  /\ UNCHANGED <<context, bundle, revision, calculation, stuck>>

\* The engine of the reference context.  ENGINE_ENTERED is recorded after running
\* was set and before the try clause: when this fails, running stays set.
EnterReference(c) ==
  /\ call[c].stage = "others"
  /\ Enterable(c, "reference")
  /\ running' = TRUE
  /\ calculation' = NoResult
  /\ \E recorded \in Recorded :
       /\ stuck' = ~recorded
       /\ IF recorded THEN Enter(c) ELSE Rejected(c)
  /\ UNCHANGED <<context, bundle, revision, product_calculation>>

\* The qualified result was published in the process; it is read again and
\* counts as calculated, even if this cannot be recorded.
ConsumeQualified(c) ==
  /\ call[c].stage = "others"
  /\ context = "qualified" /\ Fresh(c)
  /\ product_calculation' = IF IsBundle(bundle) THEN Current ELSE NoResult
  /\ \/ IsBundle(bundle) /\ \E recorded \in Recorded : Answered(c, recorded, Current)
     \/ ~IsBundle(bundle) /\ Rejected(c)
  /\ UNCHANGED <<context, bundle, revision, calculation, running, stuck>>

\* calculate_product, under the lock from beginning to end.  Its first record
\* comes before the try clause too; what fails later resets running, and the
\* result is kept when only the record of it failed.
CalculateProduct(c) ==
  /\ call[c].stage = "others"
  /\ Enterable(c, "235-product")
  /\ \/ /\ AuditFails
        /\ running' = TRUE /\ stuck' = TRUE
        /\ product_calculation' = NoResult
        /\ Rejected(c)
     \/ /\ product_calculation' = NoResult
        /\ Rejected(c)
        /\ UNCHANGED <<running, stuck>>
     \/ /\ product_calculation' = Current
        /\ \E recorded \in Recorded : Answered(c, recorded, Current)
        /\ UNCHANGED <<running, stuck>>
  /\ UNCHANGED <<context, bundle, revision, calculation>>

\* Nothing that can be calculated here and now.
RefuseCalculation(c) ==
  /\ call[c].stage = "others"
  /\ ~ \/ Enterable(c, "reference") \/ Enterable(c, "235-product")
       \/ context = "qualified" /\ Fresh(c)
  /\ Rejected(c)
  /\ UNCHANGED workspace

\* Mutant: the result of the reference engine is stored whatever happened meanwhile.
ReturnUnchecked(c) ==
  /\ call[c].stage = "engine"
  /\ LET answer == [context |-> call[c].context, bundle |-> call[c].bundle]
     IN  /\ calculation' = IF answer.context = "reference" THEN answer ELSE calculation
         /\ product_calculation' = IF answer.context # "reference" THEN answer ELSE product_calculation
         /\ call' = [call EXCEPT ![c].stage = "finally", ![c].ok = TRUE, ![c].result = answer]
  /\ UNCHANGED <<context, bundle, revision, running, stuck>>

\* The engine returns or raises.  Its result is stored if revision and context are
\* still those it was entered with; a record that fails loses the result of the
\* reference engine, which is recorded first, and only the answer of the other.
Return(c) ==
  /\ call[c].stage = "engine"
  /\ LET answer == [context |-> call[c].context, bundle |-> call[c].bundle]
         current == Fresh(c) /\ context = answer.context
         Stores(x) == IF answer.context = "reference"
                      THEN calculation' = x /\ UNCHANGED product_calculation
                      ELSE product_calculation' = x /\ UNCHANGED calculation
     IN  \/ /\ UNCHANGED <<calculation, product_calculation>>
            /\ call' = [call EXCEPT ![c].stage = "finally", ![c].ok = FALSE]
         \/ /\ current
            /\ Stores(answer)
            /\ \E ok \in IF answer.context = "reference" THEN {TRUE} ELSE Recorded :
                 call' = [call EXCEPT ![c].stage = "finally", ![c].ok = ok, ![c].result = answer]
  /\ UNCHANGED <<context, bundle, revision, running, stuck>>

\* The finally clause.
Finally(c) ==
  /\ call[c].stage = "finally"
  /\ running' = FALSE
  /\ Moves(c, "answered")
  /\ UNCHANGED <<context, bundle, revision, calculation, product_calculation, stuck>>

--------------------------------------------------------------------------------
\* What a report is made of: the stored result of the context, or the evidence.
Reported ==
  CASE context = "235" -> Current
    [] context = "reference" -> calculation
    [] OTHER -> product_calculation

\* The report must be asked for by revision and by the identity of the result;
\* rendering or recording it may fail.
Report(c) ==
  /\ Sent(c, "report")
  /\ \/ /\ Fresh(c)
        /\ context # "235" => Reported # NoResult
        /\ call[c].result = IF context = "235" THEN NoResult ELSE Reported
        /\ Answered(c, TRUE, Reported)
     \/ Rejected(c)
  /\ UNCHANGED workspace

Serve(c) ==
  \/ State(c) \/ Review(c) \/ Choose(c) \/ EnterOwners(c) \/ EnterReference(c)
  \/ ConsumeQualified(c) \/ CalculateProduct(c) \/ RefuseCalculation(c)
  \/ Return(c) \/ Finally(c) \/ Report(c)

--------------------------------------------------------------------------------
(* Properties of the server, for any callers.                              *)

Inside == {c \in Callers : call[c].stage \in {"engine", "finally"}}

\* A stored result was computed from the inputs the workspace has now, in its
\* present context, although the engines run without the lock (142-145, 216-219).
StoredResultIsCurrent ==
  /\ calculation # NoResult => calculation = Current /\ context = "reference"
  /\ product_calculation # NoResult => product_calculation = Current
                                         /\ context \notin {"reference", "235"}

\* At most one request is inside an engine, and running says that one is; but for
\* one whose entry could not be recorded, after which running never falls again.
RunningIsTrue ==
  /\ Cardinality(Inside) <= 1
  /\ running <=> Inside # {} \/ stuck

================================================================================
