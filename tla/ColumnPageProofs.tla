------------------------------ MODULE ColumnPageProofs ------------------------------
(***************************************************************************)
(* Theorems about the page and the server of the Column V2 application,    *)
(* for any inputs, any number of transitions and any programs that use the *)
(* same workspace.                                                         *)
(***************************************************************************)
EXTENDS ColumnPage, FiniteSetTheorems, SequenceTheorems, TLAPS

--------------------------------------------------------------------------------
(* The inductive invariant.                                                *)

MaybeBundles == Bundles \cup {NoBundle}

Requests ==
  [stage : CallStages, kind : Kinds, revision : Nat, context : Contexts \cup {"none"},
   bundle : MaybeBundles, result : Results \cup {NoResult}, ok : BOOLEAN]

Tokens ==
  [context : Contexts, bundle : MaybeBundles, epoch : Nat,
   for : {"edit", "switch", "calculate", "review"}]

Jobs == [kind : {"none", "calculate", "review", "report"}, epoch : Nat, revision : Nat]

TypeInv ==
  /\ context \in Contexts /\ bundle \in MaybeBundles
  /\ revision \in Nat
  /\ {calculation, product_calculation, result, saved} \subseteq Results \cup {NoResult}
  /\ {running, stuck, evidence, busy} \subseteq BOOLEAN
  /\ call \in [Callers -> Requests]
  /\ \A c \in Callers : Sent(c, "state") => call[c].context \in Contexts
  /\ selected \in Contexts /\ inputs \in MaybeBundles
  /\ epoch \in 1 .. MaxEpoch /\ ready \in {0, epoch} /\ known \in Nat
  /\ pending \in Seq(Tokens)
  /\ Len(pending) <= epoch
  /\ job \in Jobs /\ download \in Jobs
  /\ foreign \in Nat

\* A request inside an engine remembers the inputs that were there at its
\* revision; while that is the present one, they still are.
EngineInv ==
  \A c \in Callers : call[c].stage = "engine" =>
    /\ call[c].context \in {"reference", "reference-owners"}
    /\ call[c].revision <= revision
    /\ call[c].revision = revision => Current = [context |-> call[c].context, bundle |-> call[c].bundle]

RunningInv ==
  /\ \A c, d \in Inside : c = d
  /\ running <=> Inside # {} \/ stuck
  /\ stuck => Inside = {}

\* The chain of the page: its tokens are of ascending epochs, the last of them of
\* the present one until it is acknowledged, and only the first is with the server.
ChainInv ==
  /\ \A i \in 1 .. Len(pending) : pending[i].epoch <= epoch
  /\ \A i, j \in 1 .. Len(pending) : i < j => pending[i].epoch < pending[j].epoch
  /\ \A i \in 1 .. Len(pending) : pending[i].epoch = epoch =>
       pending[i].context = selected /\ pending[i].bundle = inputs
  /\ ready = epoch => pending = <<>>
  /\ call["states"].stage # "idle" =>
       /\ pending # <<>>
       /\ call["states"].kind = "state"
       /\ call["states"].stage \in {"sent", "answered"}
       /\ call["states"].context = pending[1].context
       /\ call["states"].bundle = pending[1].bundle

\* The job of the page waits for its token, then for its request.
JobInv ==
  /\ busy <=> job.kind # "none"
  /\ job.kind # "report"
  /\ job.epoch <= epoch
  /\ ~busy => call["job"].stage = "idle"
  /\ \A i \in 1 .. Len(pending) : pending[i].for \in {"calculate", "review"} =>
       /\ busy /\ call["job"].stage = "idle"
       /\ pending[i].for = job.kind /\ pending[i].epoch = job.epoch
  /\ busy /\ job.epoch = epoch =>
       /\ result = NoResult
       /\ job.kind = "review" => selected = "235-product"
       /\ job.kind = "calculate" => selected # "235"
  /\ call["job"].stage # "idle" =>
       /\ call["job"].kind = job.kind
       /\ job.kind = "review" => call["job"].stage \in {"sent", "answered"}
       /\ job.revision <= known
       /\ job.epoch = epoch => ready = epoch /\ job.revision = known
       /\ job.epoch # epoch /\ ready = epoch => job.revision < known
       /\ call["job"].stage # "answered" \/ job.kind = "calculate" =>
            call["job"].revision = job.revision

DownloadInv ==
  /\ download.kind = "none" => call["download"].stage = "idle"
  /\ download.kind # "none" => call["download"].stage \in {"sent", "answered"} /\ call["download"].kind = "report"
  /\ download.kind # "none" /\ download.epoch = epoch =>
       /\ ready = epoch /\ known = download.revision
       /\ busy => job.epoch # epoch
  /\ download.epoch <= epoch
  /\ call["download"].stage = "sent" => call["download"].revision = download.revision

Shown == [context |-> selected, bundle |-> inputs]

\* Page and server agree on what belongs to a revision that both know.
AgreeInv ==
  /\ known <= revision
  /\ ready = epoch /\ known = revision => Current = Shown
  /\ call["states"].stage = "answered" =>
       /\ known < call["states"].revision /\ call["states"].revision <= revision
       /\ call["states"].ok /\ call["states"].revision = revision =>
            Current = [context |-> call["states"].context, bundle |-> call["states"].bundle]
  /\ job.kind = "review" /\ call["job"].stage = "answered" /\ call["job"].ok =>
       /\ call["job"].revision <= revision
       /\ call["job"].revision = revision =>
            Current = [context |-> "235-product", bundle |-> call["job"].bundle]

\* What is on its way to the page for the present epoch is of what it shows.
AnswerInv ==
  /\ job.kind = "calculate" /\ job.epoch = epoch /\ call["job"].stage = "engine" =>
       [context |-> call["job"].context, bundle |-> call["job"].bundle] = Shown
  /\ job.kind = "calculate" /\ job.epoch = epoch /\ call["job"].stage \in {"finally", "answered"}
       /\ call["job"].ok => call["job"].result = Shown
  /\ download.kind # "none" /\ download.epoch = epoch /\ call["download"].stage = "answered"
       /\ call["download"].ok => call["download"].result = Shown

\* Without other programs the page knows the revision of the server, unless a
\* review that it waits for has changed it.
AloneInv ==
  foreign = 0 =>
    /\ \A p \in Programs : call[p].stage = "idle"
    /\ ready = epoch =>
         \/ known = revision
         \/ job.kind = "review" /\ job.epoch = epoch /\ call["job"].stage = "answered"
    /\ job.kind = "review" /\ job.epoch = epoch /\ call["job"].stage = "answered" /\ call["job"].ok =>
         call["job"].revision = revision
    /\ call["states"].stage = "answered" => call["states"].revision = revision

IInv ==
  /\ TypeInv /\ EngineInv /\ StoredResultIsCurrent /\ RunningInv
  /\ ChainInv /\ JobInv /\ DownloadInv /\ AgreeInv /\ AnswerInv /\ AloneInv
  /\ ShownIsCurrent

--------------------------------------------------------------------------------
(* What is used below of the constants, of sequences and of records.       *)

LEMMA TheTasks == {"states", "job", "download"} \subseteq Callers /\ Programs \subseteq Callers
  BY ColumnPageAssumption DEF Tasks

LEMMA ProgramsAreOthers ==
  ASSUME NEW p \in Programs
  PROVE  p # "states" /\ p # "job" /\ p # "download"
  BY ColumnPageAssumption DEF Tasks

LEMMA Appended ==
  ASSUME NEW s \in Seq(Tokens), NEW t \in Tokens
  PROVE  /\ Append(s, t) \in Seq(Tokens)
         /\ Append(s, t) # <<>>
         /\ Len(Append(s, t)) = Len(s) + 1
         /\ \A i \in 1 .. Len(s) : Append(s, t)[i] = s[i]
         /\ Append(s, t)[Len(s) + 1] = t
  BY AppendProperties

LEMMA Rest ==
  ASSUME NEW s \in Seq(Tokens), s # <<>>
  PROVE  /\ Len(s) \in Nat \ {0}
         /\ Head(s) = s[1] /\ Head(s) \in Tokens
         /\ Tail(s) \in Seq(Tokens)
         /\ Len(Tail(s)) = Len(s) - 1
         /\ \A i \in 1 .. Len(Tail(s)) : Tail(s)[i] = s[i + 1]
  BY HeadTailProperties, EmptySeq

LEMMA Starting == Init => IInv
<1> SUFFICES ASSUME Init
             PROVE  IInv
  OBVIOUS
<1> USE DEF Init, InitWorkspace
<1>1. Callers = Tasks \cup Programs /\ Default \in Inputs /\ MaxEpoch \in Nat \ {0}
  BY ColumnPageAssumption, ColumnWorkspaceAssumption
<1>2. \A c \in Callers : call[c] = NoCall
  OBVIOUS
<1>3. TypeInv
  <2>1. NoCall \in Requests
    BY DEF NoCall, Requests, CallStages, Kinds, MaybeBundles
  <2>2. bundle \in MaybeBundles
    BY <1>1 DEF MaybeBundles, BundleOf, Raw, Bundles
  <2>3. <<>> \in Seq(Tokens) /\ Len(<<>>) = 0
    BY EmptySeq
  <2>4. NoJob \in Jobs
    BY DEF NoJob, Jobs
  <2>5. /\ context \in Contexts /\ revision \in Nat /\ selected \in Contexts
        /\ known \in Nat /\ foreign \in Nat
        /\ epoch \in 1 .. MaxEpoch /\ ready \in {0, epoch}
    BY <1>1, SMT
  <2>6. /\ {calculation, product_calculation, result, saved} \subseteq Results \cup {NoResult}
        /\ {running, stuck, evidence, busy} \subseteq BOOLEAN
    <3>1. evidence \in BOOLEAN
      BY Zenon
    <3> QED
      BY <3>1
  <2>7. call \in [Callers -> Requests] /\ \A c \in Callers : Sent(c, "state") => call[c].context \in Contexts
    BY <1>2, <2>1 DEF Sent, NoCall
  <2> QED
    BY <2>2, <2>3, <2>4, <2>5, <2>6, <2>7 DEF TypeInv
<1>4. EngineInv /\ RunningInv
  BY <1>2 DEF EngineInv, RunningInv, Inside, NoCall
<1>5. StoredResultIsCurrent /\ ShownIsCurrent
  BY DEF StoredResultIsCurrent, ShownIsCurrent
<1>6. ChainInv /\ JobInv /\ DownloadInv
  BY <1>2, TheTasks DEF ChainInv, JobInv, DownloadInv, NoCall, NoJob
<1>7. AgreeInv /\ AnswerInv /\ AloneInv
  BY <1>2, TheTasks, ColumnPageAssumption DEF AgreeInv, AnswerInv, AloneInv, NoCall, NoJob, Current, Shown
<1> QED
  BY <1>3, <1>4, <1>5, <1>6, <1>7 DEF IInv

--------------------------------------------------------------------------------
(* What the steps of the server do to the requests.                        *)

\* Only the request of c changes.
OnlyOf(c) ==
  /\ call' \in [Callers -> Requests]
  /\ \A d \in Callers \ {c} : call'[d] = call[d]

LEMMA AnsweredCall ==
  ASSUME TypeInv, NEW c \in Callers, NEW ok \in BOOLEAN, NEW x \in Results \cup {NoResult},
         Answered(c, ok, x), revision' \in Nat, bundle' \in MaybeBundles
  PROVE  /\ OnlyOf(c)
         /\ call'[c].stage = "answered" /\ call'[c].ok = ok /\ call'[c].result = x
         /\ call'[c].kind = call[c].kind /\ call'[c].context = call[c].context
         /\ call'[c].revision = IF call[c].kind \in {"state", "review"} THEN revision' ELSE call[c].revision
         /\ call'[c].bundle = IF call[c].kind = "review" THEN bundle' ELSE call[c].bundle
<1>1. call \in [Callers -> Requests] /\ call[c] \in Requests
  BY DEF TypeInv
<1>2. \A d \in Callers \ {c} : call'[d] = call[d]
  BY <1>1 DEF Answered
<1>3. call' \in [Callers -> Requests]
  BY <1>1 DEF Answered, Requests, CallStages
<1>4. /\ call'[c].stage = "answered" /\ call'[c].ok = ok /\ call'[c].result = x
      /\ call'[c].kind = call[c].kind /\ call'[c].context = call[c].context
  BY <1>1 DEF Answered, Requests
<1>5. call'[c].revision = IF call[c].kind \in {"state", "review"} THEN revision' ELSE call[c].revision
  BY <1>1 DEF Answered, Requests
<1>6. call'[c].bundle = IF call[c].kind = "review" THEN bundle' ELSE call[c].bundle
  BY <1>1 DEF Answered, Requests
<1> QED
  BY <1>2, <1>3, <1>4, <1>5, <1>6 DEF OnlyOf

LEMMA RejectedCall ==
  ASSUME TypeInv, NEW c \in Callers, Rejected(c), revision' \in Nat, bundle' \in MaybeBundles
  PROVE  /\ OnlyOf(c)
         /\ call'[c].stage = "answered" /\ ~call'[c].ok /\ call'[c].kind = call[c].kind
         /\ call'[c].context = call[c].context
         /\ call'[c].revision = IF call[c].kind \in {"state", "review"} THEN revision' ELSE call[c].revision
<1>1. Answered(c, FALSE, NoResult)
  BY DEF Rejected
<1> QED
  BY <1>1, AnsweredCall, Zenon

LEMMA MovedCall ==
  ASSUME TypeInv, NEW c \in Callers, NEW s \in CallStages, Moves(c, s)
  PROVE  /\ OnlyOf(c)
         /\ call'[c].stage = s
         /\ call'[c].kind = call[c].kind /\ call'[c].revision = call[c].revision
         /\ call'[c].context = call[c].context /\ call'[c].bundle = call[c].bundle
         /\ call'[c].result = call[c].result /\ call'[c].ok = call[c].ok
<1>1. call \in [Callers -> Requests] /\ call[c] \in Requests
  BY DEF TypeInv
<1> QED
  BY <1>1 DEF Moves, OnlyOf, Requests

LEMMA EnteredCall ==
  ASSUME TypeInv, NEW c \in Callers, Enter(c)
  PROVE  /\ OnlyOf(c)
         /\ call'[c].stage = "engine"
         /\ call'[c].kind = call[c].kind /\ call'[c].revision = call[c].revision
         /\ call'[c].context = context /\ call'[c].bundle = bundle
         /\ call'[c].result = call[c].result /\ call'[c].ok = call[c].ok
<1>1. call \in [Callers -> Requests] /\ call[c] \in Requests /\ context \in Contexts /\ bundle \in MaybeBundles
  BY DEF TypeInv
<1> QED
  BY <1>1 DEF Enter, OnlyOf, Requests, CallStages

AnswerOf(c) == [context |-> call[c].context, bundle |-> call[c].bundle]

\* The engine raised, or returned what its present inputs give.
LEMMA ReturnedCall ==
  ASSUME TypeInv, EngineInv, NEW c \in Callers, Return(c)
  PROVE  /\ OnlyOf(c)
         /\ call[c].stage = "engine" /\ call'[c].stage = "finally"
         /\ call'[c].kind = call[c].kind /\ call'[c].revision = call[c].revision
         /\ call'[c].context = call[c].context /\ call'[c].bundle = call[c].bundle
         /\ UNCHANGED <<context, bundle, revision, running, stuck>>
         /\ \/ ~call'[c].ok /\ UNCHANGED <<calculation, product_calculation>>
            \/ /\ Fresh(c) /\ context = call[c].context
               /\ call'[c].result = AnswerOf(c)
               /\ \/ /\ context = "reference"
                     /\ calculation' = AnswerOf(c) /\ UNCHANGED product_calculation
                  \/ /\ context = "reference-owners"
                     /\ product_calculation' = AnswerOf(c) /\ UNCHANGED calculation
<1>1. call \in [Callers -> Requests] /\ call[c] \in Requests
  BY DEF TypeInv
<1>2. call[c].stage = "engine" /\ call[c].context \in {"reference", "reference-owners"}
  BY DEF Return, EngineInv
<1>3. AnswerOf(c) \in Results
  BY <1>1, <1>2 DEF AnswerOf, Results, Requests, MaybeBundles, Contexts
<1>4. CASE /\ UNCHANGED <<calculation, product_calculation>>
           /\ call' = [call EXCEPT ![c].stage = "finally", ![c].ok = FALSE]
  BY <1>1, <1>2, <1>4 DEF Return, OnlyOf, Requests, CallStages
<1>5. ASSUME NEW ok \in BOOLEAN, Fresh(c), context = call[c].context,
             call' = [call EXCEPT ![c].stage = "finally", ![c].ok = ok, ![c].result = AnswerOf(c)]
      PROVE  /\ OnlyOf(c)
             /\ call'[c].stage = "finally" /\ call'[c].result = AnswerOf(c)
             /\ call'[c].kind = call[c].kind /\ call'[c].revision = call[c].revision
             /\ call'[c].context = call[c].context /\ call'[c].bundle = call[c].bundle
  BY <1>1, <1>3, <1>5 DEF OnlyOf, Requests, CallStages
<1> QED
  BY <1>2, <1>4, <1>5 DEF Return, AnswerOf, Recorded

--------------------------------------------------------------------------------
(* What each step of the server does, request and workspace together.      *)

LEMMA StateEffect ==
  ASSUME TypeInv, NEW c \in Callers, State(c)
  PROVE  /\ OnlyOf(c)
         /\ Sent(c, "state") /\ call'[c].stage = "answered" /\ call'[c].kind = "state"
         /\ call'[c].context = call[c].context /\ call'[c].bundle = call[c].bundle
         /\ revision' = revision + 1 /\ call'[c].revision = revision'
         /\ context' = call[c].context /\ context' \in Contexts /\ bundle' \in MaybeBundles
         /\ call'[c].ok => bundle' = call[c].bundle
         /\ calculation' = NoResult /\ product_calculation' = NoResult
         /\ UNCHANGED <<running, stuck>>
<1>1. /\ call[c] \in Requests /\ revision \in Nat
      /\ call[c].kind = "state" /\ context' = call[c].context /\ context' \in Contexts
      /\ revision' = revision + 1
  BY DEF TypeInv, State, Sent
<1>2. PICK recorded \in BOOLEAN :
        LET refused == recorded /\ context' \in {"reference-owners", "235-product", "qualified"}
                         /\ ~IsBundle(call[c].bundle)
        IN  /\ bundle' = IF refused THEN NoBundle ELSE call[c].bundle
            /\ Answered(c, recorded /\ ~refused, NoResult)
  BY DEF State, Recorded
<1> DEFINE refused == recorded /\ context' \in {"reference-owners", "235-product", "qualified"}
                         /\ ~IsBundle(call[c].bundle)
           ok == recorded /\ ~refused
<1>5. ok \in BOOLEAN /\ NoResult \in Results \cup {NoResult}
  BY Zenon
<1>6. ok => ~refused
  BY Zenon
<1>3. bundle' \in MaybeBundles
  BY <1>1, <1>2 DEF Requests, MaybeBundles
<1>7. Answered(c, ok, NoResult) /\ bundle' = IF refused THEN NoBundle ELSE call[c].bundle
  BY <1>2
<1> HIDE DEF refused, ok
<1>4. /\ OnlyOf(c)
      /\ call'[c].stage = "answered" /\ call'[c].ok = ok
      /\ call'[c].kind = call[c].kind /\ call'[c].context = call[c].context
      /\ call'[c].revision = revision' /\ call'[c].bundle = call[c].bundle
  BY <1>1, <1>3, <1>5, <1>7, AnsweredCall
<1> QED
  BY <1>1, <1>3, <1>4, <1>6, <1>7 DEF State

LEMMA ReviewEffect ==
  ASSUME TypeInv, NEW c \in Callers, Review(c)
  PROVE  /\ OnlyOf(c)
         /\ Sent(c, "review") /\ call'[c].stage = "answered" /\ call'[c].kind = "review"
         /\ bundle' \in MaybeBundles
         /\ \/ UNCHANGED <<revision, bundle, calculation, product_calculation>> /\ ~call'[c].ok
            \/ /\ context = "235-product" /\ Fresh(c)
               /\ revision' = revision + 1
               /\ calculation' = NoResult /\ product_calculation' = NoResult
         /\ call'[c].ok =>
              /\ context = "235-product" /\ Fresh(c)
              /\ revision' = revision + 1 /\ call'[c].revision = revision'
              /\ call'[c].bundle = bundle'
         /\ UNCHANGED <<context, running, stuck>>
<1>1. /\ call[c] \in Requests /\ revision \in Nat /\ call[c].kind = "review" /\ bundle \in MaybeBundles
      /\ NoResult \in Results \cup {NoResult}
  BY DEF TypeInv, Review, Sent
<1>2. CASE /\ context = "235-product" /\ Fresh(c) /\ revision' = revision + 1
           /\ calculation' = NoResult /\ product_calculation' = NoResult
           /\ UNCHANGED bundle /\ Rejected(c)
  BY <1>1, <1>2, RejectedCall DEF Review
<1>3. CASE UNCHANGED <<revision, bundle, calculation, product_calculation>> /\ Rejected(c)
  BY <1>1, <1>3, RejectedCall DEF Review
<1>4. ASSUME context = "235-product" /\ Fresh(c), revision' = revision + 1,
             calculation' = NoResult /\ product_calculation' = NoResult,
             IsBundle(bundle), bundle' = [bundle EXCEPT !.reviewed = TRUE],
             NEW recorded \in BOOLEAN, Answered(c, recorded, NoResult)
      PROVE  /\ OnlyOf(c) /\ bundle' \in MaybeBundles
             /\ call'[c].stage = "answered" /\ call'[c].kind = "review"
             /\ call'[c].revision = revision' /\ call'[c].bundle = bundle'
  <2>1. bundle' \in MaybeBundles
    BY <1>1, <1>4, ColumnWorkspaceAssumption DEF MaybeBundles, Bundles, NoBundle, IsBundle
  <2>2. revision' \in Nat
    BY <1>1, <1>4
  <2>3. Answered(c, recorded, NoResult)
    BY <1>4
  <2> QED
    BY <1>1, <2>1, <2>2, <2>3, AnsweredCall
<1> QED
  BY <1>2, <1>3, <1>4 DEF Review, Recorded

\* Steps of a calculation before and after an engine.
LEMMA CalculationEffect ==
  ASSUME TypeInv, NEW c \in Callers,
         Choose(c) \/ ConsumeQualified(c) \/ CalculateProduct(c) \/ RefuseCalculation(c)
  PROVE  /\ OnlyOf(c)
         /\ \/ Sent(c, "calculate") /\ call'[c].stage \in {"others", "owners"} /\ ~call'[c].ok = ~call[c].ok
            \/ call[c].stage = "others" /\ call'[c].stage = "answered"
         /\ call'[c].kind = call[c].kind
         /\ call'[c].kind \in {"state", "review"} \/ call'[c].revision = call[c].revision
         /\ call'[c].stage = "answered" /\ call'[c].ok => call'[c].result = Current /\ Fresh(c)
         /\ UNCHANGED <<context, bundle, revision, calculation>>
         /\ \/ UNCHANGED product_calculation
            \/ product_calculation' = NoResult
            \/ product_calculation' = Current /\ context \notin {"reference", "235"}
         /\ \/ UNCHANGED <<running, stuck>>
            \/ ~running /\ running' /\ stuck'
<1>1. /\ call[c] \in Requests /\ revision \in Nat /\ bundle \in MaybeBundles
      /\ Current \in Results /\ NoResult \in Results \cup {NoResult}
  BY DEF TypeInv, Current, Results, MaybeBundles
<1>2. CASE Choose(c)
  BY <1>1, <1>2, MovedCall DEF Choose, Sent, CallStages, workspace
<1>3. CASE ConsumeQualified(c)
  <2>1. CASE IsBundle(bundle) /\ \E recorded \in BOOLEAN : Answered(c, recorded, Current)
    BY <1>1, <1>3, <2>1, AnsweredCall DEF ConsumeQualified
  <2>2. CASE ~IsBundle(bundle) /\ Rejected(c)
    BY <1>1, <1>3, <2>2, RejectedCall DEF ConsumeQualified
  <2> QED
    BY <1>3, <2>1, <2>2 DEF ConsumeQualified, Recorded
<1>4. CASE CalculateProduct(c)
  <2>1. CASE \E recorded \in BOOLEAN : Answered(c, recorded, Current)
    BY <1>1, <1>4, <2>1, AnsweredCall DEF CalculateProduct, Enterable
  <2>2. CASE Rejected(c)
    BY <1>1, <1>4, <2>2, RejectedCall DEF CalculateProduct, Enterable
  <2> QED
    BY <1>4, <2>1, <2>2 DEF CalculateProduct, Recorded
<1>5. CASE RefuseCalculation(c)
  BY <1>1, <1>5, RejectedCall DEF RefuseCalculation, workspace
<1> QED
  BY <1>2, <1>3, <1>4, <1>5

LEMMA EnterEffect ==
  ASSUME TypeInv, NEW c \in Callers, EnterOwners(c) \/ EnterReference(c)
  PROVE  /\ OnlyOf(c)
         /\ call[c].stage \in {"others", "owners"}
         /\ call'[c].kind = call[c].kind
         /\ call'[c].kind \in {"state", "review"} \/ call'[c].revision = call[c].revision
         /\ UNCHANGED <<context, bundle, revision>>
         /\ calculation' \in {calculation, NoResult}
         /\ product_calculation' \in {product_calculation, NoResult}
         /\ \/ /\ call'[c].stage = "engine"
               /\ context \in {"reference", "reference-owners"} /\ Fresh(c)
               /\ call'[c].context = context /\ call'[c].bundle = bundle
               /\ call'[c].revision = call[c].revision
               /\ call'[c].ok = call[c].ok
               /\ ~running /\ running' /\ (stuck' => stuck)
            \/ /\ call'[c].stage = "answered" /\ ~call'[c].ok
               /\ \/ UNCHANGED <<running, stuck>>
                  \/ ~running /\ running' /\ stuck'
<1>1. /\ call[c] \in Requests /\ revision \in Nat /\ bundle \in MaybeBundles
      /\ stuck \in BOOLEAN
  BY DEF TypeInv
<1>2. CASE EnterOwners(c)
  <2>1. CASE Enterable(c, "reference-owners")
    <3>1. Enter(c)
      BY <1>2, <2>1 DEF EnterOwners
    <3> QED
      BY <1>1, <1>2, <2>1, <3>1, EnteredCall DEF EnterOwners, Enterable
  <2>2. CASE ~Enterable(c, "reference-owners")
    <3>1. Rejected(c)
      BY <1>2, <2>2 DEF EnterOwners
    <3> QED
      BY <1>1, <1>2, <2>2, <3>1, RejectedCall DEF EnterOwners
  <2> QED
    BY <2>1, <2>2
<1>3. CASE EnterReference(c)
  <2>1. CASE Enter(c) /\ ~stuck'
    BY <1>1, <1>3, <2>1, EnteredCall DEF EnterReference, Enterable
  <2>2. CASE Rejected(c) /\ stuck'
    BY <1>1, <1>3, <2>2, RejectedCall DEF EnterReference, Enterable
  <2> QED
    BY <1>3, <2>1, <2>2 DEF EnterReference, Recorded
<1> QED
  BY <1>2, <1>3

LEMMA FinallyEffect ==
  ASSUME TypeInv, NEW c \in Callers, Finally(c)
  PROVE  /\ OnlyOf(c)
         /\ call[c].stage = "finally" /\ call'[c].stage = "answered"
         /\ call'[c].kind = call[c].kind /\ call'[c].revision = call[c].revision
         /\ call'[c].result = call[c].result /\ call'[c].ok = call[c].ok
         /\ ~running'
         /\ UNCHANGED <<context, bundle, revision, calculation, product_calculation, stuck>>
  BY MovedCall DEF Finally, CallStages

LEMMA ReportEffect ==
  ASSUME TypeInv, NEW c \in Callers, Report(c)
  PROVE  /\ OnlyOf(c)
         /\ Sent(c, "report") /\ call'[c].stage = "answered" /\ call'[c].kind = "report"
         /\ UNCHANGED workspace
         /\ call'[c].ok => /\ Fresh(c) /\ call'[c].result = Reported
                           /\ context # "235" => Reported # NoResult
<1>1. /\ call[c] \in Requests /\ revision \in Nat /\ bundle \in MaybeBundles
      /\ Reported \in Results \cup {NoResult}
  BY DEF TypeInv, Reported, Current, Results, MaybeBundles
<1>2. UNCHANGED workspace /\ Sent(c, "report") /\ revision' = revision /\ bundle' = bundle
  BY DEF Report, workspace
<1>3. CASE Answered(c, TRUE, Reported) /\ Fresh(c) /\ (context # "235" => Reported # NoResult)
  BY <1>1, <1>2, <1>3, AnsweredCall DEF Sent
<1>4. CASE Rejected(c)
  BY <1>1, <1>2, <1>4, RejectedCall DEF Sent
<1> QED
  BY <1>3, <1>4 DEF Report

--------------------------------------------------------------------------------
(* The server preserves the invariant, whoever it serves.                  *)

LEMMA ServerTypes ==
  ASSUME TypeInv, EngineInv, NEW c \in Callers, Serve(c), UNCHANGED <<page, foreign>>
  PROVE  TypeInv'
<1>1. SUFFICES /\ OnlyOf(c) /\ call'[c].stage # "sent"
               /\ context' \in Contexts /\ bundle' \in MaybeBundles /\ revision' \in Nat
               /\ calculation' \in Results \cup {NoResult}
               /\ product_calculation' \in Results \cup {NoResult}
               /\ running' \in BOOLEAN /\ stuck' \in BOOLEAN
  BY DEF TypeInv, OnlyOf, page, Sent
<1>2. /\ context \in Contexts /\ bundle \in MaybeBundles /\ revision \in Nat
      /\ calculation \in Results \cup {NoResult} /\ product_calculation \in Results \cup {NoResult}
      /\ running \in BOOLEAN /\ stuck \in BOOLEAN
      /\ call[c] \in Requests
  BY DEF TypeInv
<1>3. Current \in Results /\ (context \in Contexts => AnswerOf(c) \in Results \/ call[c].context = "none")
  BY <1>2 DEF Current, AnswerOf, Results, Requests, MaybeBundles
<1>4. CASE State(c)
  BY <1>2, <1>4, StateEffect
<1>5. CASE Review(c)
  BY <1>2, <1>5, ReviewEffect
<1>6. CASE Choose(c) \/ ConsumeQualified(c) \/ CalculateProduct(c) \/ RefuseCalculation(c)
  <2>1. running' \in BOOLEAN /\ stuck' \in BOOLEAN
    BY <1>2, <1>6, Zenon DEF Choose, ConsumeQualified, CalculateProduct, RefuseCalculation, workspace
  <2> QED
    BY <1>2, <1>3, <1>6, <2>1, CalculationEffect
<1>7. CASE EnterOwners(c) \/ EnterReference(c)
  <2>1. running' \in BOOLEAN /\ stuck' \in BOOLEAN
    BY <1>2, <1>7, Zenon DEF EnterOwners, EnterReference
  <2> QED
    BY <1>2, <1>7, <2>1, EnterEffect
<1>8. CASE Return(c)
  BY <1>2, <1>3, <1>8, ReturnedCall DEF EngineInv
<1>9. CASE Finally(c)
  <2>1. running' \in BOOLEAN
    BY <1>9, Zenon DEF Finally
  <2> QED
    BY <1>2, <1>9, <2>1, FinallyEffect
<1>10. CASE Report(c)
  BY <1>2, <1>10, ReportEffect DEF workspace
<1> QED
  BY <1>4, <1>5, <1>6, <1>7, <1>8, <1>9, <1>10 DEF Serve

LEMMA ServerEngines ==
  ASSUME TypeInv, EngineInv, StoredResultIsCurrent, NEW c \in Callers, Serve(c)
  PROVE  EngineInv' /\ StoredResultIsCurrent'
<1> USE DEF OnlyOf, EngineInv, StoredResultIsCurrent, Current, Fresh
<1>1. revision \in Nat /\ \A d \in Callers : call[d].revision \in Nat
  BY DEF TypeInv, Requests
<1>2. CASE State(c)
  BY <1>1, <1>2, StateEffect
<1>3. CASE Review(c)
  BY <1>1, <1>3, ReviewEffect
<1>4. CASE Choose(c) \/ ConsumeQualified(c) \/ CalculateProduct(c) \/ RefuseCalculation(c)
  BY <1>1, <1>4, CalculationEffect
<1>5. CASE EnterOwners(c) \/ EnterReference(c)
  BY <1>1, <1>5, EnterEffect
<1>6. CASE Return(c)
  <2>1. /\ call[c].stage = "engine" /\ call'[c].stage = "finally"
        /\ \A d \in Callers \ {c} : call'[d] = call[d]
        /\ UNCHANGED <<context, bundle, revision>>
        /\ \/ UNCHANGED <<calculation, product_calculation>>
           \/ /\ call[c].revision = revision
              /\ \/ /\ context = "reference"
                    /\ calculation' = AnswerOf(c) /\ UNCHANGED product_calculation
                 \/ /\ context = "reference-owners"
                    /\ product_calculation' = AnswerOf(c) /\ UNCHANGED calculation
    BY <1>6, ReturnedCall
  <2>2. call[c].revision = revision => [context |-> context, bundle |-> bundle] = AnswerOf(c)
    BY <2>1 DEF AnswerOf
  <2>3. EngineInv'
    BY <2>1
  <2>4. StoredResultIsCurrent'
    BY <2>1, <2>2
  <2> QED
    BY <2>3, <2>4
<1>7. CASE Finally(c)
  BY <1>1, <1>7, FinallyEffect
<1>8. CASE Report(c)
  BY <1>1, <1>8, ReportEffect DEF workspace
<1> QED
  BY <1>2, <1>3, <1>4, <1>5, <1>6, <1>7, <1>8 DEF Serve

LEMMA ServerRunning ==
  ASSUME TypeInv, EngineInv, RunningInv, NEW c \in Callers, Serve(c)
  PROVE  RunningInv'
<1> USE DEF OnlyOf, RunningInv, Inside
<1>2. CASE State(c)
  BY <1>2, StateEffect DEF Sent
<1>3. CASE Review(c)
  BY <1>3, ReviewEffect DEF Sent
<1>4. CASE Choose(c) \/ ConsumeQualified(c) \/ CalculateProduct(c) \/ RefuseCalculation(c)
  BY <1>4, CalculationEffect DEF Sent
<1>5. CASE EnterOwners(c) \/ EnterReference(c)
  BY <1>5, EnterEffect
<1>6. CASE Return(c)
  BY <1>6, ReturnedCall
<1>7. CASE Finally(c)
  BY <1>7, FinallyEffect
<1>8. CASE Report(c)
  BY <1>8, ReportEffect DEF Sent, workspace
<1> QED
  BY <1>2, <1>3, <1>4, <1>5, <1>6, <1>7, <1>8 DEF Serve

\* A revision of the server has one context and one bundle.
LEMMA ServerRevisions ==
  ASSUME TypeInv, EngineInv, NEW c \in Callers, Serve(c)
  PROVE  /\ OnlyOf(c)
         /\ call[c].stage # "idle" /\ call'[c].stage # "idle" /\ call'[c].kind = call[c].kind
         /\ revision \in Nat /\ revision' \in {revision, revision + 1}
         /\ revision' = revision => UNCHANGED <<context, bundle>>
         /\ revision' # revision => call[c].kind \in {"state", "review"} /\ call[c].stage = "sent"
                                      /\ call'[c].stage = "answered"
         /\ revision' # revision /\ call[c].kind = "review" => Fresh(c)
<1>1. revision \in Nat
  BY DEF TypeInv
<1>2. CASE State(c)
  BY <1>1, <1>2, StateEffect DEF Sent
<1>3. CASE Review(c)
  <2>1. UNCHANGED revision => UNCHANGED <<context, bundle>>
    BY <1>1, <1>3, ReviewEffect DEF Fresh
  <2> QED
    BY <1>1, <1>3, <2>1, ReviewEffect DEF Sent
<1>4. CASE Choose(c) \/ ConsumeQualified(c) \/ CalculateProduct(c) \/ RefuseCalculation(c)
  BY <1>1, <1>4, CalculationEffect DEF Sent
<1>5. CASE EnterOwners(c) \/ EnterReference(c)
  BY <1>1, <1>5, EnterEffect
<1>6. CASE Return(c)
  BY <1>1, <1>6, ReturnedCall
<1>7. CASE Finally(c)
  BY <1>1, <1>7, FinallyEffect
<1>8. CASE Report(c)
  BY <1>1, <1>8, ReportEffect DEF Sent, workspace
<1> QED
  BY <1>2, <1>3, <1>4, <1>5, <1>6, <1>7, <1>8 DEF Serve

\* What the server does with the requests of the page, by their kinds.
LEMMA ServesState ==
  ASSUME TypeInv, EngineInv, NEW c \in Callers, Serve(c), call[c].kind = "state",
         call[c].stage \in {"sent", "answered"}
  PROVE  State(c)
BY DEF Serve, Review, Choose, EnterOwners, EnterReference, ConsumeQualified, CalculateProduct,
       RefuseCalculation, Return, Finally, Report, Sent

LEMMA ServerChain ==
  ASSUME IInv, NEW c \in Callers, Serve(c), UNCHANGED <<page, foreign>>
  PROVE  ChainInv'
<1> USE DEF OnlyOf
<1>1. TypeInv /\ EngineInv /\ ChainInv
  BY DEF IInv
<1>2. call'["states"].stage # "idle" =>
        /\ call["states"].stage # "idle"
        /\ call'["states"].kind = "state"
        /\ call'["states"].stage \in {"sent", "answered"}
        /\ call'["states"].context = call["states"].context
        /\ call'["states"].bundle = call["states"].bundle
  <2>1. CASE c = "states"
    <3>1. State(c)
      BY <1>1, <2>1, ServerRevisions, ServesState DEF ChainInv
    <3> QED
      BY <1>1, <2>1, <3>1, StateEffect DEF Sent
  <2>2. CASE c # "states"
    BY <1>1, <2>2, ServerRevisions, TheTasks DEF ChainInv
  <2> QED
    BY <2>1, <2>2
<1> QED
  BY <1>1, <1>2 DEF ChainInv, page

LEMMA ServesReview ==
  ASSUME TypeInv, EngineInv, NEW c \in Callers, Serve(c), call[c].kind = "review",
         call[c].stage \in {"sent", "answered"}
  PROVE  Review(c)
BY DEF Serve, State, Choose, EnterOwners, EnterReference, ConsumeQualified, CalculateProduct,
       RefuseCalculation, Return, Finally, Report, Sent

LEMMA ServerJob ==
  ASSUME IInv, NEW c \in Callers, Serve(c), UNCHANGED <<page, foreign>>
  PROVE  JobInv'
<1> USE DEF OnlyOf
<1>1. TypeInv /\ EngineInv /\ JobInv
  BY DEF IInv
<1>2. /\ call'["job"].stage = "idle" <=> call["job"].stage = "idle"
      /\ call'["job"].kind = call["job"].kind
  BY <1>1, ServerRevisions, TheTasks
<1>3. /\ call'["job"].kind = "calculate" => call'["job"].revision = call["job"].revision
      /\ call'["job"].stage # "answered" =>
           call'["job"].revision = call["job"].revision /\ call["job"].stage # "answered"
  <2>1. CASE c = "job"
    <3>1. CASE State(c)
      BY <1>1, <2>1, <3>1, StateEffect
    <3>2. CASE Review(c)
      BY <1>1, <2>1, <3>2, ReviewEffect
    <3>3. CASE Choose(c)
      BY <1>1, <2>1, <3>3, MovedCall DEF Choose, Sent, CallStages
    <3>4. CASE ConsumeQualified(c) \/ CalculateProduct(c) \/ RefuseCalculation(c)
      BY <1>1, <2>1, <3>4, CalculationEffect DEF Sent, ConsumeQualified, CalculateProduct, RefuseCalculation
    <3>5. CASE EnterOwners(c) \/ EnterReference(c)
      BY <1>1, <2>1, <3>5, EnterEffect
    <3>6. CASE Return(c)
      BY <1>1, <2>1, <3>6, ReturnedCall
    <3>7. CASE Finally(c)
      BY <1>1, <2>1, <3>7, FinallyEffect
    <3>8. CASE Report(c)
      BY <1>1, <2>1, <3>8, ReportEffect
    <3> QED
      BY <3>1, <3>2, <3>3, <3>4, <3>5, <3>6, <3>7, <3>8 DEF Serve
  <2>2. CASE c # "job"
    BY <1>1, <2>2, ServerRevisions, TheTasks
  <2> QED
    BY <2>1, <2>2
<1>4. job.kind = "review" /\ call["job"].stage # "idle" => call'["job"].stage \in {"sent", "answered"}
  <2>1. CASE c = "job" /\ job.kind = "review" /\ call["job"].stage # "idle"
    <3>1. Review(c)
      BY <1>1, <2>1, ServesReview DEF JobInv
    <3> QED
      BY <1>1, <2>1, <3>1, ReviewEffect
  <2>2. CASE c # "job"
    BY <1>1, <2>2, ServerRevisions, TheTasks DEF JobInv
  <2> QED
    BY <1>2, <2>1, <2>2
<1> QED
  BY <1>1, <1>2, <1>3, <1>4 DEF JobInv, page

LEMMA ServesReport ==
  ASSUME TypeInv, EngineInv, NEW c \in Callers, Serve(c), call[c].kind = "report",
         call[c].stage \in {"sent", "answered"}
  PROVE  Report(c)
BY DEF Serve, Review, Choose, EnterOwners, EnterReference, ConsumeQualified, CalculateProduct,
       RefuseCalculation, Return, Finally, State, Sent

LEMMA ServerDownload ==
  ASSUME IInv, NEW c \in Callers, Serve(c), UNCHANGED <<page, foreign>>
  PROVE  DownloadInv'
<1> USE DEF OnlyOf
<1>1. TypeInv /\ EngineInv /\ DownloadInv
  BY DEF IInv
<1>2. CASE c = "download"
  <2>1. Report(c)
    BY <1>1, <1>2, ServerRevisions, ServesReport DEF DownloadInv
  <2> QED
    BY <1>1, <1>2, <2>1, ReportEffect DEF Sent, DownloadInv, page
<1>3. CASE c # "download"
  BY <1>1, <1>3, ServerRevisions, TheTasks DEF DownloadInv, page
<1> QED
  BY <1>2, <1>3

LEMMA ServerAgree ==
  ASSUME IInv, NEW c \in Callers, Serve(c), UNCHANGED <<page, foreign>>
  PROVE  AgreeInv'
<1> USE DEF OnlyOf, Current, Shown
<1>1. TypeInv /\ EngineInv /\ ChainInv /\ JobInv /\ AgreeInv
  BY DEF IInv
<1>2. /\ known' = known /\ known \in Nat /\ ready' = ready /\ epoch' = epoch /\ job' = job
      /\ selected' = selected /\ inputs' = inputs
      /\ revision \in Nat /\ revision' \in {revision, revision + 1}
      /\ revision' = revision => UNCHANGED <<context, bundle>>
      /\ \A d \in Callers : call[d].revision \in Nat
  BY <1>1, ServerRevisions DEF page, TypeInv, Requests
<1>3. /\ known' <= revision'
      /\ ready' = epoch' /\ known' = revision' => Current' = Shown'
  BY <1>1, <1>2 DEF AgreeInv
<1>4. call'["states"].stage = "answered" =>
        /\ known' < call'["states"].revision /\ call'["states"].revision <= revision'
        /\ call'["states"].ok /\ call'["states"].revision = revision' =>
             Current' = [context |-> call'["states"].context, bundle |-> call'["states"].bundle]
  <2>1. CASE c = "states"
    <3>1. State(c)
      BY <1>1, <2>1, ServerRevisions, ServesState DEF ChainInv
    <3> QED
      BY <1>1, <1>2, <2>1, <3>1, StateEffect DEF AgreeInv
  <2>2. CASE c # "states"
    <3>1. call'["states"] = call["states"]
      BY <1>1, <2>2, ServerRevisions, TheTasks
    <3> QED
      BY <1>1, <1>2, <3>1, TheTasks DEF AgreeInv
  <2> QED
    BY <2>1, <2>2
<1>5. job'.kind = "review" /\ call'["job"].stage = "answered" /\ call'["job"].ok =>
       /\ call'["job"].revision <= revision'
       /\ call'["job"].revision = revision' =>
            Current' = [context |-> "235-product", bundle |-> call'["job"].bundle]
  <2>1. CASE c = "job" /\ job.kind = "review"
    <3>1. Review(c)
      BY <1>1, <2>1, ServerRevisions, ServesReview DEF JobInv
    <3> QED
      BY <1>1, <1>2, <2>1, <3>1, ReviewEffect
  <2>2. CASE c # "job"
    <3>1. call'["job"] = call["job"]
      BY <1>1, <2>2, ServerRevisions, TheTasks
    <3> QED
      BY <1>1, <1>2, <3>1, TheTasks DEF AgreeInv
  <2> QED
    BY <1>2, <2>1, <2>2
<1> QED
  BY <1>3, <1>4, <1>5 DEF AgreeInv

LEMMA ServerAnswer ==
  ASSUME IInv, NEW c \in Callers, Serve(c), UNCHANGED <<page, foreign>>
  PROVE  AnswerInv'
<1> USE DEF OnlyOf, Current, Shown
<1>1. TypeInv /\ EngineInv /\ JobInv /\ DownloadInv /\ AgreeInv /\ AnswerInv /\ StoredResultIsCurrent
  BY DEF IInv
<1>2. UNCHANGED <<job, epoch, selected, inputs, download>>
  BY DEF page
<1>3. job.kind = "calculate" /\ job.epoch = epoch =>
        /\ call'["job"].stage = "engine" =>
             [context |-> call'["job"].context, bundle |-> call'["job"].bundle] = Shown
        /\ call'["job"].stage \in {"finally", "answered"} /\ call'["job"].ok => call'["job"].result = Shown
  <2>1. CASE c = "job" /\ job.kind = "calculate" /\ job.epoch = epoch
    <3>1. /\ call[c].kind = "calculate"
          /\ Fresh(c) => Current = Shown
          /\ call[c].stage = "engine" => AnswerOf(c) = Shown
          /\ call[c].stage = "finally" /\ call[c].ok => call[c].result = Shown
      BY <1>1, <2>1, ServerRevisions DEF JobInv, AgreeInv, AnswerInv, Fresh, AnswerOf
    <3>2. ~State(c) /\ ~Review(c) /\ ~Report(c)
      BY <3>1 DEF State, Review, Report, Sent
    <3>3. CASE Choose(c) \/ ConsumeQualified(c) \/ CalculateProduct(c) \/ RefuseCalculation(c)
      BY <1>1, <2>1, <3>1, <3>3, CalculationEffect
    <3>4. CASE EnterOwners(c) \/ EnterReference(c)
      BY <1>1, <2>1, <3>1, <3>4, EnterEffect
    <3>5. CASE Return(c)
      BY <1>1, <2>1, <3>1, <3>5, ReturnedCall
    <3>6. CASE Finally(c)
      BY <1>1, <2>1, <3>1, <3>6, FinallyEffect
    <3> QED
      BY <3>2, <3>3, <3>4, <3>5, <3>6 DEF Serve
  <2>2. CASE c # "job"
    BY <1>1, <2>2, ServerRevisions, TheTasks DEF AnswerInv
  <2> QED
    BY <2>1, <2>2
<1>4. download.kind # "none" /\ download.epoch = epoch /\ call'["download"].stage = "answered"
        /\ call'["download"].ok => call'["download"].result = Shown
  <2>1. CASE c = "download" /\ download.kind # "none" /\ download.epoch = epoch
    <3>1. Report(c)
      BY <1>1, <2>1, ServesReport DEF DownloadInv
    <3>2. Fresh(c) => Current = Shown
      BY <1>1, <2>1, <3>1 DEF DownloadInv, AgreeInv, Fresh, Report, Sent
    <3>3. Reported # NoResult \/ context = "235" => Reported = Current
      BY <1>1 DEF Reported, StoredResultIsCurrent
    <3> QED
      BY <1>1, <2>1, <3>1, <3>2, <3>3, ReportEffect
  <2>2. CASE c # "download"
    BY <1>1, <2>2, ServerRevisions, TheTasks DEF AnswerInv
  <2> QED
    BY <2>1, <2>2
<1> QED
  BY <1>2, <1>3, <1>4 DEF AnswerInv

LEMMA ServerAlone ==
  ASSUME IInv, NEW c \in Callers, Serve(c), UNCHANGED <<page, foreign>>
  PROVE  AloneInv'
<1> SUFFICES ASSUME foreign = 0
             PROVE  AloneInv'
  BY DEF AloneInv
<1> USE DEF OnlyOf
<1>1. /\ TypeInv /\ EngineInv /\ ChainInv /\ JobInv /\ DownloadInv /\ AgreeInv /\ AloneInv
      /\ UNCHANGED <<job, epoch, ready, known>>
      /\ revision \in Nat /\ known \in Nat /\ job.revision \in Nat
      /\ job.kind \in {"none", "calculate", "review", "report"}
  BY DEF IInv, page, TypeInv, Jobs
<1>2. c \in {"states", "job", "download"} /\ \A p \in Programs : call'[p].stage = "idle"
  BY <1>1, ServerRevisions, ColumnPageAssumption DEF AloneInv, Tasks
<1>3. revision' # revision => c \in {"states", "job"} /\ (c = "job" => job.kind = "review" /\ Fresh(c))
  BY <1>1, <1>2, ServerRevisions DEF DownloadInv, JobInv
<1>4. revision' # revision /\ c = "states" => ready # epoch
  BY <1>1, ServerRevisions DEF ChainInv
<1>5. job.kind = "review" /\ c = "job" => Review(c)
  BY <1>1, ServerRevisions, ServesReview DEF JobInv
<1>6. ready = epoch => \/ known = revision'
                       \/ job.kind = "review" /\ job.epoch = epoch /\ call'["job"].stage = "answered"
  <2>1. CASE revision' = revision
    <3>1. job.kind = "review" /\ call["job"].stage = "answered" => c # "job"
      BY <1>5 DEF Review, Sent
    <3> QED
      BY <1>1, <2>1, <3>1, ServerRevisions, TheTasks DEF AloneInv
  <2>2. CASE revision' # revision /\ ready = epoch
    <3>1. c = "job" /\ job.kind = "review" /\ Fresh(c) /\ Review(c)
      BY <1>3, <1>4, <1>5, <2>2
    <3>2. job.epoch = epoch
      BY <1>1, <2>2, <3>1 DEF JobInv, AgreeInv, Fresh, Review, Sent
    <3> QED
      BY <1>1, <3>1, <3>2, ReviewEffect
  <2> QED
    BY <2>1, <2>2
<1>7. job.kind = "review" /\ job.epoch = epoch /\ call'["job"].stage = "answered" /\ call'["job"].ok =>
        call'["job"].revision = revision'
  <2>1. CASE c = "job"
    BY <1>1, <1>5, <2>1, ReviewEffect
  <2>2. CASE c # "job"
    BY <1>1, <1>3, <1>4, <2>2, ServerRevisions, TheTasks DEF AloneInv, JobInv
  <2> QED
    BY <2>1, <2>2
<1>8. call'["states"].stage = "answered" => call'["states"].revision = revision'
  <2>1. CASE c = "states"
    <3>1. State(c)
      BY <1>1, <2>1, ServerRevisions, ServesState DEF ChainInv
    <3> QED
      BY <1>1, <2>1, <3>1, StateEffect
  <2>2. CASE c = "job" /\ call["states"].stage = "answered"
    <3>1. call["states"].revision = revision /\ known < revision
      BY <1>1, <2>2 DEF AloneInv, AgreeInv
    <3>2. revision' = revision
      BY <1>1, <1>3, <1>5, <2>2, <3>1 DEF JobInv, Fresh, Review, Sent
    <3> QED
      BY <1>1, <2>2, <3>1, <3>2, ServerRevisions, TheTasks
  <2>3. CASE c # "states" /\ ~(c = "job" /\ call["states"].stage = "answered")
    BY <1>1, <1>3, <2>3, ServerRevisions, TheTasks DEF AloneInv
  <2> QED
    BY <2>1, <2>2, <2>3
<1> QED
  BY <1>1, <1>2, <1>6, <1>7, <1>8 DEF AloneInv

LEMMA ServerKeeps ==
  ASSUME IInv, Server
  PROVE  IInv'
<1>1. PICK c \in Callers : Serve(c) /\ UNCHANGED <<page, foreign>>
  BY DEF Server
<1>2. TypeInv' /\ EngineInv' /\ StoredResultIsCurrent' /\ RunningInv'
  BY <1>1, ServerTypes, ServerEngines, ServerRunning DEF IInv
<1>3. ChainInv' /\ JobInv' /\ DownloadInv' /\ AgreeInv' /\ AnswerInv' /\ AloneInv'
  BY <1>1, ServerChain, ServerJob, ServerDownload, ServerAgree, ServerAnswer, ServerAlone
<1>4. ShownIsCurrent'
  BY <1>1 DEF IInv, ShownIsCurrent, page
<1> QED
  BY <1>2, <1>3, <1>4 DEF IInv

--------------------------------------------------------------------------------
(* The page preserves the invariant.                                       *)

LEMMA RequestChanges ==
  ASSUME TypeInv, NEW c \in Callers, NEW r \in Requests, call' = [call EXCEPT ![c] = r]
  PROVE  OnlyOf(c) /\ call'[c] = r
BY DEF TypeInv, OnlyOf

\* No step of the page touches a request that is inside an engine.
LEMMA WorkspaceRests ==
  ASSUME EngineInv, RunningInv, StoredResultIsCurrent, UNCHANGED workspace,
         \A c \in Callers : \/ call'[c] = call[c]
                            \/ {call[c].stage, call'[c].stage} \cap {"engine", "finally"} = {}
  PROVE  EngineInv' /\ RunningInv' /\ StoredResultIsCurrent'
<1>1. \A c \in Callers : call[c].stage \in {"engine", "finally"} \/ call'[c].stage \in {"engine", "finally"} =>
                           call'[c] = call[c]
  OBVIOUS
<1>2. EngineInv'
  BY <1>1 DEF EngineInv, workspace, Current
<1>3. Inside' = Inside
  BY <1>1 DEF Inside
<1>4. RunningInv'
  BY <1>3 DEF RunningInv, workspace
<1>5. StoredResultIsCurrent'
  BY DEF StoredResultIsCurrent, workspace, Current
<1> QED
  BY <1>2, <1>4, <1>5

LEMMA TransitionKeeps ==
  ASSUME IInv, NEW ctx \in Contexts, NEW b \in MaybeBundles,
         NEW why \in {"edit", "switch", "calculate", "review"}, Transition(ctx, b, why),
         UNCHANGED <<workspace, call, known, download, saved, foreign>>,
         \/ why \in {"edit", "switch"} /\ UNCHANGED <<busy, job>>
         \/ /\ why \in {"calculate", "review"} /\ ~busy /\ ready = epoch
            /\ busy' = TRUE
            /\ job' = [kind |-> why, epoch |-> epoch', revision |-> 0]
            /\ why = "review" => ctx = "235-product"
            /\ why = "calculate" => ctx # "235"
  PROVE  IInv'
<1> DEFINE t == [context |-> ctx, bundle |-> b, epoch |-> epoch + 1, for |-> why]
<1>1. /\ TypeInv /\ EngineInv /\ StoredResultIsCurrent /\ RunningInv
      /\ ChainInv /\ JobInv /\ DownloadInv /\ AgreeInv /\ AnswerInv /\ AloneInv
  BY DEF IInv
<1>2. /\ epoch \in Nat \ {0} /\ epoch' = epoch + 1 /\ epoch' \in 1 .. MaxEpoch
      /\ ready' = 0 /\ result' = NoResult /\ selected' = ctx /\ inputs' = b
      /\ pending' = Append(pending, t) /\ t \in Tokens /\ t.epoch = epoch' /\ t.for = why
      /\ t.context = ctx /\ t.bundle = b
      /\ pending \in Seq(Tokens) /\ Len(pending) \in Nat /\ Len(pending) <= epoch
      /\ UNCHANGED call
  BY <1>1, ColumnPageAssumption, LenProperties DEF Transition, TypeInv, Tokens
<1> HIDE DEF t
<1>3. /\ pending' \in Seq(Tokens) /\ pending' # <<>>
      /\ Len(pending') = Len(pending) + 1
      /\ \A i \in 1 .. Len(pending) : pending'[i] = pending[i]
      /\ pending'[Len(pending) + 1] = t
  BY <1>2, Appended
<1>4. \A i \in 1 .. Len(pending') : i \in 1 .. Len(pending) \/ i = Len(pending) + 1
  BY <1>2, <1>3
<1>5. TypeInv'
  <2>1. evidence' \in BOOLEAN /\ busy' \in BOOLEAN
    BY <1>1, Zenon DEF Transition, TypeInv
  <2>2. job' \in Jobs
    BY <1>1, <1>2 DEF TypeInv, Jobs
  <2> QED
    BY <1>1, <1>2, <1>3, <2>1, <2>2 DEF TypeInv, workspace, Sent
<1>6. EngineInv' /\ RunningInv' /\ StoredResultIsCurrent'
  BY <1>1, WorkspaceRests
<1>7. ChainInv'
  <2>0. \A i \in 1 .. Len(pending) : pending[i].epoch \in Nat /\ pending[i].epoch <= epoch
    <3>1. \A i \in 1 .. Len(pending) : pending[i] \in Tokens
      BY <1>2, ElementOfSeq
    <3> QED
      BY <1>1, <3>1 DEF ChainInv, Tokens
  <2>1. \A i \in 1 .. Len(pending') : pending'[i].epoch <= epoch'
    BY <1>2, <1>3, <1>4, <2>0
  <2>2. ASSUME NEW i \in 1 .. Len(pending'), NEW j \in 1 .. Len(pending'), i < j
        PROVE  pending'[i].epoch < pending'[j].epoch
    <3>1. i \in 1 .. Len(pending)
      BY <1>2, <1>3, <2>2
    <3>2. CASE j \in 1 .. Len(pending)
      BY <1>1, <1>3, <2>2, <3>1, <3>2 DEF ChainInv
    <3>3. CASE j = Len(pending) + 1
      BY <1>2, <1>3, <2>0, <3>1, <3>3
    <3> QED
      BY <1>4, <3>2, <3>3
  <2>3. \A i \in 1 .. Len(pending') : pending'[i].epoch = epoch' =>
          pending'[i].context = selected' /\ pending'[i].bundle = inputs'
    BY <1>1, <1>2, <1>3, <1>4 DEF ChainInv
  <2>4. call["states"].stage # "idle" => pending'[1] = pending[1]
    BY <1>1, <1>2, <1>3, EmptySeq DEF ChainInv
  <2> QED
    BY <1>1, <1>2, <1>3, <2>1, <2>2, <2>3, <2>4 DEF ChainInv
<1>8. JobInv'
  <2>1. CASE why \in {"edit", "switch"} /\ UNCHANGED <<busy, job>>
    BY <1>1, <1>2, <1>3, <1>4, <2>1 DEF JobInv, TypeInv, Jobs
  <2>2. CASE /\ why \in {"calculate", "review"} /\ ~busy /\ ready = epoch
             /\ busy' = TRUE
             /\ job' = [kind |-> why, epoch |-> epoch', revision |-> 0]
             /\ why = "review" => ctx = "235-product"
             /\ why = "calculate" => ctx # "235"
    BY <1>1, <1>2, <1>3, <1>4, <2>2 DEF JobInv, ChainInv
  <2> QED
    BY <2>1, <2>2
<1>9. DownloadInv'
  BY <1>1, <1>2 DEF DownloadInv, TypeInv, Jobs
<1>10. AgreeInv'
  BY <1>1, <1>2 DEF AgreeInv, JobInv, workspace, Current
<1>11. AnswerInv'
  BY <1>1, <1>2 DEF AnswerInv, JobInv, DownloadInv, TypeInv, Jobs
<1>12. AloneInv'
  BY <1>1, <1>2 DEF AloneInv, JobInv, TypeInv, Jobs, workspace
<1>13. ShownIsCurrent'
  BY <1>2 DEF ShownIsCurrent
<1> QED
  BY <1>5, <1>6, <1>7, <1>8, <1>9, <1>10, <1>11, <1>12, <1>13 DEF IInv

LEMMA UserKeeps ==
  ASSUME IInv, Edit \/ SwitchContext \/ Calculate \/ ReviewProduct
  PROVE  IInv'
<1>1. selected \in Contexts /\ inputs \in MaybeBundles /\ Default \in Inputs
  BY ColumnWorkspaceAssumption DEF IInv, TypeInv
<1>2. CASE Edit
  <2>1. PICK i \in Inputs : Transition(selected, Raw(i), "edit")
    BY <1>2 DEF Edit
  <2>2. Raw(i) \in MaybeBundles
    BY DEF Raw, MaybeBundles, Bundles
  <2> QED
    BY <1>1, <1>2, <2>1, <2>2, TransitionKeeps DEF Edit
<1>3. CASE SwitchContext
  <2>1. PICK ctx \in Contexts : Transition(ctx, BundleOf(ctx, Default), "switch")
    BY <1>3 DEF SwitchContext
  <2>2. BundleOf(ctx, Default) \in MaybeBundles
    BY <1>1 DEF BundleOf, Raw, MaybeBundles, Bundles
  <2> QED
    BY <1>1, <1>3, <2>1, <2>2, TransitionKeeps DEF SwitchContext
<1>4. CASE Calculate
  BY <1>1, <1>4, TransitionKeeps DEF Calculate, Begin
<1>5. CASE ReviewProduct
  BY <1>1, <1>5, TransitionKeeps DEF ReviewProduct, Begin
<1> QED
  BY <1>2, <1>3, <1>4, <1>5

LEMMA DownloadKeeps ==
  ASSUME IInv, Download
  PROVE  IInv'
<1> DEFINE r == [NoCall EXCEPT !.stage = "sent", !.kind = "report", !.revision = known, !.result = result]
<1>1. /\ TypeInv /\ EngineInv /\ StoredResultIsCurrent /\ RunningInv
      /\ ChainInv /\ JobInv /\ DownloadInv /\ AgreeInv /\ AnswerInv /\ AloneInv /\ ShownIsCurrent
      /\ known \in Nat /\ result \in Results \cup {NoResult} /\ epoch \in Nat
  BY ColumnPageAssumption DEF IInv, TypeInv
<1>2. r \in Requests /\ r.stage = "sent" /\ r.kind = "report" /\ r.revision = known
  BY <1>1 DEF NoCall, Requests, CallStages, Kinds, MaybeBundles
<1>3. call' = [call EXCEPT !["download"] = r]
  BY DEF Download
<1> HIDE DEF r
<1>4. OnlyOf("download") /\ call'["download"] = r
  BY <1>1, <1>2, <1>3, RequestChanges, TheTasks
<1>5. /\ UNCHANGED <<workspace, selected, inputs, epoch, ready, known, result, evidence, busy,
                     pending, job, saved, foreign>>
      /\ ready = epoch /\ download.kind = "none"
      /\ download' = [kind |-> "report", epoch |-> epoch, revision |-> known]
  BY DEF Download
<1>6. /\ call'["states"] = call["states"] /\ call'["job"] = call["job"]
      /\ \A p \in Programs : call'[p] = call[p]
      /\ call["download"].stage = "idle"
  BY <1>1, <1>4, <1>5, TheTasks, ProgramsAreOthers DEF OnlyOf, DownloadInv
<1>7. TypeInv'
  BY <1>1, <1>2, <1>4, <1>5 DEF TypeInv, OnlyOf, Sent, Jobs, workspace
<1>8. EngineInv' /\ RunningInv' /\ StoredResultIsCurrent'
  <2>1. \A c \in Callers : \/ call'[c] = call[c]
                           \/ {call[c].stage, call'[c].stage} \cap {"engine", "finally"} = {}
    BY <1>2, <1>4, <1>6 DEF OnlyOf
  <2> QED
    BY <1>1, <1>5, <2>1, WorkspaceRests
<1>9. ChainInv' /\ JobInv'
  BY <1>1, <1>5, <1>6 DEF ChainInv, JobInv
<1>10. DownloadInv'
  <2>1. busy => job.epoch # epoch
    BY <1>1 DEF JobInv, Download, TypeInv, Jobs
  <2> QED
    BY <1>1, <1>2, <1>4, <1>5, <2>1 DEF DownloadInv
<1>11. AgreeInv' /\ AnswerInv' /\ AloneInv' /\ ShownIsCurrent'
  BY <1>1, <1>2, <1>4, <1>5, <1>6
     DEF AgreeInv, AnswerInv, AloneInv, ShownIsCurrent, Current, Shown, workspace
<1> QED
  BY <1>7, <1>8, <1>9, <1>10, <1>11 DEF IInv

LEMMA SendStateKeeps ==
  ASSUME IInv, SendState
  PROVE  IInv'
<1> DEFINE r == [NoCall EXCEPT !.stage = "sent", !.kind = "state",
                               !.context = Head(pending).context, !.bundle = Head(pending).bundle]
<1>1. /\ TypeInv /\ EngineInv /\ StoredResultIsCurrent /\ RunningInv
      /\ ChainInv /\ JobInv /\ DownloadInv /\ AgreeInv /\ AnswerInv /\ AloneInv /\ ShownIsCurrent
      /\ pending \in Seq(Tokens) /\ pending # <<>> /\ call["states"].stage = "idle"
      /\ UNCHANGED <<workspace, page, foreign>>
  BY DEF IInv, TypeInv, SendState
<1>2. Head(pending) = pending[1] /\ Head(pending) \in Tokens
  BY <1>1, Rest
<1>3. /\ r \in Requests /\ r.stage = "sent" /\ r.kind = "state"
      /\ r.context = pending[1].context /\ r.bundle = pending[1].bundle /\ r.context \in Contexts
  BY <1>2 DEF NoCall, Requests, CallStages, Kinds, MaybeBundles, Tokens
<1>4. call' = [call EXCEPT !["states"] = r]
  BY DEF SendState
<1> HIDE DEF r
<1>5. OnlyOf("states") /\ call'["states"] = r
  BY <1>1, <1>3, <1>4, RequestChanges, TheTasks
<1>6. /\ call'["download"] = call["download"] /\ call'["job"] = call["job"]
      /\ \A p \in Programs : call'[p] = call[p]
  BY <1>5, TheTasks, ProgramsAreOthers DEF OnlyOf
<1>7. TypeInv'
  BY <1>1, <1>3, <1>5 DEF TypeInv, OnlyOf, Sent, workspace, page
<1>8. EngineInv' /\ RunningInv' /\ StoredResultIsCurrent'
  <2>1. \A c \in Callers : \/ call'[c] = call[c]
                           \/ {call[c].stage, call'[c].stage} \cap {"engine", "finally"} = {}
    BY <1>1, <1>3, <1>5 DEF OnlyOf
  <2> QED
    BY <1>1, <2>1, WorkspaceRests
<1>9. ChainInv' /\ JobInv' /\ DownloadInv'
  BY <1>1, <1>3, <1>5, <1>6 DEF ChainInv, JobInv, DownloadInv, page
<1>10. AgreeInv' /\ AnswerInv' /\ AloneInv' /\ ShownIsCurrent'
  BY <1>1, <1>3, <1>5, <1>6
     DEF AgreeInv, AnswerInv, AloneInv, ShownIsCurrent, Current, Shown, workspace, page
<1> QED
  BY <1>7, <1>8, <1>9, <1>10 DEF IInv

LEMMA ReportAnswerKeeps ==
  ASSUME IInv, ReportAnswer
  PROVE  IInv'
<1>1. /\ TypeInv /\ EngineInv /\ StoredResultIsCurrent /\ RunningInv
      /\ ChainInv /\ JobInv /\ DownloadInv /\ AgreeInv /\ AnswerInv /\ AloneInv /\ ShownIsCurrent
      /\ UNCHANGED <<workspace, selected, inputs, epoch, ready, known, result, evidence, busy,
                     pending, job, foreign>>
      /\ download' = NoJob /\ call["download"].stage = "answered"
      /\ call' = [call EXCEPT !["download"] = NoCall] /\ epoch \in Nat
  BY ColumnPageAssumption DEF IInv, TypeInv, ReportAnswer
<1>2. NoCall \in Requests /\ NoCall.stage = "idle" /\ NoJob \in Jobs /\ NoJob.kind = "none" /\ NoJob.epoch = 0
  BY DEF NoCall, Requests, CallStages, Kinds, MaybeBundles, NoJob, Jobs
<1>3. OnlyOf("download") /\ call'["download"] = NoCall
  BY <1>1, <1>2, RequestChanges, TheTasks
<1>4. /\ call'["states"] = call["states"] /\ call'["job"] = call["job"]
      /\ \A p \in Programs : call'[p] = call[p]
  BY <1>3, TheTasks, ProgramsAreOthers DEF OnlyOf
<1>5. TypeInv'
  <2>1. saved' \in Results \cup {NoResult}
    BY <1>1, TheTasks DEF ReportAnswer, TypeInv, Requests
  <2> QED
    BY <1>1, <1>2, <1>3, <2>1 DEF TypeInv, OnlyOf, Sent, workspace
<1>6. EngineInv' /\ RunningInv' /\ StoredResultIsCurrent'
  <2>1. \A c \in Callers : \/ call'[c] = call[c]
                           \/ {call[c].stage, call'[c].stage} \cap {"engine", "finally"} = {}
    BY <1>1, <1>2, <1>3 DEF OnlyOf
  <2> QED
    BY <1>1, <2>1, WorkspaceRests
<1>7. ChainInv' /\ JobInv' /\ DownloadInv'
  BY <1>1, <1>2, <1>3, <1>4 DEF ChainInv, JobInv, DownloadInv
<1>8. AgreeInv' /\ AnswerInv' /\ AloneInv' /\ ShownIsCurrent'
  BY <1>1, <1>2, <1>3, <1>4
     DEF AgreeInv, AnswerInv, AloneInv, ShownIsCurrent, Current, Shown, workspace
<1> QED
  BY <1>5, <1>6, <1>7, <1>8 DEF IInv

LEMMA ForeignKeeps ==
  ASSUME IInv, ForeignRequest \/ ForeignAnswer
  PROVE  IInv'
<1>1. /\ TypeInv /\ EngineInv /\ StoredResultIsCurrent /\ RunningInv
      /\ ChainInv /\ JobInv /\ DownloadInv /\ AgreeInv /\ AnswerInv /\ AloneInv /\ ShownIsCurrent
      /\ UNCHANGED <<workspace, page>> /\ foreign \in Nat /\ revision \in Nat
  BY DEF IInv, TypeInv, ForeignRequest, ForeignAnswer
<1>2. ASSUME NEW ctx \in Contexts, NEW i \in Inputs
      PROVE  /\ [NoCall EXCEPT !.stage = "sent", !.kind = "calculate", !.revision = revision] \in Requests
             /\ [NoCall EXCEPT !.stage = "sent", !.kind = "state", !.context = ctx,
                               !.bundle = BundleOf(ctx, i)] \in Requests
  <2>1. BundleOf(ctx, i) \in MaybeBundles
    BY DEF BundleOf, Raw, MaybeBundles, Bundles
  <2> QED
    BY <1>1, <2>1 DEF NoCall, Requests, CallStages, Kinds, MaybeBundles
<1>3. PICK p \in Programs, r \in Requests :
        /\ call' = [call EXCEPT ![p] = r]
        /\ call[p].stage \in {"idle", "answered"} /\ r.stage \in {"idle", "sent"}
        /\ r.stage = "sent" /\ r.kind = "state" => r.context \in Contexts
        /\ \/ foreign' = foreign + 1
           \/ foreign' = foreign /\ r.stage = "idle"
  <2>1. CASE ForeignAnswer
    <3>1. NoCall \in Requests /\ NoCall.stage = "idle"
      BY DEF NoCall, Requests, CallStages, Kinds, MaybeBundles
    <3>2. PICK p \in Programs : call[p].stage = "answered" /\ call' = [call EXCEPT ![p] = NoCall]
      BY <2>1 DEF ForeignAnswer
    <3>3. foreign' = foreign
      BY <2>1 DEF ForeignAnswer
    <3> QED
      BY <3>1, <3>2, <3>3
  <2>2. CASE ForeignRequest
    <3>1. PICK p \in Programs :
            /\ call[p].stage = "idle"
            /\ \/ call' = [call EXCEPT ![p] = [NoCall EXCEPT !.stage = "sent", !.kind = "calculate",
                                                             !.revision = revision]]
               \/ \E ctx \in Contexts, i \in Inputs :
                    call' = [call EXCEPT ![p] = [NoCall EXCEPT !.stage = "sent", !.kind = "state",
                                                               !.context = ctx, !.bundle = BundleOf(ctx, i)]]
      BY <2>2 DEF ForeignRequest
    <3>2. foreign' = foreign + 1
      BY <2>2 DEF ForeignRequest
    <3>3. CASE call' = [call EXCEPT ![p] = [NoCall EXCEPT !.stage = "sent", !.kind = "calculate",
                                                          !.revision = revision]]
      <4>1. [NoCall EXCEPT !.stage = "sent", !.kind = "calculate", !.revision = revision] \in Requests
        BY <1>2, ColumnWorkspaceAssumption DEF Contexts
      <4> QED
        BY <3>1, <3>2, <3>3, <4>1 DEF NoCall
    <3>4. CASE \E ctx \in Contexts, i \in Inputs :
                 call' = [call EXCEPT ![p] = [NoCall EXCEPT !.stage = "sent", !.kind = "state",
                                                            !.context = ctx, !.bundle = BundleOf(ctx, i)]]
      BY <1>2, <3>1, <3>2, <3>4 DEF NoCall
    <3> QED
      BY <3>1, <3>3, <3>4
  <2> QED
    BY <2>1, <2>2
<1>4. OnlyOf(p) /\ call'[p] = r
  BY <1>1, <1>3, RequestChanges, TheTasks
<1>5. /\ call'["states"] = call["states"] /\ call'["job"] = call["job"]
      /\ call'["download"] = call["download"]
  BY <1>4, TheTasks, ProgramsAreOthers DEF OnlyOf
<1>6. foreign' \in Nat /\ (foreign' = 0 => foreign = 0 /\ \A q \in Programs : call'[q].stage = "idle")
  BY <1>1, <1>3, <1>4, TheTasks DEF AloneInv, OnlyOf
<1>7. TypeInv'
  BY <1>1, <1>3, <1>4, <1>6 DEF TypeInv, OnlyOf, Sent, workspace, page
<1>8. EngineInv' /\ RunningInv' /\ StoredResultIsCurrent'
  <2>1. \A c \in Callers : \/ call'[c] = call[c]
                           \/ {call[c].stage, call'[c].stage} \cap {"engine", "finally"} = {}
    BY <1>3, <1>4 DEF OnlyOf
  <2> QED
    BY <1>1, <2>1, WorkspaceRests
<1>9. ChainInv' /\ JobInv' /\ DownloadInv'
  BY <1>1, <1>5 DEF ChainInv, JobInv, DownloadInv, page
<1>10. AgreeInv' /\ AnswerInv' /\ AloneInv' /\ ShownIsCurrent'
  BY <1>1, <1>5, <1>6
     DEF AgreeInv, AnswerInv, AloneInv, ShownIsCurrent, Current, Shown, workspace, page
<1> QED
  BY <1>7, <1>8, <1>9, <1>10 DEF IInv

LEMMA CalculateAnswerKeeps ==
  ASSUME IInv, CalculateAnswer
  PROVE  IInv'
<1>1. /\ TypeInv /\ EngineInv /\ StoredResultIsCurrent /\ RunningInv
      /\ ChainInv /\ JobInv /\ DownloadInv /\ AgreeInv /\ AnswerInv /\ AloneInv /\ ShownIsCurrent
      /\ UNCHANGED <<workspace, selected, inputs, epoch, ready, known, evidence, pending,
                     download, saved, foreign>>
      /\ job.kind = "calculate" /\ call["job"].stage = "answered"
      /\ busy' = FALSE /\ job' = NoJob /\ call' = [call EXCEPT !["job"] = NoCall] /\ epoch \in Nat
  BY ColumnPageAssumption DEF IInv, TypeInv, CalculateAnswer, JobEnds
<1>2. NoCall \in Requests /\ NoCall.stage = "idle" /\ NoJob \in Jobs /\ NoJob.kind = "none" /\ NoJob.epoch = 0
  BY DEF NoCall, Requests, CallStages, Kinds, MaybeBundles, NoJob, Jobs
<1>3. OnlyOf("job") /\ call'["job"] = NoCall
  BY <1>1, <1>2, RequestChanges, TheTasks
<1>4. /\ call'["states"] = call["states"] /\ call'["download"] = call["download"]
      /\ \A p \in Programs : call'[p] = call[p]
  BY <1>3, TheTasks, ProgramsAreOthers DEF OnlyOf
<1>5. result' \in {result, [context |-> selected, bundle |-> inputs]} /\ result' \in Results \cup {NoResult}
  BY <1>1, TheTasks DEF CalculateAnswer, TypeInv, Requests, AnswerInv, Shown
<1>6. TypeInv'
  BY <1>1, <1>2, <1>3, <1>5 DEF TypeInv, OnlyOf, Sent, workspace
<1>7. EngineInv' /\ RunningInv' /\ StoredResultIsCurrent'
  <2>1. \A c \in Callers : \/ call'[c] = call[c]
                           \/ {call[c].stage, call'[c].stage} \cap {"engine", "finally"} = {}
    BY <1>1, <1>2, <1>3 DEF OnlyOf
  <2> QED
    BY <1>1, <2>1, WorkspaceRests
<1>8. ChainInv' /\ JobInv' /\ DownloadInv'
  BY <1>1, <1>2, <1>3, <1>4 DEF ChainInv, JobInv, DownloadInv
<1>9. AgreeInv' /\ AnswerInv' /\ AloneInv'
  BY <1>1, <1>2, <1>3, <1>4 DEF AgreeInv, AnswerInv, AloneInv, Current, Shown, workspace
<1>10. ShownIsCurrent'
  BY <1>1, <1>5 DEF ShownIsCurrent
<1> QED
  BY <1>6, <1>7, <1>8, <1>9, <1>10 DEF IInv

LEMMA ReviewAnswerKeeps ==
  ASSUME IInv, ReviewAnswer
  PROVE  IInv'
<1>1. /\ TypeInv /\ EngineInv /\ StoredResultIsCurrent /\ RunningInv
      /\ ChainInv /\ JobInv /\ DownloadInv /\ AgreeInv /\ AnswerInv /\ AloneInv /\ ShownIsCurrent
      /\ UNCHANGED <<workspace, selected, epoch, evidence, pending, download, saved, foreign, result>>
      /\ job.kind = "review" /\ call["job"].stage = "answered" /\ busy
      /\ busy' = FALSE /\ job' = NoJob /\ call' = [call EXCEPT !["job"] = NoCall]
      /\ epoch \in Nat \ {0} /\ known \in Nat /\ job.revision \in Nat
  BY ColumnPageAssumption DEF IInv, TypeInv, ReviewAnswer, JobEnds, JobInv, Jobs
<1>2. NoCall \in Requests /\ NoCall.stage = "idle" /\ NoJob \in Jobs /\ NoJob.kind = "none" /\ NoJob.epoch = 0
  BY DEF NoCall, Requests, CallStages, Kinds, MaybeBundles, NoJob, Jobs
<1>3. OnlyOf("job") /\ call'["job"] = NoCall
  BY <1>1, <1>2, RequestChanges, TheTasks
<1>4. /\ call'["states"] = call["states"] /\ call'["download"] = call["download"]
      /\ \A p \in Programs : call'[p] = call[p]
  BY <1>3, TheTasks, ProgramsAreOthers DEF OnlyOf
<1>5. \/ job.epoch # epoch /\ UNCHANGED <<inputs, ready, known>>
      \/ /\ job.epoch = epoch /\ call["job"].ok
         /\ inputs' = call["job"].bundle /\ ready' = epoch /\ known' = call["job"].revision
      \/ job.epoch = epoch /\ ready' = 0 /\ UNCHANGED <<inputs, known>>
  BY DEF ReviewAnswer
<1>6. job.epoch = epoch =>
        /\ result = NoResult /\ selected = "235-product" /\ ready = epoch /\ pending = <<>>
        /\ call["states"].stage = "idle"
        /\ download.kind = "none" \/ download.epoch # epoch
  BY <1>1 DEF JobInv, ChainInv, DownloadInv
<1>7. TypeInv'
  <2>1. inputs' \in MaybeBundles /\ ready' \in {0, epoch} /\ known' \in Nat
    BY <1>1, <1>5, TheTasks DEF TypeInv, Requests
  <2> QED
    BY <1>1, <1>2, <1>3, <2>1 DEF TypeInv, OnlyOf, Sent, workspace
<1>8. EngineInv' /\ RunningInv' /\ StoredResultIsCurrent'
  <2>1. \A c \in Callers : \/ call'[c] = call[c]
                           \/ {call[c].stage, call'[c].stage} \cap {"engine", "finally"} = {}
    BY <1>1, <1>2, <1>3 DEF OnlyOf
  <2> QED
    BY <1>1, <2>1, WorkspaceRests
<1>9. ChainInv'
  <2>1. CASE job.epoch = epoch
    BY <1>1, <1>4, <1>6, <2>1, EmptySeq DEF ChainInv
  <2>2. CASE job.epoch # epoch
    BY <1>1, <1>4, <1>5, <2>2 DEF ChainInv
  <2> QED
    BY <2>1, <2>2
<1>10. JobInv'
  BY <1>1, <1>2, <1>3 DEF JobInv
<1>11. DownloadInv' /\ AnswerInv'
  BY <1>1, <1>2, <1>4, <1>5, <1>6 DEF DownloadInv, AnswerInv, Shown
<1>12. AgreeInv' /\ AloneInv'
  BY <1>1, <1>2, <1>4, <1>5, <1>6 DEF AgreeInv, AloneInv, Current, Shown, workspace
<1>13. ShownIsCurrent'
  BY <1>1, <1>5, <1>6 DEF ShownIsCurrent
<1> QED
  BY <1>7, <1>8, <1>9, <1>10, <1>11, <1>12, <1>13 DEF IInv

\* The three ways in which the answer of a state request ends.
LEMMA StateAnswered ==
  ASSUME IInv, StateAnswer
  PROVE  /\ Len(pending) \in Nat \ {0}
         /\ pending' \in Seq(Tokens) /\ Len(pending') = Len(pending) - 1
         /\ \A i \in 1 .. Len(pending') : pending'[i] = pending[i + 1]
         /\ ready = 0 /\ call["states"].stage = "answered"
         /\ call' \in [Callers -> Requests] /\ call'["states"] = NoCall
         /\ \A c \in Callers \ {"states", "job"} : call'[c] = call[c]
         /\ UNCHANGED <<workspace, selected, inputs, epoch, result, download, saved, foreign>>
         /\ \/ /\ Acknowledged(pending[1]) /\ pending' = <<>>
               /\ call["states"].ok
               /\ call["states"].context = selected /\ call["states"].bundle = inputs
               /\ known' = call["states"].revision /\ ready' = epoch
            \/ ~Acknowledged(pending[1]) /\ known' = known /\ ready' = ready
         /\ \/ UNCHANGED <<busy, job>> /\ call'["job"] = call["job"]
            \/ /\ Acknowledged(pending[1])
               /\ pending[1].for \in {"calculate", "review"}
               /\ call'["job"] = [NoCall EXCEPT !.stage = "sent", !.kind = pending[1].for,
                                                !.revision = known']
               /\ job' = [job EXCEPT !.revision = known'] /\ busy' = busy
            \/ /\ pending[1].for \in {"calculate", "review"}
               /\ busy' = FALSE /\ job' = NoJob /\ call'["job"] = call["job"]
<1>1. /\ TypeInv /\ ChainInv /\ call["states"].stage = "answered" /\ epoch \in Nat \ {0}
      /\ pending \in Seq(Tokens) /\ pending # <<>>
      /\ call \in [Callers -> Requests] /\ known \in Nat
  BY ColumnPageAssumption DEF IInv, TypeInv, StateAnswer, ChainInv
<1>2. /\ Len(pending) \in Nat \ {0} /\ Head(pending) = pending[1] /\ pending[1] \in Tokens
      /\ pending' = Tail(pending)
      /\ pending' \in Seq(Tokens) /\ Len(pending') = Len(pending) - 1
      /\ \A i \in 1 .. Len(pending') : pending'[i] = pending[i + 1]
  BY <1>1, Rest DEF StateAnswer
<1>3. ready = 0
  BY <1>1 DEF TypeInv, ChainInv
<1>4. /\ known' = IF Acknowledged(pending[1]) THEN call["states"].revision ELSE known
      /\ ready' = IF Acknowledged(pending[1]) THEN epoch ELSE ready
      /\ Continue(pending[1])
      /\ UNCHANGED <<workspace, selected, inputs, epoch, result, download, saved, foreign>>
  BY <1>2 DEF StateAnswer
<1>5. Acknowledged(pending[1]) =>
        /\ pending' = <<>> /\ call["states"].ok
        /\ call["states"].context = selected /\ call["states"].bundle = inputs
  <2> SUFFICES ASSUME Acknowledged(pending[1])
               PROVE  /\ pending' = <<>> /\ call["states"].ok
                      /\ call["states"].context = selected /\ call["states"].bundle = inputs
    OBVIOUS
  <2>1. pending[1].epoch = epoch /\ call["states"].ok
    BY DEF Acknowledged
  <2>2. Len(pending) = 1
    <3> SUFFICES ASSUME Len(pending) # 1
                 PROVE  FALSE
      OBVIOUS
    <3>1. 1 \in 1 .. Len(pending) /\ 2 \in 1 .. Len(pending) /\ 1 < 2
      BY <1>2
    <3>2. pending[2] \in Tokens
      BY <1>1, <3>1, ElementOfSeq
    <3>3. pending[2].epoch <= epoch /\ pending[1].epoch < pending[2].epoch
      BY <1>1, <3>1 DEF ChainInv
    <3> QED
      BY <1>1, <2>1, <3>2, <3>3 DEF Tokens
  <2>3. pending' = <<>>
    BY <1>2, <2>2, EmptySeq
  <2>4. call["states"].context = selected /\ call["states"].bundle = inputs
    BY <1>1, <1>2, <2>1 DEF ChainInv
  <2> QED
    BY <2>1, <2>3, <2>4
<1>6. /\ call["states"] \in Requests /\ {"states", "job", "download"} \subseteq Callers
      /\ known' \in Nat /\ NoCall \in Requests
  BY <1>1, <1>4, TheTasks DEF Requests, NoCall, CallStages, Kinds, MaybeBundles
<1>7. CASE call' = [call EXCEPT !["states"] = NoCall]
  <2>1. /\ call' \in [Callers -> Requests] /\ call'["states"] = NoCall
        /\ \A c \in Callers \ {"states"} : call'[c] = call[c]
    BY <1>1, <1>6, <1>7
  <2> QED
    BY <1>1, <1>2, <1>3, <1>4, <1>5, <1>6, <2>1 DEF Continue, Tokens
<1>8. CASE /\ Acknowledged(pending[1]) /\ pending[1].for \in {"calculate", "review"}
           /\ call' = [call EXCEPT !["states"] = NoCall,
                                   !["job"] = [NoCall EXCEPT !.stage = "sent", !.kind = pending[1].for,
                                                             !.revision = known']]
           /\ job' = [job EXCEPT !.revision = known'] /\ UNCHANGED busy
  <2> DEFINE r == [NoCall EXCEPT !.stage = "sent", !.kind = pending[1].for, !.revision = known']
  <2>1. r \in Requests
    BY <1>6, <1>8 DEF Requests, NoCall, CallStages, Kinds, MaybeBundles
  <2>2. call' = [call EXCEPT !["states"] = NoCall, !["job"] = r]
    BY <1>8
  <2> HIDE DEF r
  <2>3. /\ call' \in [Callers -> Requests] /\ call'["states"] = NoCall /\ call'["job"] = r
        /\ \A c \in Callers \ {"states", "job"} : call'[c] = call[c]
    BY <1>1, <1>6, <2>1, <2>2
  <2>4. call'["job"] = [NoCall EXCEPT !.stage = "sent", !.kind = pending[1].for, !.revision = known']
    BY <2>3 DEF r
  <2> QED
    BY <1>1, <1>2, <1>3, <1>4, <1>5, <1>8, <2>3, <2>4
<1> QED
  BY <1>4, <1>7, <1>8 DEF Continue

LEMMA StateAnswerKeeps ==
  ASSUME IInv, StateAnswer
  PROVE  IInv'
<1>1. /\ TypeInv /\ EngineInv /\ StoredResultIsCurrent /\ RunningInv
      /\ ChainInv /\ JobInv /\ DownloadInv /\ AgreeInv /\ AnswerInv /\ AloneInv /\ ShownIsCurrent
      /\ epoch \in Nat \ {0} /\ known \in Nat /\ revision \in Nat /\ job \in Jobs
      /\ call["states"] \in Requests /\ call["states"].revision \in Nat
  BY TheTasks, ColumnPageAssumption DEF IInv, TypeInv, Requests
<1>2. /\ Len(pending) \in Nat \ {0} /\ Len(pending') = Len(pending) - 1 /\ pending' \in Seq(Tokens)
      /\ ready = 0 /\ call["states"].stage = "answered"
      /\ call' \in [Callers -> Requests] /\ call'["states"] = NoCall
      /\ \A c \in Callers \ {"states", "job"} : call'[c] = call[c]
      /\ UNCHANGED <<workspace, selected, inputs, epoch, result, download, saved, foreign>>
  BY StateAnswered
<1>3. \A i \in 1 .. Len(pending') : i + 1 \in 1 .. Len(pending) /\ pending'[i] = pending[i + 1]
  BY <1>2, StateAnswered
<1>4. /\ NoCall.stage = "idle" /\ NoCall.kind = "state" /\ NoJob \in Jobs
      /\ NoJob.kind = "none" /\ NoJob.epoch = 0
  BY DEF NoCall, NoJob, Jobs
<1>5. /\ call'["download"] = call["download"]
      /\ \A p \in Programs : call'[p] = call[p]
  BY <1>2, TheTasks, ProgramsAreOthers
<1>6. \/ /\ Acknowledged(pending[1]) /\ pending' = <<>> /\ call["states"].ok
         /\ call["states"].context = selected /\ call["states"].bundle = inputs
         /\ known' = call["states"].revision /\ ready' = epoch
      \/ ~Acknowledged(pending[1]) /\ known' = known /\ ready' = ready
  BY StateAnswered
<1>7. \/ UNCHANGED <<busy, job>> /\ call'["job"] = call["job"]
      \/ /\ Acknowledged(pending[1])
         /\ pending[1].for \in {"calculate", "review"}
         /\ call'["job"] = [NoCall EXCEPT !.stage = "sent", !.kind = pending[1].for,
                                          !.revision = known']
         /\ job' = [job EXCEPT !.revision = known'] /\ busy' = busy
      \/ /\ pending[1].for \in {"calculate", "review"}
         /\ busy' = FALSE /\ job' = NoJob /\ call'["job"] = call["job"]
  BY StateAnswered
<1>8. known' \in Nat /\ known <= known' /\ known' <= revision
  BY <1>1, <1>2, <1>6 DEF AgreeInv
<1>9. pending[1].for \in {"calculate", "review"} =>
        /\ busy /\ call["job"].stage = "idle"
        /\ pending[1].for = job.kind /\ pending[1].epoch = job.epoch
  BY <1>1, <1>2 DEF JobInv
<1>10. TypeInv'
  <2>1. evidence' \in BOOLEAN /\ busy' \in BOOLEAN
    <3>1. busy \in BOOLEAN
      BY <1>1 DEF TypeInv
    <3>2. busy' \in BOOLEAN
      BY <1>7, <3>1
    <3>3. evidence' = (evidence \/ (Acknowledged(Head(pending)) /\ Head(pending).for = "switch"
                                      /\ Head(pending).context = "235"))
      BY DEF StateAnswer
    <3>4. evidence' \in BOOLEAN
      BY <3>3, Zenon
    <3> QED
      BY <3>2, <3>4
  <2>2. job' \in Jobs
    BY <1>1, <1>4, <1>7, <1>8 DEF Jobs
  <2>3. \A c \in Callers : Sent(c, "state")' => call'[c].context \in Contexts
    <3>1. CASE call'["job"] = call["job"]
      BY <1>1, <1>2, <1>4, <3>1 DEF TypeInv, Sent
    <3>2. CASE call'["job"] = [NoCall EXCEPT !.stage = "sent", !.kind = pending[1].for, !.revision = known']
               /\ pending[1].for \in {"calculate", "review"}
      <4>1. call'["job"].kind # "state"
        BY <3>2 DEF NoCall
      <4> QED
        BY <1>1, <1>2, <1>4, <4>1 DEF TypeInv, Sent
    <3> QED
      BY <1>7, <3>1, <3>2
  <2>4. ready' \in {0, epoch} /\ Len(pending') <= epoch
    BY <1>1, <1>2, <1>6 DEF TypeInv
  <2> QED
    BY <1>1, <1>2, <1>8, <2>1, <2>2, <2>3, <2>4 DEF TypeInv, workspace
<1>11. EngineInv' /\ RunningInv' /\ StoredResultIsCurrent'
  <2>1. \A c \in Callers : \/ call'[c] = call[c]
                           \/ {call[c].stage, call'[c].stage} \cap {"engine", "finally"} = {}
    BY <1>2, <1>4, <1>7, <1>9 DEF NoCall
  <2> QED
    BY <1>1, <1>2, <2>1, WorkspaceRests
<1>12. ChainInv'
  <2>1. ready' = epoch => pending' = <<>>
    BY <1>1, <1>2, <1>6
  <2>2. \A i, j \in 1 .. Len(pending') : i < j => pending'[i].epoch < pending'[j].epoch
    BY <1>1, <1>3 DEF ChainInv
  <2> QED
    BY <1>1, <1>2, <1>3, <1>4, <2>1, <2>2 DEF ChainInv
<1>13. \A i \in 1 .. Len(pending') : pending'[i].for \in {"calculate", "review"} =>
         pending[1].for \notin {"calculate", "review"}
  <2> SUFFICES ASSUME NEW i \in 1 .. Len(pending'),
                      pending'[i].for \in {"calculate", "review"},
                      pending[1].for \in {"calculate", "review"}
               PROVE  FALSE
    OBVIOUS
  <2>1. i + 1 \in 1 .. Len(pending) /\ 1 \in 1 .. Len(pending) /\ 1 < i + 1 /\ pending'[i] = pending[i + 1]
    BY <1>2, <1>3
  <2>2. pending[1].epoch = job.epoch /\ pending[i + 1].epoch = job.epoch
    BY <1>1, <2>1 DEF JobInv
  <2>3. pending[1].epoch < pending[i + 1].epoch
    BY <1>1, <2>1 DEF ChainInv
  <2> QED
    BY <1>1, <2>2, <2>3 DEF Jobs
<1>14. JobInv'
  <2>1. \A i \in 1 .. Len(pending') : pending'[i].for \in {"calculate", "review"} =>
          /\ busy /\ call["job"].stage = "idle"
          /\ pending'[i].for = job.kind /\ pending'[i].epoch = job.epoch
    BY <1>1, <1>3 DEF JobInv
  <2>2. CASE UNCHANGED <<busy, job>> /\ call'["job"] = call["job"]
    BY <1>1, <1>2, <1>6, <1>8, <2>1, <2>2 DEF JobInv, AgreeInv, Jobs
  <2>3. CASE /\ Acknowledged(pending[1])
             /\ pending[1].for \in {"calculate", "review"}
             /\ call'["job"] = [NoCall EXCEPT !.stage = "sent", !.kind = pending[1].for,
                                              !.revision = known']
             /\ job' = [job EXCEPT !.revision = known'] /\ busy' = busy
    <3>1. /\ job'.kind = job.kind /\ job'.epoch = job.epoch /\ job'.revision = known'
          /\ call'["job"].stage = "sent" /\ call'["job"].kind = job.kind /\ call'["job"].revision = known'
          /\ ready' = epoch /\ job.epoch = epoch
      BY <1>1, <1>6, <1>9, <2>3 DEF NoCall, Jobs, Acknowledged
    <3> QED
      BY <1>1, <1>2, <1>8, <1>9, <1>13, <2>3, <3>1 DEF JobInv
  <2>4. CASE /\ pending[1].for \in {"calculate", "review"}
             /\ busy' = FALSE /\ job' = NoJob /\ call'["job"] = call["job"]
    BY <1>1, <1>2, <1>4, <1>9, <1>13, <2>4 DEF JobInv
  <2> QED
    BY <1>7, <2>2, <2>3, <2>4
<1>15. DownloadInv'
  BY <1>1, <1>2, <1>5 DEF DownloadInv
<1>16. job'.kind \in {"calculate", "review"} => \/ job' = job /\ call'["job"] = call["job"]
                                                \/ call'["job"].stage = "sent"
  BY <1>4, <1>7 DEF NoCall
<1>17. AgreeInv'
  <2>1. ready' = epoch /\ known' = revision => Current = Shown
    BY <1>1, <1>2, <1>6 DEF AgreeInv, Shown
  <2> QED
    BY <1>1, <1>2, <1>4, <1>8, <1>16, <2>1 DEF AgreeInv, Current, Shown, workspace
<1>18. AnswerInv'
  BY <1>1, <1>2, <1>5, <1>16 DEF AnswerInv, Shown
<1>19. AloneInv'
  <2>1. foreign = 0 /\ ready' = epoch => known' = revision
    BY <1>1, <1>2, <1>6 DEF AloneInv
  <2> QED
    BY <1>1, <1>2, <1>4, <1>5, <1>16, <2>1 DEF AloneInv, workspace
<1>20. ShownIsCurrent'
  BY <1>1, <1>2 DEF ShownIsCurrent
<1> QED
  BY <1>10, <1>11, <1>12, <1>14, <1>15, <1>17, <1>18, <1>19, <1>20 DEF IInv

--------------------------------------------------------------------------------
(* The theorems.                                                           *)

LEMMA Preservation == IInv /\ [Next]_vars => IInv'
<1> SUFFICES ASSUME IInv, [Next]_vars
             PROVE  IInv'
  OBVIOUS
<1>1. CASE Edit \/ SwitchContext \/ Calculate \/ ReviewProduct
  BY <1>1, UserKeeps
<1>2. CASE Download
  BY <1>2, DownloadKeeps
<1>3. CASE SendState
  BY <1>3, SendStateKeeps
<1>4. CASE StateAnswer
  BY <1>4, StateAnswerKeeps
<1>5. CASE CalculateAnswer
  BY <1>5, CalculateAnswerKeeps
<1>6. CASE ReviewAnswer
  BY <1>6, ReviewAnswerKeeps
<1>7. CASE ReportAnswer
  BY <1>7, ReportAnswerKeeps
<1>8. CASE ForeignRequest \/ ForeignAnswer
  BY <1>8, ForeignKeeps
<1>9. CASE Server
  BY <1>9, ServerKeeps
<1>10. CASE UNCHANGED vars
  BY <1>10 DEF vars, workspace, page, IInv, TypeInv, EngineInv, StoredResultIsCurrent, RunningInv, Inside,
               ChainInv, JobInv, DownloadInv, AgreeInv, AnswerInv, AloneInv, ShownIsCurrent, Sent,
               Current, Shown
<1> QED
  BY <1>1, <1>2, <1>3, <1>4, <1>5, <1>6, <1>7, <1>8, <1>9, <1>10 DEF Next

LEMMA Invariance == Spec => []IInv
BY Starting, Preservation, PTL DEF Spec

\* Every variable keeps its type.
THEOREM Types == Spec => []TypeOK
<1>1. IInv => TypeOK
  <2> SUFFICES ASSUME IInv
               PROVE  TypeOK
    OBVIOUS
  <2>1. \A c \in Callers : call[c].stage \in CallStages /\ call[c].kind \in Kinds
    BY DEF IInv, TypeInv, Requests
  <2> QED
    BY <2>1 DEF IInv, TypeInv, ChainInv, JobInv, TypeOK, MaybeBundles
<1> QED
  BY <1>1, Invariance, PTL

\* What the server stores as a result belongs to its present inputs, although the
\* engines run without the lock.
THEOREM StoredIsCurrent == Spec => []StoredResultIsCurrent
<1>1. IInv => StoredResultIsCurrent
  BY DEF IInv
<1> QED
  BY <1>1, Invariance, PTL

\* One request at most is inside an engine, and running says whether one is.
THEOREM OneEngine == Spec => []RunningIsTrue
<1>1. IInv => RunningIsTrue
  <2> SUFFICES ASSUME IInv
               PROVE  RunningIsTrue
    OBVIOUS
  <2>1. Cardinality(Inside) <= 1
    <3>1. CASE Inside = {}
      BY <3>1, FS_EmptySet
    <3>2. CASE Inside # {}
      <4>1. PICK c \in Inside : Inside = {c}
        BY <3>2 DEF IInv, RunningInv
      <4>2. Cardinality({c}) = 1
        BY FS_Singleton
      <4> QED
        BY <4>1, <4>2
    <3> QED
      BY <3>1, <3>2
  <2> QED
    BY <2>1 DEF IInv, RunningInv, RunningIsTrue
<1> QED
  BY <1>1, Invariance, PTL

\* The page shows no result of other inputs or of another context.
THEOREM PageIsCurrent == Spec => []ShownIsCurrent
<1>1. IInv => ShownIsCurrent
  BY DEF IInv
<1> QED
  BY <1>1, Invariance, PTL

\* A page that is ready and waits for nothing agrees with the server, as long as
\* it is the only one to use the workspace.
THEOREM ReadyAgrees == Spec => []AgreedWhenReady
<1>1. IInv => AgreedWhenReady
  BY DEF IInv, AloneInv, AgreeInv, AgreedWhenReady, Shown
<1> QED
  BY <1>1, Invariance, PTL

\* What is saved is what the page shows.
THEOREM SavesShown == Spec => SavedIsShown
<1>1. IInv /\ [Next]_vars => (saved' # saved => saved' = [context |-> selected, bundle |-> inputs])
  <2> SUFFICES ASSUME IInv, [Next]_vars, saved' # saved
               PROVE  saved' = [context |-> selected, bundle |-> inputs]
    OBVIOUS
  <2>1. ReportAnswer
    BY DEF Next, vars, page, Edit, SwitchContext, Calculate, ReviewProduct, Begin, Download, SendState,
           StateAnswer, CalculateAnswer, ReviewAnswer, JobEnds, ForeignRequest, ForeignAnswer, Server
  <2>2. call["download"].ok /\ download.epoch = epoch /\ saved' = call["download"].result
    BY <2>1 DEF ReportAnswer
  <2>3. download.kind # "none" /\ call["download"].stage = "answered"
    BY <2>1 DEF ReportAnswer, IInv, DownloadInv
  <2> QED
    BY <2>2, <2>3 DEF IInv, AnswerInv, Shown
<1> QED
  BY <1>1, Invariance, PTL DEF Spec, SavedIsShown

================================================================================
