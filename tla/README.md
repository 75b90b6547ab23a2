# TBDY: specifications of the ETABS runtime, the rule kernel and the column page

The repository checks buildings against the Turkish earthquake code TBDY 2018. Most of it turns
tables into records and records into verdicts: deterministic, sequential, numeric Python. Three
parts are hard to test, and these specifications are about them:

- what drives a *live* ETABS process through COM: one thread owns the COM apartment, other threads
  queue calls on it with deadlines, and on top of that, stateful sequences copy the model an
  engineer has open, change it, run it, design it, read results and put things back;
- the kernel that binds the rules of the code to each other and to their evidence, orders and
  executes them, and must not give a verdict on evidence that is missing;
- the column page, whose requests overlap on a server that keeps one result per workspace, while
  the engineer goes on editing.

Paths below are relative to the repository; `etabs_gateway/` stands for
`packages/etabs_gateway/src/etabs_gateway/`.

## 1. Inventory

| Part | State it keeps | Operations | What makes it correct |
|---|---|---|---|
| STA worker, `etabs_gateway/worker.py` | worker state, task queue, three events, futures, the thread | `start`, `submit`, `call`, `close`, the thread's loop | a call told "did not start" never runs; a timed-out running call poisons the worker for good; CLOSED is final and quiet; nothing waits for ever |
| COM apartment, `etabs_gateway/com_apartment.py` | initialised or not, owning thread | `initialize`, `finalize` | only the worker thread calls it, once each |
| Gateway session and connection, `etabs_gateway/session.py`, `connection.py`, `mutation_transport.py` | session state, context, COM references | `start`, `close`, `health`, bounded reads and mutations | health is truthful; references are released by the thread that owns them; CLOSED is final |
| Verified session and selection transactions, `tbdy_engine/etabs/safety.py`, `_safety_legacy.py` | the process-local lock, a snapshot per transaction | enter, select, fetch, exit | a fetch sees exactly its selection; the display state is as found afterwards, or an error says that it is not |
| ETABS calls, `tbdy_engine/etabs/oapi/` | none | one typed call each | return codes and shapes are checked |
| Owned scratch (B4S), `tbdy_engine/integration/etabs_scratch_lifecycle.py` | a copy of the model on disk, the model open in ETABS | `create_owned_scratch_context` | an ownership proof is issued only for an exact copy that is open; the source is untouched |
| Analysis state mutation (B4B), `.../etabs_analysis_state_mutation.py` | modifiers of each target before, asked for, read back | `establish_section_modifier_analysis_state`, its frame variant | what is issued is established; what an error says of the restoration is true |
| Controlled analysis (B5), `.../etabs_analysis_execution.py` | run flags before, generation of results | `execute_controlled_analysis` | results belong to the state and scope they claim; flags are restored |
| Lineage and revalidation, `.../etabs_analysis_lineage.py`, `etabs_analysis_state_revalidation.py` | evidence of earlier stages | rechecks before, between and after the calls of B5 | stale evidence is refused |
| Controlled design (B6), `.../etabs_controlled_design_execution.py` | the selected combinations, the design run | preflight, start, capture | an issued design is the one just run, on the analysis it names and the selection it planned |
| Regulatory kernel, `tbdy_engine/regulatory/kernel.py`, `contracts.py`, `registry.py` | the plan; the store of quantities, results and outcomes | `compile`, `execute`, `reconcile` | one plan for one set of declarations; refused exactly for a cycle; executed exactly if nothing it rests on is troubled; two accounts that agree |
| Column web application, `apps/column_v2/server.py`, `index.html` | server: bundle of inputs, context, revision and result of a workspace, `running`; page: what it shows, its pending requests | save, review, calculate, export; edit, load | nothing computed from other inputs is stored, shown or saved; one engine at a time; the page's lock is released |
| Rules and admission, acquisition adapters, features, design, checks, products, reports | none beyond one call | pure transformations, rendering | numeric agreement with the code's tables |
| Tools, vendored MCP server | scripts | offline use | not part of the runtime |

How they interact. An application thread calls the session; the session takes its own lock for
single assignments only and otherwise calls `start()`, `call()` or `close()` of the worker; the
worker takes its lock for its state and hands functions to its thread by a queue and a `Future`.
The functions are closures of the connection and the ETABS calls of the layers above. The
selection transactions run *inside* such a function, so two sessions, each with its own worker
thread, contend for one ETABS and are kept apart by one process-local lock. B4S, B4B and B5 run on
an application thread, one bounded call after another, with nothing that stops the operator from
using ETABS in between; what B4S issues is an argument of B4B, B5 and B6 in turn. The rules of the
kernel read evidence collected before; the kernel touches no ETABS. The column page and its server
share nothing with the gateway; they share the workspace's state with each other by requests, each
on a thread of its own, and with any other program that sends requests.

Hard behaviours, each listed in `PROJECT.json` under `hazards` with its line: a deadline that
expires while the thing waited for happens; a close that overlaps a start; calls that had their
effect and then failed; calls that have their effect *later*; roll-backs that fail half-way; a
check and the use of what was checked in two calls; a file that is read twice while somebody writes
it; an answer that arrives after the question was changed; a chain of rules whose first link has no
data.

## 2. Modules

| Module | Models | State ↔ code |
|---|---|---|
| `StaWorker` | `DedicatedSTAWorker` | `state`, `ready`, `stopRequested`, `startupCancelled`, `finalizerError`, `queue` are the attributes; `future[t]` the `Future`; `thread` and `stack` the program counter and call stack of `_thread_main`; `pc`, `task` that of each caller |
| `SerialExecutor` | what the worker promises: a serial first-in-first-out executor with withdrawal, nested calls and one end | abstract |
| `Subsequences` | the members of a set in the order of a sequence, for the queues of `SerialExecutor` and `StaWorker`; a recursive function, because the proof system does not know `SelectSeq` | – |
| `StaWorkerProofs` | theorems about `StaWorker` | – |
| `GatewaySession` | `ETABSGatewaySession` and its connection; EXTENDS `StaWorker` and composes with it | `session` is `_state`, `context` is `_context is not None`, `attached` the COM references; the tasks of the worker are the connection's closures, which the worker thread runs |
| `GatewaySessionProofs` | theorems about `GatewaySession`, on top of `StaWorkerProofs` | – |
| `SelectionTransaction` | `DatabaseTablesReadTransaction`, `ResultsSetupReadTransaction` | `etabs` is the display and output state ETABS holds, `lock` the process-local lock, `snapshot`, `modal` the attributes of each transaction object, `at` its place in the `with` statement |
| `ReversibleRead` | what such a transaction promises: exclusive, and restored or reported | abstract |
| `SelectionTransactionProofs` | theorems about `SelectionTransaction` | – |
| `ModifierMutation` | `establish_section_modifier_analysis_state` | `active`, `locked`, `value` are ETABS; `gateway`, `late` the session beneath; `before`, `applied`, `after` the local variables; `undo` the loop of the restoration |
| `ModifierMutationProofs` | theorems about `ModifierMutation` | – |
| `OwnedScratch` | `create_owned_scratch_context` | `source`, `scratch` are the files, each of two halves, for a reader may be in the middle when somebody writes; `opening` the call that opens the copy, also when it comes late; `head`, `pre` what was read so far; `cleanup` the proof issued or the error's status |
| `OwnedScratchProofs` | theorems about `OwnedScratch` | – |
| `AnalysisExecution` | `execute_controlled_analysis` with the revalidation | `flags` (run flags), `rows` (results per case) and `state` (the analysis state) are ETABS; `requested`, `found`, `snapshot`, `enabled`, `post`, `used` the local variables; `plan`, `goal`, `undone` the restoration; `step` the place; `late` the hung calls; `result`, `status` what is issued or what the error says |
| `DesignExecution` | `execute_controlled_concrete_design` | `selection`, `designs` are ETABS; `planned`, `selected`, `captured` the local variables; `stage` the place |
| `ScratchPipeline` | B4S, B4B, B5 and B6 one after the other; EXTENDS `AnalysisExecution` and instantiates `OwnedScratch` and `DesignExecution` on the same ETABS, files and session. B4B is one step here | `phase` is the stage under way |
| `ScratchPipelineProofs` | theorems about `ScratchPipeline`, and so about B5 and B6 in it | – |
| `ColumnWorkspace` | the server: `Workspace` and the methods of `ColumnWorkspace` that the request handlers call | `context`, `bundle`, `revision`, `calculation`, `product_calculation`, `running` are the attributes; `call` the thread of each request |
| `ColumnPage` | the script of the page; EXTENDS `ColumnWorkspace` and composes with it | `epoch`, `ready`, `busy`, `result`, ... are its variables; `pending`, `job`, `download` the requests whose answers it awaits |
| `ColumnPageProofs` | theorems about `ColumnPage` and the server beneath | – |
| `RegulatoryKernel` | `RegulatoryCompiler`, `RegulatoryEngine`, `AssessmentEngine` | `bound`, `order` are the plan; `indegree`, `ready` the loop that orders it; `quantities`, `results`, `outcomes` the store; `assessment`, `closure` the structural assessment |
| `RegulatoryKernelProofs` | theorems about `RegulatoryKernel` | – |
| `MC*` | instances for TLC | – |

Grain of a step. In `StaWorker` and `GatewaySession` a step is one critical section of the lock or
one call on an object that is shared without the lock (`Event.set`, `Queue.put`, `Future.cancel`,
...), because any two of those may be interleaved. In `SelectionTransaction`,
`ModifierMutation`, `AnalysisExecution` and `DesignExecution` a step is one call on ETABS. The lock of a transaction is held throughout, so
consecutive reads are one step; in `ModifierMutation` the operator may move between any two calls,
and the reads that are merged into one step are those the code compares with each other at once. In
`OwnedScratch` half a file is read at a time. In `ColumnWorkspace` a step is one section
under the server's lock; in `ColumnPage` a script runs to its next `await`. The kernel is
sequential: finding and validating the bindings is one step, since it stops at the first error and
leaves nothing behind, and each round of its two loops is one.

Time. No clock is modelled. A deadline may expire at any moment at which the code is still waiting,
which contains every real timing.

ETABS. A setter may write what was asked, something else, or nothing, whatever it answers. A call
that hangs may have its effect later (`LateWrite`). The operator is an environment action with a
bound (`MaxMoves`).

Definitions that begin with the comment "Mutant" are plausible bugs in the definition after
them. They belong to no next-state relation; each shows that some property would notice the bug.

## 3. Runs

| Run | Instance | Shows |
|---|---|---|
| `worker` | 2 callers, 2 tasks (184,803 states) | `TypeOK`; `WithdrawnNeverRuns`; `ClosedMeansQuiet`; `ClosedIsFinal`; `PoisonSticks`; `NothingStranded`; the worker implements `SerialExecutor`; `OperationsReturn`, even when a task hangs; `StopEndsThread` when tasks end |
| `worker_call_error` | 2 callers, 2 tasks | violation: finding 1 |
| `session_safety` | 2 callers, attach, context read, 2 bounded calls, 3 detaches | `HealthIsTruthful`, `CleanCloseReleases`, `FailedStartReleases`, `ClosedSessionIsFinal` |
| `session_race` | close may overlap start | violation: finding 2 |
| `session_release` | deadlines may be missed | violation: finding 3 |
| `selection` | 2 table reads, 1 results read | `FetchSeesSelection`, refinement of `ReversibleRead`, `EveryReadEnds` |
| `mutation` | 3 targets, 1 move of the operator | `IssuedIsEstablished`, `NotRequiredMeansUntouched`, `RestoredIsTruthful` |
| `mutation_drift` | 2 targets, 1 move | violation: finding 4 |
| `pipeline` | 5 load cases (a static one, a spectrum and its modal case, one that ETABS manages, one that an unlock removes), 4 scopes, 2 columns, 2 selections, 2 versions of the source, 1 move (3,177,170 states) | B4S: `ScratchIsExactCopy`, `CleanupIsTruthful`. B5: `IssuedIsOwn`, `IssuedLeavesScope`, `RunsFreshScope`, `RestoredIsTruthful`, `NotRequiredBoundsDamage`. B6: `DesignIsOwn`, `DesignIsSelected`. From end to end: `DesignRestsOnAnalysis` |
| `design_source` | B6 alone, 1 move | violation: finding 5 |
| `workspace` | the page with 3 epochs, another program with one request, malformed inputs, an audit file that fails (818,036 states) | `StoredResultIsCurrent`, `RunningIsTrue`, `ShownIsCurrent`, `AgreedWhenReady`, `SavedIsShown`, `BusyEnds` |
| `kernel` | 3 derivations and a check with every small net of dependencies among up to 5 instances, sources that do not resolve or fit, one odd target (225,008 states) | `PlanIsCanonical`, `RefusedForCycle`, `ExecutedIffUntroubled`, `AssessmentAgrees` |

Type invariants of modules with proofs are proved instead of run (`worker` and `pipeline` keep
theirs, because their other properties say little of every variable).

Why the bounds are enough. Two callers of the worker are any two of one that starts, one that calls
and one that closes, inside at once; the safety properties of `worker` are proved for any number of
both (section 5). Two tasks are one running and one queued behind it, or one nested in the other.
The two callers of the session are two of start, use and close; three detach tasks are one for each
clean-up the two callers and a repeated close can begin. Two table transactions contend with each
other and with one of the other kind, and a transaction that waits has no state but its wait. In a
plan of three targets one is restored first, one in the middle and one last.

One move of the operator is what `IssuedIsEstablished` tolerates: with two, the operator can open
another model before a setter and the scratch again after the read-back, and neither the setter nor
the read-back, which agree with each other, notices. TLC violates the property with
`MaxMoves = 2`, and for the same reason `IssuedIsOwn` and `DesignIsSelected` of `pipeline`: the code
looks at the active model before and after a call, not during it. The move of `pipeline` may fall
anywhere in the four stages. `ScratchIsExactCopy` tolerates four writes of the source, no more:
with five the halves that were read can be of two versions every time. The
properties that do not need these bounds are proved without them, `IssuedIsOwn` and
`DesignIsSelected` for any bound as long as `moves <= 1` (section 5).

Three epochs of the page are an edit before, during and after a calculation, or an edit, a change of
context and a late answer; one foreign request is what makes the revision of the page stale. Five
instances are a producer, two consumers, and an instance of each for another scope: enough for a
diamond, for cycles of two and three, and for several candidates for one dependency.

`session_safety` assumes that `close()` does not begin while another thread is inside `start()`
(`ConcurrentClose = FALSE`); finding 2 is what happens otherwise. Deadlock is checked in the worker
and session runs. It is off for the others: a `with` statement, an establishment, a pipeline and an
execution of the kernel end, and the users of the page may stop.

### Findings

1. **A success reported as a failure** (`worker.py` 230). After its deadline `call()` asks
   `future.done()` and reports any completed future as a failed operation, also one that has
   completed *successfully* in between. For a setter the caller believes that the model was not
   changed.
2. **A closed session that becomes healthy** (`session.py` 162). The last critical section of
   `start()` sets READY without looking at the state, so a `close()` that returned True meanwhile is
   undone: `health()` reports HEALTHY with nothing attached.
3. **References that outlive their apartment** (`session.py` 283). An attach whose deadline expires
   completes after the clean-up found nothing to detach; the worker thread then leaves its COM
   apartment with the references still held.
4. **A restoration that writes another model** (`etabs_analysis_state_mutation.py` 1646–1648). The
   active model is checked, then the setter called; an operator who opens another model in between
   has the scratch's original modifiers written into it. When that was the last target to restore,
   the error even says RESTORED. `RestoredIsTruthful` therefore speaks of an operator who leaves
   ETABS alone.

5. **A design on a source that changed** (`etabs_controlled_design_execution.py` 344). B4S, B4B and
   B5 compare the protected source file with its baseline before they issue; B6 reads its results and
   issues them without a look at the file. `ETABS_EXECUTION_LIFECYCLE_CENSUS.md` (340) lists "source
   integrity unchanged" among the postconditions of the design.

Smaller observations, made while modelling, that no run shows:

- B6 does not look at the active model again after it has read the results.
- B6 does not ask for the modifiers or the analysis state again, so a change between B5 and B6 is
  seen by nobody.
- The census asks for a new attempt identifier when an execution is retried; B5 takes a random one,
  B6 the digest of its inputs (286–297), which a retry repeats.
- "Failed before run-scope mutation" (`etabs_analysis_execution.py` 2395) is also said when the first
  setter took effect and then raised; `NotRequiredBoundsDamage` states what remains true.
- `server.py` writes its audit record after it has set `running` and before the `try` that resets it
  (133, 256): when the file cannot be written, `running` stays set and every later calculation is
  refused. `RunningIsTrue` does not catch this: it sets the case apart (`stuck`) and says that
  `running` is true of the engines in every other.
- The snapshot of a fresh copy may raise an `OSError` that nothing turns into an error with a cleanup
  status (`etabs_scratch_lifecycle.py` 494): the copy stays behind and nobody is told.
  `CleanupIsTruthful` is about the errors that carry a status and leaves this ending free.
- A packet that is being imported sets the page's packet to null before its answer arrives
  (`index.html` 158–168); an edit meanwhile raises in `readProductInputs`.
- The kernel converts values to the unit asked for before it assesses readiness (`kernel.py` 872): a
  source in another unit with NO_DATA, whose value is no number, raises `KernelExecutionError`, and
  the execution ends without a snapshot instead of with NO_DATA for one instance. The action `Fail`
  has this case.
- When several dependencies of an instance fail, the status is that of the last one declared
  (`kernel.py` 457–465), so it depends on the order of declaration; `Hold` leaves it open.
- A `Thread.start()` that fails (`worker.py` 135) leaves the worker STARTING, and later starts wait
  for their deadlines; the model assumes that threads can be created.

Where the code's guarantee is weaker than one would first write it, the property says so next to
its definition: `NothingStranded` excludes a start that expired and a thread that never served,
`HealthIsTruthful` is about the attachment only, `IssuedIsEstablished` allows one move.

## 4. Fairness

- Callers of the worker are scheduled (`WF` of each caller's own steps) and every wait of theirs has
  a deadline that may expire, so `OperationsReturn` assumes nothing of ETABS: a caller returns even
  when the function it waits for hangs.
- `StopEndsThread` has the progress of the worker thread as its premise. That includes that the
  functions it runs end, which the code cannot guarantee and does not claim.
- A transaction runs on a thread that is scheduled, acquires a lock without a deadline, and calls
  ETABS directly. `EveryReadEnds` assumes (weak fairness of its steps) that ETABS answers. The lock is
  acquired at most once by each transaction, so weak fairness of the acquisition is enough.
- `ModifierMutation`, the pipeline and the kernel have no liveness property: each is a straight line
  with loops over a finite plan.
- Each request of the page runs on a thread of its own, and the page's event loop sends what is
  pending and handles each answer once: `BusyEnds` assumes weak fairness of these steps, and nothing
  of the user or of other programs. Engines are assumed to end or to raise.

## 5. What is proved

All for any number of callers, tasks, transactions, targets, requests and rules; the only
assumptions are the named `ASSUME`s on the constants (distinct sentinels, disjoint kinds, a nonempty
plan without repetitions, well-formed inputs), which TLC evaluates in the runs.

**`StaWorkerProofs`**: `TypeOK`, `ClosedMeansQuiet`, `ClosedIsFinal`, `WithdrawnNeverRuns`,
`PoisonSticks`, `NothingStranded`. The inductive invariant is `TypeOK` with four parts, each
inductive relative to those before it. `LifeInv` says where the thread can be in a worker that is
new, closed or being joined; without it a second `start()` could follow a `close()`. `TaskInv` says
who may hold a task: no two callers hold the same one, and a task not yet handed over has no future.
This is what makes "withdrawn" exclude "begun". `PoisonInv` says that a worker with a call in
flight is past its start, so that no late `_decide` makes it RUNNING again. `StopInv` ties the
sentinel in the queue to the end of the intake.

The same module proves the refinement `Spec => ImplementsExecutor`, for any callers and tasks. The
abstract queue is the subsequence of the pending tasks in the concrete one, so what `Among` does
under append, tail and a smaller set has to be proved for sequences of any length. The library's
induction theorems take an operator and cannot be used; `NatSetInduction` and `SeqSetInduction`
state induction for the set of the values that have the property instead, from the well-foundedness
of strict inclusion on finite sets. Three more invariants are needed. `HolderInv`: a caller outside a
call holds no task, and one that waits has handed its task over. `OpeningInv`: a thread that has not
yet announced itself finds a worker still STARTING or one told to stop, so an intake that was shut
never opens again. `QueueInv`: the queue holds each waiting task once, and beside them only withdrawn
tasks and sentinels. Every step of the worker has one of nine effects on the tasks (`Effect`: it
idles, refuses, accepts, withdraws, skips, begins, nests, finishes or ends), and each effect is a step
of the executor or none; what the step does to the intake is a separate case (`IntakeStepMaps`).

**`GatewaySessionProofs`**: the type invariant and all four properties of the run `session_safety`,
for any number of callers, clean-ups and bounded calls, where no `close()` begins during a `start()`
(with such a `close()` they fail: `session_race`), and `WithdrawnNeverRuns` beneath a session. Every
step of the session is a step of the worker or leaves it alone, so the invariant of
`StaWorkerProofs` holds underneath; `FutureInv`, `IntakeInv` and `HeldInv` add who waits for which
task and that only a stop request ends a serving thread. On top of them `RoleInv` says that a session
has one caller that starts it and that closes exclude a start; `DetachInv`, that no attach runs once
a detach was handed over; `AttachInv`, what the connection holds; `CloseInv` and `ReleaseInv`, how a
clean-up leaves the worker and the connection. The centre is that a failed start whose deadlines were
kept finds a worker that serves its detach: nobody has told the worker to stop, so the thread that
ran the attach is still in its loop. The steps of the worker enter these proofs by their effects
(`CallEffect`, `CloseEffect`, `CallerEffect`, `ThreadEffect`) only.

**`OwnedScratchProofs`**: `CleanupIsTruthful` and `ScratchIsExactCopy`. The source is written whole
and read in two halves, so what was read may be of two versions. The argument counts: the source is
read for its digest, for the copy and for its digest again, and the three agree, so a copy of mixed
halves costs a write between any two of the reads of halves: five. `ReadInv` and `CopyInv` bound the
writes made so far from below by what the halves read one after the other differ by.

**`ColumnPageProofs`**: all safety properties of the run `workspace`, for any inputs, any number of
requests, epochs and foreign programs. `EngineInv` and `RunningInv` tie `running` to the one request
inside an engine. `ChainInv` says that the last request of the page's chain carries what the page
shows, `AgreeInv` that a page whose chain is empty agrees with the server unless a foreign request
came between, `JobInv` and `DownloadInv` which revision and epoch an awaited answer belongs to,
`AnswerInv` that what is on its way for the present epoch is of what the page shows; revisions never
repeat, so an answer of the present revision is about the present inputs. `AloneInv` is the same
without foreign programs, for `AgreedWhenReady`.

**`RegulatoryKernelProofs`**: `TypeOK`, `PlanIsCanonical`, `RefusedForCycle`,
`ExecutedIffUntroubled`, `AssessmentAgrees`, for registries, targets and sources of any size. The
assumption `InputsAssumption` is what the constructors enforce (finitely many targets, distinct
identifiers, no quantity with two producers). `IsPlan` says of the order under construction that it
is closed under producers, that at each place the least instance was taken whose producers were all
before it, and that the counters are the producers not yet placed; hence it is the least of all
orders, and what is left when nothing is ready is a cycle. `RecordInv` says for each instance already
recorded that its status is what its own answer and the records of its producers make it (`Told`,
`Reasoned`); `ExecutedIffUntroubled` follows because producers come first, and the reconciliation
(`Assessed`) because every artifact has the record that was made with it.

**`ModifierMutationProofs`**: `NotRequiredMeansUntouched` for any number of moves,
`RestoredIsTruthful`, and `IssuedIsEstablished` under `MaxMoves <= 1`. `ProgressInv` relates the step
to the targets entered and to those left to undo: a restoration that starts after a setter was
entered never finds an empty list, which is why NOT_REQUIRED is truthful. `LateInv` says that a hung
call leaves a failed session, and that the loop of a restoration runs only in a serving one: a late
write and RESTORED exclude each other. `AloneInv` and `EstablishedInv` say which targets hold what.

**`SelectionTransactionProofs`**: `TypeOK`, `FetchSeesSelection` and the refinement
`Spec => ImplementsReversibleRead`. The invariant speaks of the transaction inside only:
`SnapshotInv` (the snapshot is what it found), `OptionsInv` (the modal options are as found until
saved, and again after a restoration that did not fail), `CoreInv` (the selection is exact while it
is read). Others are outside because they do not hold the lock, so their steps cannot disturb it.
Entering maps to `Begin`, a failed snapshot and the exit to `End`, everything else to `Change`.

**`ScratchPipelineProofs`**: every property of the run `pipeline`, for any load cases, scopes,
columns and selections and any number of moves of the operator, under `AnalysisExecutionAssumption`
and `PipelineAssumption` (what was read of a source of one version is of no other). `PipelineInv`
has a part per phase, and each phase leaves the parts of the earlier ones true.
The creation is counted as in `OwnedScratchProofs`, whose lemmas are used through an `INSTANCE` with
the moves as writes. Of the analysis, `PlanInv` and `GoalInv` say what the restoration aims at,
`LateInv` that a hung call leaves a failed session that nothing survives that goes on, so that
RESTORED and a late change exclude each other. `AloneInv` says what ETABS holds at each step as long
as only the execution acts; `OwnInv` what one move of the operator can do to that: it opens another
model, and then one of the later bindings fails, or it edits the scratch for good, and a later
read-back sees it. So an issued execution is of the scratch and of the flags it set, and the move has
to come after the last look (`IssuedIsOwn`, `IssuedLeavesScope`, `RestoredIsTruthful`,
`NotRequiredBoundsDamage`). `DesignAloneInv` and `SelectedInv` say the same of the design, and
`DesignInv` that it holds the issued analysis it started from. The bound of one move is in the
statement where it is needed (`moves <= 1 => ...`), never an assumption on `MaxMoves`.

Only model-checked: all liveness (fairness and ENABLED are out of the prover's reach).

## 6. What is not modelled

- Inside the modelled parts: argument validation, wording and classes of errors, diagnostics,
  evidence digests and their parsing. They change no state the properties are about.
- The sizes of files in `OwnedScratch`: B4S compares them beside the digests, which can only refuse
  more. That a snapshot's size and digest may be of two versions is seen through the digests only.
- Which ETABS instance an attach finds and by which strategy: it succeeds or fails.
- Load patterns selected for display: compared at the exit, never written.
- The operator in `SelectionTransaction`: nothing in the process can see what he does between the
  verification and the fetch. `docs/COLUMN_R1_R3L_P2_CAPTURE_DESIGN_2026-10-11.md` (70–72) asks for an
  exclusive observation window instead.
- Evidence records, their digests and the lineage built from them (B4S to B6): immutable values that
  are compared, in the models by what they stand for.
- The column server: creating workspaces up to their limit, importing and exporting packets.
- The kernel: values, the catalogue of sources (`authority.py`), the digest that names a plan, a
  required availability other than RESOLVED (no rule has one), the order of declaration.
- The rules, and the design, check, feature, product and report packages: sequential arithmetic on
  floating-point numbers and rendering. There is no state to explore, and TLC has no reals.

## 7. Plan

1. Done: `StaWorker`, `SerialExecutor`, `SelectionTransaction`, `ReversibleRead`,
   `GatewaySession`, `ModifierMutation`, `OwnedScratch`, `AnalysisExecution`, `DesignExecution`,
   `ScratchPipeline`, `ColumnPage`, `RegulatoryKernel` with their proofs.
2. An abstract specification "change, use, restore or report" that both `ModifierMutation` and
   `AnalysisExecution` implement, and the proof that they do.
3. `ModifierMutation` as a stage of `ScratchPipeline` instead of the single step `Establish`.
