------------------------------ MODULE RegulatoryKernel ------------------------------
(***************************************************************************)
(* The kernel that runs the rules of the code (regulatory/kernel.py, with  *)
(* contracts.py and registry.py): a registry of derivations and checks is  *)
(* compiled for a set of targets into a plan, the plan is executed, and    *)
(* the snapshot of the store is reconciled with the plan.                  *)
(*                                                                         *)
(* The rules themselves (their applicability, their evaluators) and the    *)
(* evidence they read come from outside.  What is left out of the data:    *)
(* values; diagnostics; digests; the catalogue of sources.  A type stands  *)
(* for the semantic type and the physical dimension, within which units    *)
(* are convertible.  Every rule of the repository requires RESOLVED        *)
(* dependencies, so the required availability is not a field.              *)
(***************************************************************************)
EXTENDS Naturals, Sequences, FiniteSets

CONSTANTS
  Inputs,  \* what may be compiled: records of rules, targets and authorities
  Rank     \* of a rule instance in the lexical order of identifiers

VARIABLES
  input,       \* what is compiled
  phase,
  bound,       \* the source of each dependency of each instance
  indegree,    \* of an instance: its producers that are not in the order yet
  ready,       \* the instances with none left
  order,       \* deterministic_execution_order
  at,          \* the position of the execution in it
  quantities,  \* of the store: the derived quantities,
  results,     \*   the status of each check result,
  outcomes,    \*   and how each instance ended, with the artifact it refers to
  assessment,  \* the outcome of each instance by the reconciliation
  closure      \* the structural status

plan == <<bound, indegree, ready, order>>
store == <<quantities, results, outcomes>>
vars == <<input, phase, plan, at, store, assessment, closure>>

Availabilities == {"RESOLVED", "NO_DATA", "BLOCKED", "NOT_APPLICABLE"}
Ended == {"EXECUTED", "PROVEN_NOT_APPLICABLE", "BLOCKED", "NO_DATA", "INVALID"}
Statuses == Ended \cup {"MISSING", "DUPLICATE"}

NoOutput == [key |-> "none", type |-> "none", grain |-> "none", unit |-> "none"]
NoOutcome == [status |-> "none", of |-> "nothing"]

\* What the constructors of registries, targets and inputs ensure: finitely many
\* targets and authorities, identifiers that tell instances apart, and no quantity
\* that two rules produce.
WellFormed(in) ==
  /\ IsFiniteSet(in.targets) /\ IsFiniteSet(in.authorities)
  /\ \A t \in in.targets :
       /\ t.instance = [rule |-> t.instance.rule, grain |-> t.instance.grain,
                        scope |-> t.instance.scope, direction |-> t.instance.direction]
       /\ t.instance \notin in.authorities
       /\ Rank[t.instance] \in Nat
       /\ \A u \in in.targets : Rank[u.instance] = Rank[t.instance] => u.instance = t.instance
  /\ \A r, s \in {x \in DOMAIN in.rules : in.rules[x].output # NoOutput} :
       in.rules[r].output.key = in.rules[s].output.key => r = s

ASSUME InputsAssumption == \A in \in Inputs : WellFormed(in)

--------------------------------------------------------------------------------
(* What the inputs say.                                                    *)

\* An instance is a rule for a scope: [rule, grain, scope, direction].
Instances == {t.instance : t \in input.targets}
Target(i) == CHOOSE t \in input.targets : t.instance = i

Applies(i) == Target(i).applicability = "APPLIES" /\ Target(i).basis = "MATCH"

Output(i) == input.rules[i.rule].output
IsDerivation(i) == Output(i) # NoOutput

\* The dependencies of a rule, by their keys.
Deps(i) == input.rules[i.rule].deps

\* A source is an instance that produces a quantity, or an external authority.
Candidates(i, k) ==
  IF Deps(i)[k].source = "quantity"
  THEN {j \in Instances : IsDerivation(j) /\ Output(j).key = k}
  ELSE {a \in input.authorities : a.key = k /\ a.kind = Deps(i)[k].source}

InScope(i, d, s) ==
  IF d.scope = "same" THEN s.scope = i.scope ELSE s.grain = "MODEL" /\ s.scope = "MODEL"

InDirection(i, d, s) ==
  CASE d.direction = "none" -> s.direction = "none"
    [] d.direction = "same" -> i.direction # "none" /\ s.direction = i.direction
    [] d.direction = "any"  -> TRUE

Fits(i, k, s) == InScope(i, Deps(i)[k], s) /\ InDirection(i, Deps(i)[k], s)

\* A single candidate is taken as it is; of several, the one that fits.
Choices(i, k) ==
  IF Cardinality(Candidates(i, k)) = 1
  THEN Candidates(i, k)
  ELSE {s \in Candidates(i, k) : Fits(i, k, s)}

Contract(s) == IF s \in Instances THEN Output(s) ELSE s

Valid(i, k, s) ==
  /\ Contract(s).type = Deps(i)[k].type
  /\ Contract(s).grain = Deps(i)[k].grain
  /\ Fits(i, k, s)
  /\ Deps(i)[k].full /\ s \notin Instances => s.complete

\* _expand: targets are of registered rules, one for an instance, of the grain of
\* the output, and every rule has one.
Expandable ==
  /\ \A t \in input.targets :
       /\ t.instance.rule \in DOMAIN input.rules
       /\ \A u \in input.targets : u.instance = t.instance => u = t
       /\ IsDerivation(t.instance) => t.instance.grain = Output(t.instance).grain
  /\ \A r \in DOMAIN input.rules : \E i \in Instances : i.rule = r

Bound == [i \in Instances |-> [k \in DOMAIN Deps(i) |-> CHOOSE s \in Choices(i, k) : TRUE]]

Compilable ==
  /\ Expandable
  /\ \A i \in Instances : \A k \in DOMAIN Deps(i) :
       /\ Cardinality(Choices(i, k)) = 1
       /\ Valid(i, k, Bound[i][k])

--------------------------------------------------------------------------------
(* The plan.                                                               *)

\* Of b, the bindings of the plan.
Producers(b, i) == {j \in DOMAIN b : \E k \in DOMAIN b[i] : b[i][k] = j}

\* Mutant: the ready list is popped at its end.
Greatest(S) == CHOOSE i \in S : \A j \in S : Rank[j] <= Rank[i]

Least(S) == CHOOSE i \in S : \A j \in S : Rank[i] <= Rank[j]

Init ==
  /\ input \in Inputs
  /\ phase = "compile"
  /\ bound = << >> /\ indegree = << >> /\ ready = {} /\ order = << >>
  /\ at = 1
  /\ quantities = {} /\ results = << >> /\ outcomes = << >>
  /\ assessment = << >> /\ closure = "none"

\* Everything up to _topological: a static error, or the bindings.
Compile ==
  /\ phase = "compile"
  /\ IF Compilable
     THEN /\ phase' = "order"
          /\ bound' = Bound
          /\ indegree' = [i \in Instances |-> Cardinality(Producers(Bound, i))]
          /\ ready' = {i \in Instances : Producers(Bound, i) = {}}
     ELSE phase' = "refused" /\ UNCHANGED <<bound, indegree, ready>>
  /\ UNCHANGED <<input, order, at, store, assessment, closure>>

\* One round of the loop of _topological.
Take ==
  /\ phase = "order"
  /\ ready # {}
  /\ LET current == Least(ready)
         Freed(i) == current \in Producers(bound, i)
     IN  /\ order' = Append(order, current)
         /\ indegree' = [i \in DOMAIN bound |-> IF Freed(i) THEN indegree[i] - 1 ELSE indegree[i]]
         /\ ready' = (ready \ {current}) \cup {i \in DOMAIN bound : Freed(i) /\ indegree[i] = 1}
  /\ UNCHANGED <<input, phase, bound, at, store, assessment, closure>>

\* Mutant: whether every instance has found its place is not asked.
OrderedAnyway ==
  /\ phase = "order" /\ ready = {}
  /\ phase' = "execute"
  /\ results' = [i \in DOMAIN bound |-> "none"]
  /\ outcomes' = [i \in DOMAIN bound |-> NoOutcome]
  /\ UNCHANGED <<input, plan, at, quantities, assessment, closure>>

\* The plan is emitted, and its execution begins with an empty store; or there is
\* a cycle.
Ordered ==
  /\ phase = "order" /\ ready = {}
  /\ IF Len(order) = Cardinality(DOMAIN bound)
     THEN /\ phase' = "execute"
          /\ results' = [i \in DOMAIN bound |-> "none"]
          /\ outcomes' = [i \in DOMAIN bound |-> NoOutcome]
     ELSE phase' = "refused" /\ UNCHANGED <<results, outcomes>>
  /\ UNCHANGED <<input, plan, at, quantities, assessment, closure>>

--------------------------------------------------------------------------------
(* RegulatoryEngine.execute: one round of its loop.                        *)

Current == order[at]

Executing == phase = "execute" /\ at <= Len(order)

Record(status, artifact) ==
  /\ outcomes' = [outcomes EXCEPT ![Current] = [status |-> status, of |-> artifact]]
  /\ at' = at + 1
  /\ UNCHANGED phase

\* Mutant: what no quantity was produced of is taken for blocked by nothing.
AvailableByDefault(i, k) ==
  LET s == bound[i][k]
      derived == {q \in quantities : q.producer = s /\ q.key = k}
  IN  IF s \notin DOMAIN bound THEN s.availability
      ELSE IF derived # {} THEN (CHOOSE q \in derived : TRUE).availability
      ELSE IF outcomes[s].status = "NO_DATA" THEN "NO_DATA" ELSE "RESOLVED"

\* _materialize: what an instance finds of a dependency.
Available(i, k) ==
  LET s == bound[i][k]
      derived == {q \in quantities : q.producer = s /\ q.key = k}
  IN  IF s \notin DOMAIN bound THEN s.availability
      ELSE IF derived # {} THEN (CHOOSE q \in derived : TRUE).availability
      ELSE IF outcomes[s].status = "NO_DATA" THEN "NO_DATA" ELSE "BLOCKED"

Incomplete(i, k) ==
  Deps(i)[k].full /\ bound[i][k] \notin DOMAIN bound /\ ~bound[i][k].complete

\* What the failing dependencies of an instance say: the last one declared
\* decides, and the order of declaration is not modelled.
Failures(i) ==
  {IF Available(i, k) = "NO_DATA" THEN "NO_DATA" ELSE "BLOCKED" :
     k \in {k \in DOMAIN bound[i] : Available(i, k) # "RESOLVED"}}
  \cup {"BLOCKED" : k \in {k \in DOMAIN bound[i] : Incomplete(i, k)}}

\* ReadinessEngine.assess of an instance that does not apply or has another basis.
Unready(t) ==
  CASE t.applicability = "PROVEN_NOT_APPLICABLE" -> "PROVEN_NOT_APPLICABLE"
    [] t.applicability = "UNRESOLVED"            -> "BLOCKED"
    [] t.applicability = "INVALID_CONTEXT"       -> "INVALID"
    [] OTHER -> IF t.basis = "INVALID" THEN "INVALID" ELSE "BLOCKED"

PassOver ==
  /\ Executing
  /\ ~Applies(Current)
  /\ Record(Unready(Target(Current)), "nothing")
  /\ UNCHANGED <<input, plan, quantities, results, assessment, closure>>

Hold ==
  /\ Executing
  /\ Applies(Current)
  /\ \E status \in Failures(Current) : Record(status, "nothing")
  /\ UNCHANGED <<input, plan, quantities, results, assessment, closure>>

Runs == Executing /\ Applies(Current) /\ Failures(Current) = {}

StatusOf(availability) ==
  CASE availability = "RESOLVED" -> "EXECUTED"
    [] availability = "NO_DATA"  -> "NO_DATA"
    [] OTHER                     -> "BLOCKED"

\* What an evaluator may return: a quantity of any producer, key and availability.
Answers == [producer : DOMAIN bound, key : {Output(i).key : i \in DOMAIN bound},
            availability : Availabilities]

\* Mutant: the producer an answer names is not compared with the instance.
DeriveUnchecked ==
  /\ Runs /\ IsDerivation(Current)
  /\ \E q \in Answers :
       /\ q.key = Output(Current).key
       /\ quantities' = quantities \cup {q}
       /\ Record(StatusOf(q.availability), "quantity")
  /\ UNCHANGED <<input, plan, results, assessment, closure>>

\* A derivation answers to its contract.
Derive ==
  /\ Runs /\ IsDerivation(Current)
  /\ \E q \in Answers :
       /\ q.producer = Current /\ q.key = Output(Current).key
       /\ quantities' = quantities \cup {q}
       /\ Record(StatusOf(q.availability), "quantity")
  /\ UNCHANGED <<input, plan, results, assessment, closure>>

\* The verdict of a check: only NO_DATA and BLOCKED mean that it was not executed.
StatusOfCheck(verdict) == IF verdict \in {"NO_DATA", "BLOCKED"} THEN verdict ELSE "EXECUTED"

Check ==
  /\ Runs /\ ~IsDerivation(Current)
  /\ \E verdict \in {"verdict", "NO_DATA", "BLOCKED"} :
       /\ results' = [results EXCEPT ![Current] = verdict]
       /\ Record(StatusOfCheck(verdict), "result")
  /\ UNCHANGED <<input, plan, quantities, assessment, closure>>

\* A value that is there is converted to the unit asked for, whatever its availability.
Converts(i, k) ==
  LET s == bound[i][k]
  IN  /\ Contract(s).unit # Deps(i)[k].unit
      /\ s \notin DOMAIN bound \/ \E q \in quantities : q.producer = s /\ q.key = k

\* The conversion of a value that is no number raises, while the dependencies are
\* materialized; or the evaluator raises, or its answer is not to the contract.
\* There is no snapshot.
Fail ==
  /\ Executing /\ Applies(Current)
  /\ Failures(Current) = {} \/ \E k \in DOMAIN bound[Current] : Converts(Current, k)
  /\ phase' = "failed"
  /\ UNCHANGED <<input, plan, at, store, assessment, closure>>

--------------------------------------------------------------------------------
(* AssessmentEngine.reconcile of the snapshot.                             *)

Nonexecution(i) ==
  IF outcomes[i] = NoOutcome \/ outcomes[i].status = "EXECUTED" THEN "MISSING"
  ELSE IF outcomes[i].of # "nothing" \/ outcomes[i].status = "PROVEN_NOT_APPLICABLE" THEN "INVALID"
  ELSE outcomes[i].status

ProducedBy(i) == {q \in quantities : q.producer = i}

\* The runtime outcome, if there is one, must agree with what the artifact says.
Agreed(i, status, artifact) ==
  IF outcomes[i] = NoOutcome \/ outcomes[i] = [status |-> status, of |-> artifact]
  THEN status ELSE "INVALID"

CheckOutcome(i) ==
  IF ProducedBy(i) # {} THEN "INVALID"
  ELSE IF results[i] = "none" THEN Nonexecution(i)
  ELSE Agreed(i, StatusOfCheck(results[i]), "result")

DerivationOutcome(i) ==
  LET expected == {q \in ProducedBy(i) : q.key = Output(i).key}
      stolen == {q \in quantities : /\ q.key = Output(i).key /\ q.producer # i
                                    /\ q.producer.scope = i.scope
                                    /\ q.producer.direction = i.direction}
  IN  IF results[i] # "none" THEN "INVALID"
      ELSE IF Cardinality(expected) > 1 THEN "DUPLICATE"
      ELSE IF ProducedBy(i) # expected \/ stolen # {} THEN "INVALID"
      ELSE IF expected = {} THEN Nonexecution(i)
      ELSE Agreed(i, StatusOf((CHOOSE q \in expected : TRUE).availability), "quantity")

NotApplicableOutcome(i) ==
  IF /\ results[i] = "none" /\ ProducedBy(i) = {}
     /\ outcomes[i] \in {NoOutcome, [status |-> "PROVEN_NOT_APPLICABLE", of |-> "nothing"]}
  THEN "PROVEN_NOT_APPLICABLE" ELSE "INVALID"

Reconciled(i) ==
  IF Target(i).applicability = "PROVEN_NOT_APPLICABLE" THEN NotApplicableOutcome(i)
  ELSE IF IsDerivation(i) THEN DerivationOutcome(i)
  ELSE CheckOutcome(i)

Reconcile ==
  /\ phase = "execute" /\ at > Len(order)
  /\ phase' = "assessed"
  /\ assessment' = [i \in DOMAIN bound |-> Reconciled(i)]
  /\ closure' = IF \A i \in DOMAIN bound : Target(i).mandatory =>
                     Reconciled(i) \in {"EXECUTED", "PROVEN_NOT_APPLICABLE"}
                THEN "COMPLETE" ELSE "INCOMPLETE"
  /\ UNCHANGED <<input, plan, at, store>>

Next ==
  \/ Compile \/ Take \/ Ordered
  \/ PassOver \/ Hold \/ Derive \/ Check \/ Fail
  \/ Reconcile

Spec == Init /\ [][Next]_vars

--------------------------------------------------------------------------------
(* Properties.                                                             *)

Compiled == phase \notin {"compile", "refused"}

\* Every variable has its type.
TypeOK ==
  /\ input \in Inputs
  /\ phase \in {"compile", "order", "execute", "assessed", "refused", "failed"}
  /\ Compiled => /\ DOMAIN bound = Instances
                 /\ \A i \in Instances : DOMAIN bound[i] = DOMAIN Deps(i)
                 /\ indegree \in [Instances -> Nat]
  /\ ready \subseteq Instances /\ order \in Seq(Instances) /\ at \in 1 .. Len(order) + 1
  /\ \A q \in quantities : q.producer \in Instances /\ q.availability \in Availabilities
  /\ phase \in {"execute", "assessed", "failed"} =>
       /\ results \in [Instances -> {"none", "verdict", "NO_DATA", "BLOCKED"}]
       /\ outcomes \in [Instances -> [status : Ended, of : {"nothing", "result", "quantity"}]
                                       \cup {NoOutcome}]
  /\ phase = "assessed" => assessment \in [Instances -> Statuses]
  /\ closure \in {"none", "COMPLETE", "INCOMPLETE"}

\* The instances in an order in which producers come first.
LinearExtensions ==
  {s \in [1 .. Cardinality(Instances) -> Instances] :
     /\ \A i \in Instances : \E n \in DOMAIN s : s[n] = i
     /\ \A n \in DOMAIN s : \A j \in Producers(bound, s[n]) : \E m \in 1 .. n - 1 : s[m] = j}

\* A set of instances each of which needs a quantity of another one of it.
Cyclic(S) == S # {} /\ \A i \in S : Producers(bound, i) \cap S # {}

\* The plan is determined by what was declared, in whatever order that was
\* (tests/regulatory/test_f0_1_kernel.py:359): each dependency is bound to the only source that
\* fits, and the order is the least of those in which producers come first, by
\* the identifiers (_bind 597-653, _topological 741-770).
PlanIsCanonical ==
  [][phase = "order" /\ phase' = "execute" =>
       /\ \A i \in Instances : \A k \in DOMAIN Deps(i) :
            {s \in Candidates(i, k) : Fits(i, k, s)} = {bound[i][k]}
       /\ order \in LinearExtensions
       /\ \A s \in LinearExtensions : \A n \in DOMAIN s :
            s[n] # order[n] /\ (\A m \in 1 .. n - 1 : s[m] = order[m])
              => Rank[order[n]] < Rank[s[n]]]_vars

\* What is refused for a cycle has one, and what has one is refused (763-769).
RefusedForCycle ==
  bound # << >> =>
    /\ phase = "refused" => \E S \in SUBSET Instances : Cyclic(S)
    /\ phase \in {"execute", "assessed", "failed"} => \A S \in SUBSET Instances : ~Cyclic(S)

\* The instances a given one rests on, itself included.
Upstream(i) ==
  {j \in Instances : \A S \in SUBSET Instances :
     i \in S /\ (\A m \in S : Producers(bound, m) \subseteq S) => j \in S}

\* What keeps an instance from being executed, for reasons of its own.
Troubled(i) ==
  \/ ~Applies(i)
  \/ \E k \in DOMAIN bound[i] :
       /\ bound[i][k] \notin Instances
       /\ bound[i][k].availability # "RESOLVED"
  \/ \E q \in quantities : q.producer = i /\ q.availability # "RESOLVED"
  \/ results[i] \in {"NO_DATA", "BLOCKED"}

\* An instance counts as executed if and only if nothing it rests on, directly or
\* through others, is troubled: no verdict on missing evidence, and no verdict
\* withheld for another reason (assess 442-466, execute 799-827, _materialize 829-866).
ExecutedIffUntroubled ==
  phase \in {"execute", "assessed"} =>
    \A i \in Instances : outcomes[i] # NoOutcome =>
      (outcomes[i].status = "EXECUTED" <=> \A j \in Upstream(i) : ~Troubled(j))

\* The two accounts of an execution agree: the reconciliation, which looks at the
\* artifacts, finds of each instance what the execution recorded of it, and never
\* something missing or duplicate; and the closure is complete if and only if
\* every mandatory instance was executed or does not apply (1091-1147).
AssessmentAgrees ==
  phase = "assessed" =>
    /\ \A i \in Instances : assessment[i] = outcomes[i].status
    /\ closure = "COMPLETE" <=>
         \A i \in Instances : Target(i).mandatory =>
           \/ Target(i).applicability = "PROVEN_NOT_APPLICABLE"
           \/ \A j \in Upstream(i) : ~Troubled(j)

================================================================================
