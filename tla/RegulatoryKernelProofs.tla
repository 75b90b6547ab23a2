--------------------------- MODULE RegulatoryKernelProofs ---------------------------
(***************************************************************************)
(* Proofs about RegulatoryKernel, for any inputs that are well formed.     *)
(*                                                                         *)
(* The order is built up by an argument on constants (IsPlan below): what  *)
(* has been taken so far is closed under producers, holds no cycle, and    *)
(* was the least choice at each place.  The execution rests on it: the     *)
(* producers of an instance have their outcomes before it.                 *)
(***************************************************************************)
EXTENDS RegulatoryKernel, FiniteSetTheorems, WellFoundedInduction, TLAPS

\* What stands in a sequence, and what stands in it before a place.
Placed(s) == {s[n] : n \in 1 .. Len(s)}
Before(s, n) == {s[m] : m \in 1 .. n - 1}

\* The instances that could be taken next.
Open(b, s) == {i \in DOMAIN b : i \notin Placed(s) /\ Producers(b, i) \subseteq Placed(s)}

\* s is the beginning of the order for the bindings b.
IsPlan(b, s) ==
  /\ s \in Seq(DOMAIN b)
  /\ \A m, n \in 1 .. Len(s) : s[m] = s[n] => m = n
  /\ \A n \in 1 .. Len(s) : Producers(b, s[n]) \subseteq Before(s, n)
  /\ \A n \in 1 .. Len(s) : \A i \in DOMAIN b :
       i \notin Before(s, n) /\ Producers(b, i) \subseteq Before(s, n) => Rank[s[n]] <= Rank[i]
  /\ \A S \in SUBSET Placed(s) : S # {} => \E i \in S : Producers(b, i) \cap S = {}

--------------------------------------------------------------------------------
(* The order.                                                              *)

LEMMA ProducersAreInstances == \A b, i : Producers(b, i) \subseteq DOMAIN b
BY DEF Producers

\* What appending does to the two sets.
LEMMA Appended ==
  ASSUME NEW T, NEW s \in Seq(T), NEW c \in T
  PROVE  /\ Append(s, c) \in Seq(T)
         /\ Len(Append(s, c)) = Len(s) + 1
         /\ \A n \in 1 .. Len(s) : Append(s, c)[n] = s[n] /\ s[n] \in T
         /\ Append(s, c)[Len(s) + 1] = c
         /\ Placed(Append(s, c)) = Placed(s) \cup {c}
         /\ \A n \in 1 .. Len(s) : Before(Append(s, c), n) = Before(s, n)
         /\ Before(Append(s, c), Len(s) + 1) = Placed(s)
<1>1. /\ Append(s, c) \in Seq(T)
      /\ Len(s) \in Nat
      /\ Len(Append(s, c)) = Len(s) + 1
      /\ \A n \in 1 .. Len(s) : Append(s, c)[n] = s[n] /\ s[n] \in T
      /\ Append(s, c)[Len(s) + 1] = c
  OBVIOUS
<1>2. Placed(Append(s, c)) = Placed(s) \cup {c}
  <2>1. ASSUME NEW x \in Placed(Append(s, c)) PROVE x \in Placed(s) \cup {c}
    <3>1. PICK n \in 1 .. Len(s) + 1 : x = Append(s, c)[n]
      BY <1>1, <2>1 DEF Placed
    <3>2. n \in 1 .. Len(s) \/ n = Len(s) + 1
      BY <1>1
    <3> QED BY <1>1, <3>1, <3>2 DEF Placed
  <2>2. ASSUME NEW n \in 1 .. Len(s) PROVE s[n] \in Placed(Append(s, c))
    <3>1. n \in 1 .. Len(s) + 1
      BY <1>1
    <3> QED BY <1>1, <3>1 DEF Placed
  <2>3. c \in Placed(Append(s, c))
    <3>1. Len(s) + 1 \in 1 .. Len(s) + 1
      BY <1>1
    <3> QED BY <1>1, <3>1 DEF Placed
  <2> QED BY <2>1, <2>2, <2>3 DEF Placed
<1>3. ASSUME NEW n \in 1 .. Len(s) PROVE Before(Append(s, c), n) = Before(s, n)
  <2>1. \A m \in 1 .. n - 1 : m \in 1 .. Len(s)
    BY <1>1
  <2> QED BY <1>1, <2>1 DEF Before
<1>4. Before(Append(s, c), Len(s) + 1) = Placed(s)
  <2>1. 1 .. Len(s) + 1 - 1 = 1 .. Len(s)
    BY <1>1
  <2> QED BY <1>1, <2>1 DEF Before, Placed
<1> QED BY <1>1, <1>2, <1>3, <1>4

\* Before any instance is taken there is nothing to say.
LEMMA EmptyIsPlan == \A b : IsPlan(b, << >>) /\ Placed(<< >>) = {}
BY DEF IsPlan, Placed, Before

\* Taking the least of the instances that are open goes on with the order.
LEMMA NextInPlan ==
  ASSUME NEW b, NEW s, IsPlan(b, s),
         \A i \in DOMAIN b : Rank[i] \in Nat,
         NEW c \in Open(b, s), \A i \in Open(b, s) : Rank[c] <= Rank[i]
  PROVE  IsPlan(b, Append(s, c))
<1> DEFINE r == Append(s, c)
<1>1. /\ s \in Seq(DOMAIN b) /\ Len(s) \in Nat /\ c \in DOMAIN b
      /\ c \notin Placed(s) /\ Producers(b, c) \subseteq Placed(s)
  BY DEF IsPlan, Open
<1>2. /\ r \in Seq(DOMAIN b)
      /\ Len(r) = Len(s) + 1
      /\ \A n \in 1 .. Len(s) : r[n] = s[n] /\ s[n] \in DOMAIN b
      /\ r[Len(s) + 1] = c
      /\ Placed(r) = Placed(s) \cup {c}
      /\ \A n \in 1 .. Len(s) : Before(r, n) = Before(s, n)
      /\ Before(r, Len(s) + 1) = Placed(s)
  BY <1>1, Appended
<1>3. \A n \in 1 .. Len(r) : n \in 1 .. Len(s) \/ n = Len(s) + 1
  BY <1>1, <1>2
<1>4. \A n \in 1 .. Len(s) : s[n] # c /\ s[n] \in Placed(s)
  BY <1>1 DEF Placed
<1> HIDE DEF r
<1>5. \A m, n \in 1 .. Len(r) : r[m] = r[n] => m = n
  BY <1>2, <1>3, <1>4 DEF IsPlan
<1>6. \A n \in 1 .. Len(r) : Producers(b, r[n]) \subseteq Before(r, n)
  BY <1>1, <1>2, <1>3 DEF IsPlan
<1>7. ASSUME NEW n \in 1 .. Len(r), NEW i \in DOMAIN b,
             i \notin Before(r, n), Producers(b, i) \subseteq Before(r, n)
      PROVE  Rank[r[n]] <= Rank[i]
  <2>1. CASE n \in 1 .. Len(s)
    BY <1>2, <1>7, <2>1 DEF IsPlan
  <2>2. CASE n = Len(s) + 1
    BY <1>2, <1>7, <2>2 DEF Open
  <2> QED BY <1>3, <2>1, <2>2
<1>8. ASSUME NEW S \in SUBSET Placed(r), S # {}
      PROVE  \E i \in S : Producers(b, i) \cap S = {}
  <2>1. CASE S = {c}
    BY <1>1, <2>1
  <2>2. CASE S # {c}
    <3>1. S \ {c} \in SUBSET Placed(s) /\ S \ {c} # {}
      BY <1>2, <1>8, <2>2
    <3>2. PICK i \in S \ {c} : Producers(b, i) \cap (S \ {c}) = {}
      BY <3>1 DEF IsPlan
    <3>3. PICK n \in 1 .. Len(s) : i = s[n]
      BY <3>1, <3>2 DEF Placed
    <3>4. Producers(b, i) \subseteq Before(s, n)
      BY <3>3 DEF IsPlan
    <3>5. \A m \in 1 .. n - 1 : m \in 1 .. Len(s)
      BY <1>1
    <3>6. c \notin Producers(b, i)
      BY <1>4, <3>4, <3>5 DEF Before
    <3> QED BY <3>2, <3>6
  <2> QED BY <2>1, <2>2
<1>9. IsPlan(b, r)
  BY <1>2, <1>5, <1>6, <1>7, <1>8 DEF IsPlan
<1> QED BY <1>9 DEF r

\* What is open after an instance was taken.
LEMMA OpenNext ==
  ASSUME NEW b, NEW s, IsPlan(b, s), NEW c \in Open(b, s)
  PROVE  Open(b, Append(s, c)) =
           (Open(b, s) \ {c}) \cup
           {i \in DOMAIN b : c \in Producers(b, i) /\ Producers(b, i) \ Placed(s) = {c}}
<1>1. /\ s \in Seq(DOMAIN b) /\ c \in DOMAIN b
      /\ c \notin Placed(s) /\ Producers(b, c) \subseteq Placed(s)
  BY DEF IsPlan, Open
<1>2. Placed(Append(s, c)) = Placed(s) \cup {c}
  BY <1>1, Appended
<1>3. ASSUME NEW i \in Placed(s) PROVE Producers(b, i) \subseteq Placed(s)
  <2>1. PICK n \in 1 .. Len(s) : i = s[n]
    BY <1>3 DEF Placed
  <2>2. Producers(b, i) \subseteq Before(s, n)
    BY <2>1 DEF IsPlan
  <2>3. \A m \in 1 .. n - 1 : m \in 1 .. Len(s)
    BY <1>1
  <2> QED BY <2>2, <2>3 DEF Before, Placed
<1> QED BY <1>1, <1>2, <1>3 DEF Open

\* There is a least instance in every set that is not empty.
LEMMA LeastIsLeast ==
  ASSUME NEW S, IsFiniteSet(S), S # {}, \A i \in S : Rank[i] \in Nat
  PROVE  Least(S) \in S /\ \A j \in S : Rank[Least(S)] <= Rank[j]
<1> DEFINE Below(i) == {j \in S : Rank[j] < Rank[i]}
           T == {Below(i) : i \in S}
<1>1. T \subseteq FiniteSubsetsOf(S)
  <2>1. ASSUME NEW i \in S PROVE Below(i) \in SUBSET S /\ IsFiniteSet(Below(i))
    BY FS_Subset, Below(i) \in SUBSET S
  <2> QED BY <2>1 DEF FiniteSubsetsOf
<1>2. PICK U \in T : \A V \in T : <<V, U>> \notin StrictSubsetOrdering(S)
  <2>1. T # {}
    OBVIOUS
  <2>2. IsWellFoundedOn(StrictSubsetOrdering(S), FiniteSubsetsOf(S))
    BY FS_StrictSubsetOrderingWellFounded
  <2> HIDE DEF T
  <2> QED BY <1>1, <2>1, <2>2, WFMin
<1>3. PICK i \in S : U = Below(i)
  BY <1>2
<1>4. ASSUME NEW j \in S PROVE Rank[i] <= Rank[j]
  <2>1. SUFFICES ASSUME Rank[j] < Rank[i] PROVE FALSE
    OBVIOUS
  <2>2. Below(j) \in T /\ Below(j) \in SUBSET S /\ Below(i) \in SUBSET S
    OBVIOUS
  <2>3. Below(j) \subseteq Below(i)
    BY <2>1
  <2>4. j \in Below(i) /\ j \notin Below(j)
    BY <2>1
  <2> HIDE DEF Below, T
  <2>5. <<Below(j), Below(i)>> \in StrictSubsetOrdering(S)
    BY <2>2, <2>3, <2>4 DEF StrictSubsetOrdering
  <2> QED BY <1>2, <1>3, <2>2, <2>5
<1> QED BY <1>4 DEF Least

--------------------------------------------------------------------------------
(* What a compiled plan is bound to.                                       *)

LEMMA FiniteInputs ==
  ASSUME input \in Inputs
  PROVE  /\ IsFiniteSet(Instances)
         /\ \A i \in Instances : Rank[i] \in Nat /\ Target(i) \in input.targets /\ Target(i).instance = i
         /\ \A i, j \in Instances : Rank[i] = Rank[j] => i = j
<1> DEFINE f == [t \in input.targets |-> t.instance]
<1>1. WellFormed(input)
  BY InputsAssumption
<1>2. f \in Surjection(input.targets, Instances)
  BY DEF Surjection, Instances
<1>3. IsFiniteSet(Instances)
  BY <1>1, <1>2, FS_Surjection DEF WellFormed
<1>4. \A i \in Instances : Target(i) \in input.targets /\ Target(i).instance = i
  BY DEF Instances, Target
<1>5. \A i \in Instances : Rank[i] \in Nat
  BY <1>1 DEF WellFormed, Instances
<1>6. \A i, j \in Instances : Rank[i] = Rank[j] => i = j
  BY <1>1 DEF WellFormed, Instances
<1> QED BY <1>3, <1>4, <1>5, <1>6

LEMMA BoundFacts ==
  ASSUME input \in Inputs, Compilable, bound = Bound
  PROVE  /\ DOMAIN bound = Instances
         /\ \A i \in Instances : DOMAIN bound[i] = DOMAIN Deps(i)
         /\ \A i \in Instances : \A k \in DOMAIN bound[i] :
              /\ {s \in Candidates(i, k) : Fits(i, k, s)} = {bound[i][k]}
              /\ Valid(i, k, bound[i][k])
              /\ bound[i][k] \in Instances =>
                   IsDerivation(bound[i][k]) /\ Output(bound[i][k]).key = k
<1>1. /\ DOMAIN bound = Instances
      /\ \A i \in Instances : DOMAIN bound[i] = DOMAIN Deps(i)
      /\ \A i \in Instances : \A k \in DOMAIN bound[i] :
           bound[i][k] = CHOOSE s \in Choices(i, k) : TRUE
  BY DEF Bound
<1>2. WellFormed(input)
  BY InputsAssumption
<1>3. ASSUME NEW i \in Instances, NEW k \in DOMAIN bound[i]
      PROVE  /\ {s \in Candidates(i, k) : Fits(i, k, s)} = {bound[i][k]}
             /\ Valid(i, k, bound[i][k])
             /\ bound[i][k] \in Instances =>
                  IsDerivation(bound[i][k]) /\ Output(bound[i][k]).key = k
  <2>1. IsFiniteSet(Candidates(i, k))
    <3>1. CASE Deps(i)[k].source = "quantity"
      <4>1. Candidates(i, k) \in SUBSET Instances
        BY <3>1 DEF Candidates
      <4> QED BY <4>1, FiniteInputs, FS_Subset
    <3>2. CASE Deps(i)[k].source # "quantity"
      <4>1. Candidates(i, k) \in SUBSET input.authorities
        BY <3>2 DEF Candidates
      <4> QED BY <1>2, <4>1, FS_Subset DEF WellFormed
    <3> QED BY <3>1, <3>2
  <2>2. Choices(i, k) \in SUBSET Candidates(i, k)
    BY DEF Choices
  <2>3. IsFiniteSet(Choices(i, k))
    BY <2>1, <2>2, FS_Subset
  <2>4. k \in DOMAIN Deps(i)
    BY <1>1
  <2>5. Cardinality(Choices(i, k)) = 1 /\ Valid(i, k, bound[i][k])
    BY <2>4 DEF Compilable
  <2>6. PICK x : Choices(i, k) = {x}
    BY <2>3, <2>5, FS_Singleton
  <2>7. bound[i][k] = x /\ x \in Candidates(i, k)
    BY <1>1, <2>2, <2>6
  <2>8. Fits(i, k, x)
    BY <2>5, <2>7 DEF Valid
  <2>9. {s \in Candidates(i, k) : Fits(i, k, s)} = {x}
    BY <2>6, <2>8 DEF Choices
  <2>10. x \in Instances => IsDerivation(x) /\ Output(x).key = k
    BY <1>2, <2>7 DEF Candidates, WellFormed, Instances
  <2> QED BY <2>5, <2>7, <2>9, <2>10
<1> QED BY <1>1, <1>3

--------------------------------------------------------------------------------
(* The plan is the beginning of the order, all of it, or ends in a cycle.  *)

Planned ==
  /\ Compilable /\ bound = Bound
  /\ IsPlan(bound, order) /\ ready = Open(bound, order)
  /\ indegree = [i \in DOMAIN bound |-> Cardinality(Producers(bound, i) \ Placed(order))]
  /\ phase # "order" => ready = {}
  /\ phase \in {"execute", "assessed", "failed"} => Len(order) = Cardinality(DOMAIN bound)
  /\ phase = "refused" => Len(order) # Cardinality(DOMAIN bound)

Unplanned ==
  /\ phase \in {"compile", "refused"}
  /\ bound = << >> /\ order = << >> /\ ready = {}

PlanInv ==
  /\ input \in Inputs
  /\ phase \in {"compile", "order", "execute", "assessed", "refused", "failed"}
  /\ Unplanned \/ (phase # "compile" /\ Planned)

LEMMA PlanInit == Init => PlanInv
BY DEF Init, PlanInv, Unplanned

\* What is declared does not change.
LEMMA Declared == [Next]_vars => input' = input
BY DEF Next, vars, Compile, Take, Ordered, PassOver, Hold, Derive, Check, Fail, Reconcile

LEMMA SameDeclared ==
  ASSUME input' = input
  PROVE  /\ Instances' = Instances
         /\ Compilable' <=> Compilable
         /\ Bound' = Bound
         /\ \A i : Target(i)' = Target(i) /\ Output(i)' = Output(i) /\ Deps(i)' = Deps(i)
         /\ \A i : (IsDerivation(i)' <=> IsDerivation(i)) /\ (Applies(i)' <=> Applies(i))
<1>1. /\ Instances' = Instances
      /\ \A i : Target(i)' = Target(i)
      /\ \A i : Output(i)' = Output(i) /\ Deps(i)' = Deps(i)
  BY DEF Instances, Target, Output, Deps
<1>2. \A i : (IsDerivation(i)' <=> IsDerivation(i)) /\ (Applies(i)' <=> Applies(i))
  BY <1>1 DEF IsDerivation, Applies
<1>3. \A i, k : Candidates(i, k)' = Candidates(i, k)
  BY <1>1, <1>2 DEF Candidates
<1>4. \A i, k, s : Fits(i, k, s)' <=> Fits(i, k, s)
  BY <1>1 DEF Fits, InScope, InDirection
<1>5. \A i, k : Choices(i, k)' = Choices(i, k)
  BY <1>3, <1>4 DEF Choices
<1>6. \A i, k, s : Valid(i, k, s)' <=> Valid(i, k, s)
  BY <1>1, <1>4 DEF Valid, Contract
<1>7. Bound' = Bound
  BY <1>1, <1>5 DEF Bound
<1>8. Expandable' <=> Expandable
  BY <1>1, <1>2 DEF Expandable
<1>9. Compilable' <=> Compilable
  BY <1>1, <1>5, <1>6, <1>7, <1>8 DEF Compilable
<1> QED BY <1>1, <1>2, <1>7, <1>9

\* Compiling leaves the empty order.
LEMMA CompilePlans == PlanInv /\ Compile => PlanInv'
<1> SUFFICES ASSUME PlanInv, Compile PROVE PlanInv'
  OBVIOUS
<1>1. Unplanned /\ input \in Inputs /\ input' = input /\ order' = order
  BY DEF PlanInv, Compile
<1>2. CASE ~Compilable
  BY <1>1, <1>2 DEF Compile, PlanInv, Unplanned
<1>3. CASE Compilable
  <2>1. /\ phase' = "order" /\ bound' = Bound /\ order' = << >>
        /\ indegree' = [i \in Instances |-> Cardinality(Producers(Bound, i))]
        /\ ready' = {i \in Instances : Producers(Bound, i) = {}}
    BY <1>1, <1>3 DEF Compile, Unplanned
  <2>2. DOMAIN Bound = Instances
    BY DEF Bound
  <2>3. IsPlan(bound', order') /\ Placed(order') = {}
    BY <2>1, EmptyIsPlan
  <2>4. ready' = Open(bound', order')
    BY <2>1, <2>2, <2>3 DEF Open
  <2>5. \A i : Producers(Bound, i) \ {} = Producers(Bound, i)
    OBVIOUS
  <2>6. indegree' = [i \in DOMAIN bound' |-> Cardinality(Producers(bound', i) \ Placed(order'))]
    BY <2>1, <2>2, <2>3, <2>5
  <2>7. Compilable' /\ Bound' = Bound
    BY <1>1, <1>3, SameDeclared
  <2>8. Planned'
    BY <2>1, <2>3, <2>4, <2>6, <2>7 DEF Planned
  <2> QED BY <1>1, <2>1, <2>8 DEF PlanInv
<1> QED BY <1>2, <1>3

\* A round of the loop takes the least of what is open and opens what is freed.
LEMMA TakePlans == PlanInv /\ Take => PlanInv'
<1> SUFFICES ASSUME PlanInv, Take PROVE PlanInv'
  OBVIOUS
<1> DEFINE c == Least(ready)
<1>1. /\ input \in Inputs /\ input' = input /\ phase = "order" /\ phase' = phase
      /\ bound' = bound /\ ready # {} /\ Planned
  BY DEF PlanInv, Take, Unplanned
<1>2. /\ order' = Append(order, c)
      /\ indegree' = [i \in DOMAIN bound |-> IF c \in Producers(bound, i) THEN indegree[i] - 1 ELSE indegree[i]]
      /\ ready' = (ready \ {c}) \cup {i \in DOMAIN bound : c \in Producers(bound, i) /\ indegree[i] = 1}
  BY DEF Take
<1>3. /\ Compilable /\ bound = Bound /\ IsPlan(bound, order) /\ ready = Open(bound, order)
      /\ indegree = [i \in DOMAIN bound |-> Cardinality(Producers(bound, i) \ Placed(order))]
  BY <1>1 DEF Planned
<1>4. /\ DOMAIN bound = Instances /\ IsFiniteSet(Instances)
      /\ \A i \in Instances : Rank[i] \in Nat
  BY <1>1, <1>3, BoundFacts, FiniteInputs
<1>5. ready \in SUBSET Instances /\ IsFiniteSet(ready)
  BY <1>3, <1>4, FS_Subset DEF Open
<1>6. c \in Open(bound, order) /\ \A i \in Open(bound, order) : Rank[c] <= Rank[i]
  BY <1>1, <1>3, <1>4, <1>5, LeastIsLeast
<1> HIDE DEF c
<1>7. IsPlan(bound, order')
  BY <1>2, <1>3, <1>4, <1>6, NextInPlan
<1>8. /\ c \in DOMAIN bound /\ c \notin Placed(order) /\ order \in Seq(DOMAIN bound)
      /\ Placed(order') = Placed(order) \cup {c}
  BY <1>2, <1>3, <1>6, Appended DEF Open, IsPlan
<1>9. ASSUME NEW i \in DOMAIN bound
      PROVE  /\ IsFiniteSet(Producers(bound, i) \ Placed(order))
             /\ indegree[i] = Cardinality(Producers(bound, i) \ Placed(order))
             /\ indegree[i] \in Nat
  <2>1. Producers(bound, i) \ Placed(order) \in SUBSET Instances
    BY <1>4 DEF Producers
  <2>2. IsFiniteSet(Producers(bound, i) \ Placed(order))
    BY <1>4, <2>1, FS_Subset
  <2> QED BY <1>3, <2>2, FS_CardinalityType
<1>10. ready' = Open(bound, order')
  <2>1. ASSUME NEW i \in DOMAIN bound, c \in Producers(bound, i)
        PROVE  indegree[i] = 1 <=> Producers(bound, i) \ Placed(order) = {c}
    <3>1. c \in Producers(bound, i) \ Placed(order)
      BY <1>8, <2>1
    <3>2. indegree[i] = 1 <=> \E x : Producers(bound, i) \ Placed(order) = {x}
      BY <1>9, FS_Singleton
    <3> QED BY <3>1, <3>2
  <2>2. Open(bound, order') = (Open(bound, order) \ {c}) \cup
          {i \in DOMAIN bound : c \in Producers(bound, i) /\ Producers(bound, i) \ Placed(order) = {c}}
    BY <1>2, <1>3, <1>6, OpenNext
  <2> QED BY <1>2, <1>3, <2>1, <2>2
<1>11. indegree' = [i \in DOMAIN bound |-> Cardinality(Producers(bound, i) \ Placed(order'))]
  <2>1. ASSUME NEW i \in DOMAIN bound
        PROVE  indegree'[i] = Cardinality(Producers(bound, i) \ Placed(order'))
    <3>1. Producers(bound, i) \ Placed(order') = (Producers(bound, i) \ Placed(order)) \ {c}
      BY <1>8
    <3>2. Cardinality((Producers(bound, i) \ Placed(order)) \ {c}) =
            IF c \in Producers(bound, i) \ Placed(order)
            THEN Cardinality(Producers(bound, i) \ Placed(order)) - 1
            ELSE Cardinality(Producers(bound, i) \ Placed(order))
      BY <1>9, FS_RemoveElement
    <3> QED BY <1>2, <1>8, <1>9, <3>1, <3>2
  <2> QED BY <1>2, <2>1
<1>12. Compilable' /\ Bound' = Bound
  BY <1>1, <1>3, SameDeclared
<1>13. Planned'
  BY <1>1, <1>3, <1>7, <1>10, <1>11, <1>12 DEF Planned
<1> QED BY <1>1, <1>13 DEF PlanInv

\* The other steps leave the plan; the loop ends with nothing left open.
LEMMA PlanStep == PlanInv /\ [Next]_vars => PlanInv'
<1> SUFFICES ASSUME PlanInv, [Next]_vars PROVE PlanInv'
  OBVIOUS
<1>1. CASE Compile
  BY <1>1, CompilePlans
<1>2. CASE Take
  BY <1>2, TakePlans
<1>3. CASE Ordered
  <2>1. /\ input \in Inputs /\ input' = input /\ plan' = plan /\ ready = {} /\ Planned
        /\ IF Len(order) = Cardinality(DOMAIN bound) THEN phase' = "execute" ELSE phase' = "refused"
    BY <1>3 DEF PlanInv, Ordered, Unplanned
  <2>2. Compilable' /\ Bound' = Bound
    BY <2>1, SameDeclared DEF Planned
  <2> QED BY <2>1, <2>2 DEF Planned, PlanInv, plan
<1>4. CASE PassOver \/ Hold \/ Derive \/ Check \/ Fail \/ Reconcile
  <2>1. /\ phase = "execute" /\ phase' \in {"execute", "failed", "assessed"}
        /\ input' = input /\ plan' = plan
    BY <1>4 DEF PassOver, Hold, Derive, Check, Fail, Reconcile, Executing, Runs, Record
  <2>2. Planned /\ input \in Inputs
    BY <2>1 DEF PlanInv, Unplanned
  <2>3. Compilable' /\ Bound' = Bound
    BY <2>1, <2>2, SameDeclared DEF Planned
  <2> QED BY <2>1, <2>2, <2>3 DEF Planned, PlanInv, plan
<1>5. CASE UNCHANGED vars
  <2>1. UNCHANGED <<input, phase, bound, indegree, ready, order>>
    BY <1>5 DEF vars, plan
  <2>2. (Compilable' <=> Compilable) /\ Bound' = Bound
    BY <2>1, SameDeclared
  <2> QED BY <2>1, <2>2 DEF Planned, Unplanned, PlanInv
<1> QED BY <1>1, <1>2, <1>3, <1>4, <1>5 DEF Next

LEMMA Planning == Spec => []PlanInv
<1>1. Init => PlanInv
  BY PlanInit
<1>2. PlanInv /\ [Next]_vars => PlanInv'
  BY PlanStep
<1> QED BY <1>1, <1>2, PTL DEF Spec

--------------------------------------------------------------------------------
(* A plan is complete when it is as long as there are instances.           *)

LEMMA IntervalSize ==
  ASSUME NEW n \in Nat
  PROVE  IsFiniteSet(1 .. n) /\ Cardinality(1 .. n) = n
<1>1. 1 \in Int /\ n \in Int
  OBVIOUS
<1>2. IsFiniteSet(1 .. n) /\ Cardinality(1 .. n) = IF 1 > n THEN 0 ELSE n - 1 + 1
  BY <1>1, FS_Interval
<1> QED BY <1>2

LEMMA WholePlan ==
  ASSUME NEW b, NEW s, IsPlan(b, s), IsFiniteSet(DOMAIN b)
  PROVE  Len(s) = Cardinality(DOMAIN b) <=> Placed(s) = DOMAIN b
<1>1. s \in Seq(DOMAIN b) /\ Len(s) \in Nat
  BY DEF IsPlan
<1>2. s \in [1 .. Len(s) -> DOMAIN b]
  BY <1>1
<1>3. s \in Injection(1 .. Len(s), DOMAIN b)
  BY <1>2 DEF IsPlan, Injection, IsInjective
<1>4. Cardinality(1 .. Len(s)) = Len(s)
  BY <1>1, IntervalSize
<1>5. Len(s) = Cardinality(DOMAIN b) <=> s \in Surjection(1 .. Len(s), DOMAIN b)
  BY <1>3, <1>4, FS_Injection
<1>6. s \in Surjection(1 .. Len(s), DOMAIN b) <=> \A i \in DOMAIN b : \E n \in 1 .. Len(s) : s[n] = i
  BY <1>2 DEF Surjection
<1>7. Placed(s) \subseteq DOMAIN b
  BY <1>2 DEF Placed
<1> QED BY <1>5, <1>6, <1>7 DEF Placed

\* What has a cycle is refused, and what is refused once it is bound has one: the
\* loop ends because nothing is open, so each instance that is left needs another
\* one that is left (_topological 741-770).
THEOREM CyclesAreRefused == Spec => []RefusedForCycle
<1>1. PlanInv => RefusedForCycle
  <2> SUFFICES ASSUME PlanInv, bound # << >>
               PROVE  /\ phase = "refused" => \E S \in SUBSET Instances : Cyclic(S)
                      /\ phase \in {"execute", "assessed", "failed"} =>
                           \A S \in SUBSET Instances : ~Cyclic(S)
    BY DEF RefusedForCycle
  <2>1. input \in Inputs /\ Planned
    BY DEF PlanInv, Unplanned
  <2>2. DOMAIN bound = Instances /\ IsFiniteSet(Instances) /\ IsPlan(bound, order)
    BY <2>1, BoundFacts, FiniteInputs DEF Planned
  <2>3. CASE phase = "refused"
    <3> DEFINE S == Instances \ Placed(order)
    <3>1. order \in Seq(Instances)
      BY <2>2 DEF IsPlan
    <3>2. Placed(order) \subseteq Instances
      BY <3>1 DEF Placed
    <3>3. S # {}
      BY <2>1, <2>2, <2>3, <3>2, WholePlan DEF Planned
    <3>4. Open(bound, order) = {}
      BY <2>1, <2>3 DEF Planned
    <3>5. \A i \in S : Producers(bound, i) \cap S # {}
      BY <2>2, <3>4, ProducersAreInstances DEF Open
    <3> QED BY <2>3, <3>3, <3>5 DEF Cyclic
  <2>4. CASE phase \in {"execute", "assessed", "failed"}
    <3>1. Placed(order) = Instances
      BY <2>1, <2>2, <2>4, WholePlan DEF Planned
    <3>2. \A S \in SUBSET Instances : S # {} => \E i \in S : Producers(bound, i) \cap S = {}
      BY <2>2, <3>1 DEF IsPlan
    <3> QED BY <2>4, <3>2 DEF Cyclic
  <2> QED BY <2>3, <2>4
<1> QED BY <1>1, Planning, PTL

\* The order of the plan is the one order that the bindings and the identifiers
\* determine, and each binding is the only one that fits: nothing depends on the
\* order of declaration (_bind 597-653, _topological 741-770).
THEOREM PlansAreCanonical == Spec => PlanIsCanonical
<1> DEFINE Canonical ==
      /\ \A i \in Instances : \A k \in DOMAIN Deps(i) :
           {s \in Candidates(i, k) : Fits(i, k, s)} = {bound[i][k]}
      /\ order \in LinearExtensions
      /\ \A s \in LinearExtensions : \A n \in DOMAIN s :
           s[n] # order[n] /\ (\A m \in 1 .. n - 1 : s[m] = order[m])
             => Rank[order[n]] < Rank[s[n]]
<1>1. PlanInv /\ [Next]_vars => (phase = "order" /\ phase' = "execute" => Canonical)
  <2> SUFFICES ASSUME PlanInv, [Next]_vars, phase = "order", phase' = "execute" PROVE Canonical
    OBVIOUS
  <2>1. input \in Inputs /\ Planned
    BY DEF PlanInv, Unplanned
  <2>2. Ordered
    BY DEF Next, vars, Compile, Take, PassOver, Hold, Derive, Check, Fail, Reconcile, Executing, Runs
  <2>3. Len(order) = Cardinality(DOMAIN bound)
    BY <2>2 DEF Ordered
  <2>4. /\ DOMAIN bound = Instances /\ IsFiniteSet(Instances) /\ IsPlan(bound, order)
        /\ \A i \in Instances : Rank[i] \in Nat
        /\ \A i, j \in Instances : Rank[i] = Rank[j] => i = j
        /\ Cardinality(Instances) \in Nat
    BY <2>1, BoundFacts, FiniteInputs, FS_CardinalityType DEF Planned
  <2>5. Placed(order) = Instances
    BY <2>3, <2>4, WholePlan
  <2>6. \A i \in Instances : \A k \in DOMAIN Deps(i) :
          {s \in Candidates(i, k) : Fits(i, k, s)} = {bound[i][k]}
    BY <2>1, BoundFacts DEF Planned
  <2>7. order \in [1 .. Cardinality(Instances) -> Instances] /\ Len(order) = Cardinality(Instances)
    BY <2>3, <2>4 DEF IsPlan
  <2>8. order \in LinearExtensions
    <3>1. \A i \in Instances : \E n \in DOMAIN order : order[n] = i
      BY <2>5, <2>7 DEF Placed
    <3>2. \A n \in DOMAIN order : \A j \in Producers(bound, order[n]) : \E m \in 1 .. n - 1 : order[m] = j
      BY <2>4, <2>7 DEF IsPlan, Before
    <3> QED BY <2>7, <3>1, <3>2 DEF LinearExtensions
  <2>9. ASSUME NEW s \in LinearExtensions, NEW n \in DOMAIN s,
               s[n] # order[n], \A m \in 1 .. n - 1 : s[m] = order[m]
        PROVE  Rank[order[n]] < Rank[s[n]]
    <3>1. /\ s \in [1 .. Cardinality(Instances) -> Instances] /\ n \in 1 .. Len(order)
          /\ \A i \in Instances : \E m \in 1 .. Cardinality(Instances) : s[m] = i
          /\ \A j \in Producers(bound, s[n]) : \E m \in 1 .. n - 1 : s[m] = j
      BY <2>7, <2>9 DEF LinearExtensions
    <3>2. s \in Surjection(1 .. Cardinality(Instances), Instances)
      BY <3>1 DEF Surjection
    <3>3. IsFiniteSet(1 .. Cardinality(Instances)) /\ Cardinality(1 .. Cardinality(Instances)) = Cardinality(Instances)
      BY <2>4, IntervalSize
    <3>4. s \in Injection(1 .. Cardinality(Instances), Instances)
      BY <3>2, <3>3, FS_SurjSameCardinalityImpliesInj
    <3>5. \A l, m \in 1 .. Cardinality(Instances) : s[l] = s[m] => l = m
      BY <3>4 DEF Injection, IsInjective
    <3>6. \A m \in 1 .. n - 1 : m \in 1 .. Cardinality(Instances) /\ m # n
      BY <2>4, <2>7, <3>1
    <3>7. s[n] \notin Before(order, n)
      BY <2>7, <2>9, <3>1, <3>5, <3>6 DEF Before
    <3>8. Producers(bound, s[n]) \subseteq Before(order, n)
      BY <2>9, <3>1 DEF Before
    <3>9. s[n] \in Instances /\ order[n] \in Instances
      BY <2>7, <3>1
    <3>10. Rank[order[n]] <= Rank[s[n]]
      BY <2>4, <3>1, <3>7, <3>8, <3>9 DEF IsPlan
    <3> QED BY <2>4, <2>9, <3>9, <3>10
  <2> QED BY <2>6, <2>8, <2>9
<1> QED BY <1>1, Planning, PTL DEF Spec, PlanIsCanonical

--------------------------------------------------------------------------------
(* The execution: what is recorded of an instance, and why.                *)

Running == phase \in {"execute", "assessed", "failed"}

Artifacts == {"nothing", "result", "quantity"}
Outcomes == [status : Ended, of : Artifacts]

\* All that an instance is bound to is there.
Rests(i) ==
  \A k \in DOMAIN bound[i] :
    /\ bound[i][k] \in Instances => outcomes[bound[i][k]].status = "EXECUTED"
    /\ bound[i][k] \notin Instances => bound[i][k].availability = "RESOLVED"

\* A quantity is of an instance that was to derive it, and says how that ended.
Derived(q) ==
  /\ q.producer \in Instances /\ q.availability \in Availabilities
  /\ IsDerivation(q.producer) /\ q.key = Output(q.producer).key
  /\ outcomes[q.producer] = [status |-> StatusOf(q.availability), of |-> "quantity"]

\* The outcome of an instance has its artifact, or its reason.
Told(i) ==
  /\ results[i] # "none" =>
       /\ ~IsDerivation(i)
       /\ outcomes[i] = [status |-> StatusOfCheck(results[i]), of |-> "result"]
  /\ outcomes[i].of = "result" => results[i] # "none"
  /\ outcomes[i].of = "quantity" => IsDerivation(i) /\ \E q \in quantities : q.producer = i
  /\ outcomes[i].of # "nothing" => Applies(i) /\ Rests(i)
  /\ outcomes[i] # NoOutcome /\ outcomes[i].of = "nothing" =>
       /\ ~Applies(i) => outcomes[i].status = Unready(Target(i))
       /\ Applies(i) => outcomes[i].status \in {"NO_DATA", "BLOCKED"}

\* What was not executed has its reason upstream.
Reasoned(i) ==
  outcomes[i] # NoOutcome /\ outcomes[i].status # "EXECUTED" => \E j \in Upstream(i) : Troubled(j)

RecordInv ==
  /\ at \in 1 .. Len(order) + 1
  /\ results \in [Instances -> {"none", "verdict", "NO_DATA", "BLOCKED"}]
  /\ outcomes \in [Instances -> Outcomes \cup {NoOutcome}]
  /\ \A n \in 1 .. Len(order) : outcomes[order[n]] # NoOutcome <=> n < at
  /\ \A q \in quantities : Derived(q)
  /\ \A q, r \in quantities : q.producer = r.producer => q = r
  /\ \A i \in Instances : Told(i) /\ Reasoned(i)

ExecInv ==
  /\ ~Running => at = 1 /\ quantities = {} /\ results = << >> /\ outcomes = << >>
  /\ Running => RecordInv

\* The instance whose turn it is has no outcome yet, and its producers have theirs.
LEMMA CurrentFacts ==
  ASSUME PlanInv, RecordInv, Executing
  PROVE  /\ Planned /\ input \in Inputs /\ DOMAIN bound = Instances
         /\ at \in 1 .. Len(order) /\ Current \in Instances
         /\ outcomes[Current] = NoOutcome /\ results[Current] = "none"
         /\ \A q \in quantities : q.producer # Current
         /\ \A k \in DOMAIN bound[Current] :
              bound[Current][k] \in Instances =>
                /\ outcomes[bound[Current][k]] # NoOutcome
                /\ bound[Current][k] \in Producers(bound, Current)
<1>1. /\ Planned /\ input \in Inputs
  BY DEF PlanInv, Unplanned, Executing
<1>2. /\ DOMAIN bound = Instances /\ IsPlan(bound, order)
  BY <1>1, BoundFacts DEF Planned
<1>3. order \in Seq(Instances) /\ Len(order) \in Nat
  BY <1>2 DEF IsPlan
<1>4. at \in 1 .. Len(order)
  BY <1>3 DEF RecordInv, Executing
<1>5. Current \in Instances
  BY <1>3, <1>4 DEF Current
<1>6. outcomes[Current] = NoOutcome
  BY <1>4 DEF RecordInv, Current
<1>7. results[Current] = "none"
  BY <1>5, <1>6 DEF RecordInv, Told, NoOutcome
<1>8. ASSUME NEW q \in quantities PROVE q.producer # Current
  <2>1. Derived(q)
    BY DEF RecordInv
  <2>2. outcomes[q.producer].of = "quantity"
    BY <2>1 DEF Derived
  <2> QED BY <1>6, <2>2 DEF NoOutcome
<1>9. ASSUME NEW k \in DOMAIN bound[Current], bound[Current][k] \in Instances
      PROVE  /\ outcomes[bound[Current][k]] # NoOutcome
             /\ bound[Current][k] \in Producers(bound, Current)
  <2>1. bound[Current][k] \in Producers(bound, Current)
    BY <1>2, <1>9 DEF Producers
  <2>2. bound[Current][k] \in Before(order, at)
    BY <1>2, <1>4, <2>1 DEF IsPlan, Current
  <2>3. PICK m \in 1 .. at - 1 : order[m] = bound[Current][k]
    BY <2>2 DEF Before
  <2>4. m \in 1 .. Len(order) /\ m < at
    BY <1>3, <1>4
  <2> QED BY <2>1, <2>3, <2>4 DEF RecordInv
<1> QED BY <1>1, <1>2, <1>4, <1>5, <1>6, <1>7, <1>8, <1>9

\* An instance finds a derived quantity if and only if its producer was executed.
LEMMA AvailableIffExecuted ==
  ASSUME RecordInv, Planned, input \in Inputs,
         NEW i \in Instances, NEW k \in DOMAIN bound[i],
         bound[i][k] \in Instances, outcomes[bound[i][k]] # NoOutcome
  PROVE  Available(i, k) = "RESOLVED" <=> outcomes[bound[i][k]].status = "EXECUTED"
<1> DEFINE s == bound[i][k]
           derived == {q \in quantities : q.producer = s /\ q.key = k}
<1>1. /\ DOMAIN bound = Instances /\ IsDerivation(s) /\ Output(s).key = k
  BY BoundFacts DEF Planned
<1>2. Available(i, k) = IF derived # {} THEN (CHOOSE q \in derived : TRUE).availability
                        ELSE IF outcomes[s].status = "NO_DATA" THEN "NO_DATA" ELSE "BLOCKED"
  BY <1>1 DEF Available
<1> HIDE DEF s
<1>3. CASE derived # {}
  <2>1. PICK q \in derived : q = CHOOSE x \in derived : TRUE
    BY <1>3
  <2>2. Derived(q) /\ q.producer = s
    BY <2>1 DEF RecordInv
  <2>3. outcomes[s].status = StatusOf(q.availability) /\ q.availability \in Availabilities
    BY <2>2 DEF Derived
  <2>4. Available(i, k) = q.availability
    BY <1>2, <1>3, <2>1
  <2> QED BY <2>3, <2>4 DEF StatusOf, Availabilities, s
<1>4. CASE derived = {}
  <2>1. ASSUME NEW q \in quantities PROVE q.producer # s
    <3>1. q.key = Output(q.producer).key
      BY DEF RecordInv, Derived
    <3> QED BY <1>1, <1>4, <3>1
  <2>2. Told(s)
    BY DEF RecordInv, s
  <2>3. outcomes[s].of # "quantity"
    BY <2>1, <2>2 DEF Told
  <2>4. outcomes[s].of # "result"
    BY <1>1, <2>2 DEF Told
  <2>5. outcomes[s] \in Outcomes /\ outcomes[s] # NoOutcome
    BY DEF RecordInv, s
  <2>6. outcomes[s].of = "nothing"
    BY <2>3, <2>4, <2>5 DEF Outcomes, Artifacts
  <2>7. outcomes[s].status # "EXECUTED"
    BY <2>2, <2>5, <2>6 DEF Told, Unready
  <2> QED BY <1>2, <1>4, <2>7 DEF s
<1> QED BY <1>3, <1>4

LEMMA UpstreamFacts ==
  ASSUME NEW i \in Instances
  PROVE  /\ i \in Upstream(i) /\ Upstream(i) \subseteq Instances
         /\ \A j \in Producers(bound, i) : Upstream(j) \subseteq Upstream(i)
BY DEF Upstream

\* A round of the loop that ends with an outcome.
Recording(outcome) ==
  /\ Executing /\ phase' = phase /\ input' = input /\ plan' = plan /\ at' = at + 1
  /\ outcomes' = [outcomes EXCEPT ![Current] = outcome]
  /\ quantities \subseteq quantities'
  /\ \A i \in Instances \ {Current} : results'[i] = results[i]

\* It takes back no trouble,
LEMMA TroubleStays ==
  ASSUME PlanInv, RecordInv, NEW outcome, Recording(outcome)
  PROVE  /\ \A i : Upstream(i)' = Upstream(i)
         /\ \A j \in Instances : Troubled(j) => Troubled(j)'
<1>1. /\ input' = input /\ bound' = bound /\ quantities \subseteq quantities'
      /\ \A i \in Instances \ {Current} : results'[i] = results[i]
  BY DEF Recording, plan
<1>2. /\ Instances' = Instances
      /\ \A i : Applies(i)' <=> Applies(i)
  BY <1>1, SameDeclared
<1>3. results[Current] = "none"
  BY CurrentFacts DEF Recording
<1>4. \A i : Upstream(i)' = Upstream(i)
  BY <1>1, <1>2 DEF Upstream
<1>5. ASSUME NEW j \in Instances, Troubled(j) PROVE Troubled(j)'
  <2>1. results[j] \in {"NO_DATA", "BLOCKED"} => results'[j] = results[j]
    BY <1>1, <1>3
  <2> QED BY <1>1, <1>2, <1>5, <2>1 DEF Troubled
<1> QED BY <1>4, <1>5

\* and what was told of other instances remains true.
LEMMA OthersAreTold ==
  ASSUME PlanInv, RecordInv, NEW outcome, Recording(outcome),
         NEW i \in Instances \ {Current}
  PROVE  Told(i)' /\ Reasoned(i)'
<1>1. /\ input' = input /\ bound' = bound /\ quantities \subseteq quantities'
      /\ results'[i] = results[i]
  BY DEF Recording, plan
<1>2. /\ Instances' = Instances /\ Target(i)' = Target(i)
      /\ (Applies(i)' <=> Applies(i)) /\ (IsDerivation(i)' <=> IsDerivation(i))
  BY <1>1, SameDeclared
<1>3. /\ outcomes \in [Instances -> Outcomes \cup {NoOutcome}]
      /\ outcomes' = [outcomes EXCEPT ![Current] = outcome]
      /\ outcomes[Current] = NoOutcome /\ outcomes'[i] = outcomes[i]
  BY CurrentFacts DEF RecordInv, Recording
<1>4. Told(i) /\ Reasoned(i)
  BY DEF RecordInv
<1>5. Rests(i) => Rests(i)'
  <2> SUFFICES ASSUME Rests(i), NEW k \in DOMAIN bound[i]
               PROVE  /\ bound[i][k] \in Instances => outcomes'[bound[i][k]].status = "EXECUTED"
                      /\ bound[i][k] \notin Instances => bound[i][k].availability = "RESOLVED"
    BY <1>1, <1>2 DEF Rests
  <2>1. bound[i][k] \in Instances => outcomes[bound[i][k]].status = "EXECUTED"
    BY DEF Rests
  <2>2. bound[i][k] \in Instances => bound[i][k] # Current
    BY <1>3, <2>1 DEF NoOutcome
  <2> QED BY <1>3, <2>1, <2>2 DEF Rests
<1>6. Told(i)'
  <2>1. results'[i] # "none" =>
          /\ ~IsDerivation(i)'
          /\ outcomes'[i] = [status |-> StatusOfCheck(results'[i]), of |-> "result"]
    BY <1>1, <1>2, <1>3, <1>4 DEF Told
  <2>2. outcomes'[i].of = "result" => results'[i] # "none"
    BY <1>1, <1>3, <1>4 DEF Told
  <2>3. outcomes'[i].of = "quantity" => IsDerivation(i)' /\ \E q \in quantities' : q.producer = i
    BY <1>1, <1>2, <1>3, <1>4 DEF Told
  <2>4. outcomes'[i].of # "nothing" => Applies(i)' /\ Rests(i)'
    BY <1>2, <1>3, <1>4, <1>5 DEF Told
  <2>5. outcomes'[i] # NoOutcome /\ outcomes'[i].of = "nothing" =>
          /\ ~Applies(i)' => outcomes'[i].status = Unready(Target(i)')
          /\ Applies(i)' => outcomes'[i].status \in {"NO_DATA", "BLOCKED"}
    BY <1>2, <1>3, <1>4 DEF Told
  <2> QED BY <2>1, <2>2, <2>3, <2>4, <2>5 DEF Told
<1>7. Reasoned(i)'
  <2>1. Upstream(i)' = Upstream(i) /\ \A j \in Instances : Troubled(j) => Troubled(j)'
    BY TroubleStays
  <2>2. Upstream(i) \subseteq Instances
    BY UpstreamFacts
  <2> QED BY <1>3, <1>4, <2>1, <2>2 DEF Reasoned
<1> QED BY <1>6, <1>7

\* What remains to be shown of a round is what it tells of its own instance.
LEMMA RecordingKeeps ==
  ASSUME PlanInv, RecordInv, NEW outcome, outcome \in Outcomes, Recording(outcome),
         results' \in [Instances -> {"none", "verdict", "NO_DATA", "BLOCKED"}],
         NEW c, c = Current, Told(c)', Reasoned(c)',
         \A q \in quantities' : q \in quantities \/ (q.producer = c /\ Derived(q)'),
         \A q, r \in quantities' \ quantities : q = r
  PROVE  RecordInv'
<1>1. /\ input' = input /\ bound' = bound /\ order' = order /\ at' = at + 1
      /\ Instances' = Instances /\ Executing
      /\ \A i : Output(i)' = Output(i) /\ (IsDerivation(i)' <=> IsDerivation(i))
  BY SameDeclared DEF Recording, plan
<1>2. /\ Current \in Instances /\ at \in 1 .. Len(order) /\ Planned /\ DOMAIN bound = Instances
      /\ outcomes[Current] = NoOutcome /\ \A q \in quantities : q.producer # Current
  BY <1>1, CurrentFacts
<1>3. /\ outcomes \in [Instances -> Outcomes \cup {NoOutcome}]
      /\ outcomes' = [outcomes EXCEPT ![Current] = outcome]
  BY DEF RecordInv, Recording
<1>4. outcomes' \in [Instances -> Outcomes \cup {NoOutcome}]
  BY <1>2, <1>3
<1>5. IsPlan(bound, order)
  BY <1>2 DEF Planned
<1>6. order \in Seq(Instances) /\ Len(order) \in Nat
  BY <1>2, <1>5 DEF IsPlan
<1>7. at' \in 1 .. Len(order') + 1
  BY <1>1, <1>2, <1>6
<1>8. ASSUME NEW n \in 1 .. Len(order)
      PROVE  outcomes'[order[n]] # NoOutcome <=> n < at'
  <2>1. order[n] \in Instances /\ (outcomes[order[n]] # NoOutcome <=> n < at)
    BY <1>6 DEF RecordInv
  <2>2. order[n] = Current <=> n = at
    BY <1>2, <1>5 DEF IsPlan, Current
  <2>3. outcome # NoOutcome
    BY DEF Outcomes, NoOutcome, Ended
  <2>4. CASE n = at
    <3>1. outcomes'[order[n]] = outcome
      BY <1>2, <1>3, <2>2, <2>4
    <3> QED BY <1>1, <1>2, <2>3, <2>4, <3>1
  <2>5. CASE n # at
    <3>1. outcomes'[order[n]] = outcomes[order[n]]
      BY <1>3, <2>1, <2>2, <2>5
    <3>2. n < at <=> n < at'
      BY <1>1, <1>2, <2>5
    <3> QED BY <2>1, <3>1, <3>2
  <2> QED BY <2>4, <2>5
<1>9. ASSUME NEW q \in quantities' PROVE Derived(q)'
  <2>1. CASE q \in quantities
    <3>1. Derived(q) /\ q.producer # Current
      BY <1>2, <2>1 DEF RecordInv
    <3>2. outcomes'[q.producer] = outcomes[q.producer]
      BY <1>3, <3>1 DEF Derived
    <3> QED BY <1>1, <3>1, <3>2 DEF Derived
  <2> QED BY <1>9, <2>1
<1>10. ASSUME NEW q \in quantities', NEW r \in quantities', q.producer = r.producer
       PROVE  q = r
  <2>1. CASE q \in quantities /\ r \in quantities
    BY <1>10, <2>1 DEF RecordInv
  <2>2. CASE ~(q \in quantities /\ r \in quantities)
    BY <1>2, <1>10, <2>2
  <2> QED BY <2>1, <2>2
<1>11. ASSUME NEW i \in Instances PROVE Told(i)' /\ Reasoned(i)'
  <2>1. CASE i # Current
    BY <2>1, OthersAreTold
  <2>2. CASE i = Current
    BY <2>2
  <2> QED BY <2>1, <2>2
<1> QED BY <1>1, <1>4, <1>7, <1>8, <1>9, <1>10, <1>11 DEF RecordInv

\* A failing dependency has its reason upstream,
LEMMA FailuresHaveReasons ==
  ASSUME PlanInv, RecordInv, Executing, NEW status \in Failures(Current)
  PROVE  status \in {"NO_DATA", "BLOCKED"} /\ \E j \in Upstream(Current) : Troubled(j)
<1> DEFINE c == Current
<1>1. /\ Planned /\ input \in Inputs /\ DOMAIN bound = Instances /\ c \in Instances
      /\ \A k \in DOMAIN bound[c] : bound[c][k] \in Instances =>
           outcomes[bound[c][k]] # NoOutcome /\ bound[c][k] \in Producers(bound, c)
  BY CurrentFacts
<1> HIDE DEF c
<1>2. \A k \in DOMAIN bound[c] : ~Incomplete(c, k)
  <2>1. \A k \in DOMAIN bound[c] : Valid(c, k, bound[c][k])
    BY <1>1, BoundFacts DEF Planned
  <2> QED BY <1>1, <2>1 DEF Incomplete, Valid
<1>3. PICK k \in DOMAIN bound[c] : /\ Available(c, k) # "RESOLVED"
                                   /\ status = IF Available(c, k) = "NO_DATA" THEN "NO_DATA" ELSE "BLOCKED"
  BY <1>2 DEF Failures, c
<1>4. \E j \in Upstream(c) : Troubled(j)
  <2>1. CASE bound[c][k] \in Instances
    <3>1. outcomes[bound[c][k]].status # "EXECUTED"
      BY <1>1, <1>3, <2>1, AvailableIffExecuted
    <3>2. PICK j \in Upstream(bound[c][k]) : Troubled(j)
      BY <1>1, <2>1, <3>1 DEF RecordInv, Reasoned
    <3> QED BY <1>1, <2>1, <3>2, UpstreamFacts
  <2>2. CASE bound[c][k] \notin Instances
    <3>1. bound[c][k].availability # "RESOLVED"
      BY <1>1, <1>3, <2>2 DEF Available
    <3>2. Troubled(c)
      BY <2>2, <3>1 DEF Troubled
    <3> QED BY <1>1, <3>2, UpstreamFacts
  <2> QED BY <2>1, <2>2
<1> QED BY <1>3, <1>4 DEF c

\* and where none fails everything is there.
LEMMA WithoutFailuresRests ==
  ASSUME PlanInv, RecordInv, Executing, Failures(Current) = {}
  PROVE  Rests(Current)
<1> DEFINE c == Current
<1>1. /\ Planned /\ input \in Inputs /\ DOMAIN bound = Instances /\ c \in Instances
      /\ \A k \in DOMAIN bound[c] : bound[c][k] \in Instances => outcomes[bound[c][k]] # NoOutcome
  BY CurrentFacts
<1>2. \A k \in DOMAIN bound[c] : Available(c, k) = "RESOLVED"
  BY DEF Failures
<1> HIDE DEF c
<1>3. ASSUME NEW k \in DOMAIN bound[c], bound[c][k] \in Instances
      PROVE  outcomes[bound[c][k]].status = "EXECUTED"
  BY <1>1, <1>2, <1>3, AvailableIffExecuted
<1>4. ASSUME NEW k \in DOMAIN bound[c], bound[c][k] \notin Instances
      PROVE  bound[c][k].availability = "RESOLVED"
  BY <1>1, <1>2, <1>4 DEF Available
<1>5. Rests(c)
  BY <1>3, <1>4 DEF Rests
<1> QED BY <1>5 DEF c

\* An instance that ran rests on what it rested on before.
LEMMA RestsAfter ==
  ASSUME PlanInv, RecordInv, NEW outcome, Recording(outcome), NEW c, c = Current, Rests(c)
  PROVE  Rests(c)'
<1>1. /\ input' = input /\ bound' = bound /\ Instances' = Instances
      /\ outcomes' = [outcomes EXCEPT ![Current] = outcome]
      /\ outcomes \in [Instances -> Outcomes \cup {NoOutcome}]
      /\ outcomes[Current] = NoOutcome
  BY SameDeclared, CurrentFacts DEF Recording, plan, RecordInv
<1> SUFFICES ASSUME NEW k \in DOMAIN bound[c]
             PROVE  /\ bound[c][k] \in Instances => outcomes'[bound[c][k]].status = "EXECUTED"
                    /\ bound[c][k] \notin Instances => bound[c][k].availability = "RESOLVED"
  BY <1>1 DEF Rests
<1>2. bound[c][k] \in Instances => outcomes[bound[c][k]].status = "EXECUTED"
  BY DEF Rests
<1>3. bound[c][k] \in Instances => bound[c][k] # Current
  BY <1>1, <1>2 DEF NoOutcome
<1> QED BY <1>1, <1>2, <1>3 DEF Rests

LEMMA PassOverRecords == PlanInv /\ RecordInv /\ PassOver => RecordInv'
<1> SUFFICES ASSUME PlanInv, RecordInv, PassOver PROVE RecordInv'
  OBVIOUS
<1>1. PICK c : c = Current
  OBVIOUS
<1> DEFINE outcome == [status |-> Unready(Target(c)), of |-> "nothing"]
<1>2. /\ Executing /\ ~Applies(c) /\ Recording(outcome)
      /\ results' = results /\ quantities' = quantities /\ input' = input /\ bound' = bound
  BY <1>1 DEF PassOver, Record, Recording, Executing, plan
<1>3. outcome \in Outcomes /\ outcome.status # "EXECUTED"
  BY DEF Outcomes, Artifacts, Ended, Unready
<1>4. c \in Instances /\ results[c] = "none" /\ outcomes \in [Instances -> Outcomes \cup {NoOutcome}]
  BY <1>1, <1>2, CurrentFacts DEF RecordInv
<1> HIDE DEF outcome
<1>5. outcomes'[c] = outcome
  BY <1>1, <1>2, <1>4 DEF Recording
<1>6. Target(c)' = Target(c) /\ (Applies(c)' <=> Applies(c))
  BY <1>2, SameDeclared
<1>7. Told(c)'
  BY <1>2, <1>4, <1>5, <1>6 DEF Told, outcome
<1>8. Reasoned(c)'
  <2>1. Troubled(c)
    BY <1>2 DEF Troubled
  <2>2. Upstream(c)' = Upstream(c) /\ Troubled(c)' /\ c \in Upstream(c)
    BY <1>2, <1>4, <2>1, TroubleStays, UpstreamFacts
  <2> QED BY <2>2 DEF Reasoned
<1>9. results' \in [Instances -> {"none", "verdict", "NO_DATA", "BLOCKED"}]
  BY <1>2 DEF RecordInv
<1> QED BY <1>1, <1>2, <1>3, <1>7, <1>8, <1>9, RecordingKeeps

LEMMA HoldRecords == PlanInv /\ RecordInv /\ Hold => RecordInv'
<1> SUFFICES ASSUME PlanInv, RecordInv, Hold PROVE RecordInv'
  OBVIOUS
<1>1. PICK c : c = Current
  OBVIOUS
<1>2. PICK status \in Failures(Current) : Record(status, "nothing")
  BY DEF Hold
<1> DEFINE outcome == [status |-> status, of |-> "nothing"]
<1>3. /\ Executing /\ Applies(c) /\ Recording(outcome)
      /\ results' = results /\ quantities' = quantities /\ input' = input /\ bound' = bound
  BY <1>1, <1>2 DEF Hold, Record, Recording, Executing, plan
<1>4. status \in {"NO_DATA", "BLOCKED"} /\ \E j \in Upstream(c) : Troubled(j)
  BY <1>1, <1>2, <1>3, FailuresHaveReasons
<1>5. outcome \in Outcomes
  BY <1>4 DEF Outcomes, Artifacts, Ended
<1>6. c \in Instances /\ results[c] = "none" /\ outcomes \in [Instances -> Outcomes \cup {NoOutcome}]
  BY <1>1, <1>3, CurrentFacts DEF RecordInv
<1> HIDE DEF outcome
<1>7. outcomes'[c] = outcome
  BY <1>1, <1>3, <1>6 DEF Recording
<1>8. Target(c)' = Target(c) /\ (Applies(c)' <=> Applies(c))
  BY <1>3, SameDeclared
<1>9. Told(c)'
  BY <1>3, <1>4, <1>6, <1>7, <1>8 DEF Told, outcome
<1>10. Reasoned(c)'
  <2>1. PICK j \in Upstream(c) : Troubled(j)
    BY <1>4
  <2>2. j \in Instances
    BY <1>6, <2>1, UpstreamFacts
  <2>3. Upstream(c)' = Upstream(c) /\ Troubled(j)'
    BY <1>3, <2>1, <2>2, TroubleStays
  <2> QED BY <2>1, <2>3 DEF Reasoned
<1>11. results' \in [Instances -> {"none", "verdict", "NO_DATA", "BLOCKED"}]
  BY <1>3 DEF RecordInv
<1> QED BY <1>1, <1>3, <1>5, <1>9, <1>10, <1>11, RecordingKeeps

LEMMA DeriveRecords == PlanInv /\ RecordInv /\ Derive => RecordInv'
<1> SUFFICES ASSUME PlanInv, RecordInv, Derive PROVE RecordInv'
  OBVIOUS
<1>1. PICK c : c = Current
  OBVIOUS
<1>2. PICK q \in Answers : /\ q.producer = Current /\ q.key = Output(Current).key
                          /\ quantities' = quantities \cup {q}
                          /\ Record(StatusOf(q.availability), "quantity")
  BY DEF Derive
<1> DEFINE outcome == [status |-> StatusOf(q.availability), of |-> "quantity"]
<1>3. /\ Executing /\ Applies(c) /\ IsDerivation(c) /\ Failures(Current) = {} /\ Recording(outcome)
      /\ results' = results /\ input' = input /\ bound' = bound
  BY <1>1, <1>2 DEF Derive, Runs, Record, Recording, Executing, plan
<1>4. outcome \in Outcomes
  BY DEF Outcomes, Artifacts, Ended, StatusOf
<1>5. c \in Instances /\ results[c] = "none" /\ outcomes \in [Instances -> Outcomes \cup {NoOutcome}]
  BY <1>1, <1>3, CurrentFacts DEF RecordInv
<1> HIDE DEF outcome
<1>6. outcomes'[c] = outcome
  BY <1>1, <1>3, <1>5 DEF Recording
<1>7. /\ Instances' = Instances /\ Output(c)' = Output(c)
      /\ (Applies(c)' <=> Applies(c)) /\ (IsDerivation(c)' <=> IsDerivation(c))
  BY <1>3, SameDeclared
<1>8. q \in quantities' /\ q.producer = c /\ q.key = Output(c).key /\ q.availability \in Availabilities
  BY <1>1, <1>2 DEF Answers
<1>9. Rests(c)'
  BY <1>1, <1>3, WithoutFailuresRests, RestsAfter
<1>10. Told(c)'
  BY <1>3, <1>5, <1>6, <1>7, <1>8, <1>9 DEF Told, outcome
<1>11. Reasoned(c)'
  <2> SUFFICES ASSUME outcomes'[c].status # "EXECUTED" PROVE \E j \in Upstream(c)' : Troubled(j)'
    BY DEF Reasoned
  <2>1. q.availability # "RESOLVED"
    BY <1>6 DEF outcome, StatusOf
  <2>2. Troubled(c)'
    BY <1>8, <2>1 DEF Troubled
  <2>3. Upstream(c)' = Upstream(c) /\ c \in Upstream(c)
    BY <1>3, <1>5, TroubleStays, UpstreamFacts
  <2> QED BY <2>2, <2>3
<1>12. Derived(q)'
  BY <1>3, <1>5, <1>6, <1>7, <1>8 DEF Derived, outcome
<1>13. results' \in [Instances -> {"none", "verdict", "NO_DATA", "BLOCKED"}]
  BY <1>3 DEF RecordInv
<1>14. /\ \A r \in quantities' : r \in quantities \/ (r.producer = c /\ Derived(r)')
       /\ \A r, p \in quantities' \ quantities : r = p
  BY <1>2, <1>8, <1>12
<1> QED BY <1>1, <1>3, <1>4, <1>10, <1>11, <1>13, <1>14, RecordingKeeps

LEMMA CheckRecords == PlanInv /\ RecordInv /\ Check => RecordInv'
<1> SUFFICES ASSUME PlanInv, RecordInv, Check PROVE RecordInv'
  OBVIOUS
<1>1. PICK c : c = Current
  OBVIOUS
<1>2. PICK verdict \in {"verdict", "NO_DATA", "BLOCKED"} :
        /\ results' = [results EXCEPT ![Current] = verdict]
        /\ Record(StatusOfCheck(verdict), "result")
  BY DEF Check
<1> DEFINE outcome == [status |-> StatusOfCheck(verdict), of |-> "result"]
<1>3. /\ Executing /\ Applies(c) /\ ~IsDerivation(c) /\ Failures(Current) = {}
      /\ quantities' = quantities /\ input' = input /\ bound' = bound
      /\ plan' = plan /\ phase' = phase /\ at' = at + 1
      /\ outcomes' = [outcomes EXCEPT ![Current] = outcome]
  BY <1>1, <1>2 DEF Check, Runs, Record, Executing, plan
<1>4. outcome \in Outcomes
  BY DEF Outcomes, Artifacts, Ended, StatusOfCheck
<1>5. /\ c \in Instances /\ outcomes \in [Instances -> Outcomes \cup {NoOutcome}]
      /\ results \in [Instances -> {"none", "verdict", "NO_DATA", "BLOCKED"}]
  BY <1>1, <1>3, CurrentFacts DEF RecordInv
<1> HIDE DEF outcome
<1>6. /\ results' \in [Instances -> {"none", "verdict", "NO_DATA", "BLOCKED"}]
      /\ results'[c] = verdict /\ \A i \in Instances \ {Current} : results'[i] = results[i]
      /\ outcomes'[c] = outcome
  BY <1>1, <1>2, <1>3, <1>5
<1>7. Recording(outcome)
  BY <1>3, <1>6 DEF Recording
<1>8. (Applies(c)' <=> Applies(c)) /\ (IsDerivation(c)' <=> IsDerivation(c))
  BY <1>3, SameDeclared
<1>9. Rests(c)'
  BY <1>1, <1>3, <1>7, WithoutFailuresRests, RestsAfter
<1>10. Told(c)'
  BY <1>3, <1>6, <1>8, <1>9 DEF Told, outcome
<1>11. Reasoned(c)'
  <2> SUFFICES ASSUME outcomes'[c].status # "EXECUTED" PROVE \E j \in Upstream(c)' : Troubled(j)'
    BY DEF Reasoned
  <2>1. Troubled(c)'
    BY <1>6 DEF outcome, StatusOfCheck, Troubled
  <2>2. Upstream(c)' = Upstream(c) /\ c \in Upstream(c)
    BY <1>5, <1>7, TroubleStays, UpstreamFacts
  <2> QED BY <2>1, <2>2
<1> QED BY <1>1, <1>3, <1>4, <1>6, <1>7, <1>10, <1>11, RecordingKeeps

\* With a plan and no outcome yet there is nothing to show.
LEMMA OrderedRecords == PlanInv /\ ExecInv /\ Ordered => ExecInv'
<1> SUFFICES ASSUME PlanInv, ExecInv, Ordered PROVE ExecInv'
  OBVIOUS
<1>1. /\ phase = "order" /\ input' = input /\ plan' = plan /\ at' = at /\ quantities' = quantities
      /\ at = 1 /\ quantities = {} /\ results = << >> /\ outcomes = << >>
      /\ Planned /\ input \in Inputs
  BY DEF Ordered, ExecInv, Running, PlanInv, Unplanned
<1>2. CASE Len(order) # Cardinality(DOMAIN bound)
  BY <1>1, <1>2 DEF Ordered, ExecInv, Running
<1>3. CASE Len(order) = Cardinality(DOMAIN bound)
  <2>1. DOMAIN bound = Instances /\ Instances' = Instances /\ IsPlan(bound, order)
    BY <1>1, BoundFacts, SameDeclared DEF Planned
  <2>2. order \in Seq(Instances) /\ Len(order) \in Nat /\ order' = order
    BY <1>1, <2>1 DEF IsPlan, plan
  <2>3. /\ results' = [i \in Instances |-> "none"] /\ outcomes' = [i \in Instances |-> NoOutcome]
        /\ phase' = "execute"
    BY <1>3, <2>1 DEF Ordered
  <2>4. \A i \in Instances : Told(i)' /\ Reasoned(i)'
    BY <2>3 DEF Told, Reasoned, NoOutcome
  <2>5. \A n \in 1 .. Len(order) : outcomes'[order[n]] # NoOutcome <=> n < at'
    BY <1>1, <2>2, <2>3
  <2>6. at' \in 1 .. Len(order') + 1
    BY <1>1, <2>2
  <2>7. RecordInv'
    BY <1>1, <2>1, <2>2, <2>3, <2>4, <2>5, <2>6 DEF RecordInv
  <2> QED BY <2>3, <2>7 DEF ExecInv, Running
<1> QED BY <1>2, <1>3

\* Steps that record nothing.
LEMMA NothingRecorded ==
  ASSUME PlanInv, RecordInv, input' = input, plan' = plan, at' = at, store' = store
  PROVE  RecordInv'
<1>1. /\ bound' = bound /\ order' = order /\ quantities' = quantities
      /\ results' = results /\ outcomes' = outcomes
  BY DEF plan, store
<1>2. /\ Instances' = Instances
      /\ \A i : Target(i)' = Target(i) /\ Output(i)' = Output(i)
      /\ \A i : (IsDerivation(i)' <=> IsDerivation(i)) /\ (Applies(i)' <=> Applies(i))
  BY SameDeclared
<1>3. \A q \in quantities : Derived(q)'
  BY <1>1, <1>2 DEF RecordInv, Derived
<1>4. ASSUME NEW i \in Instances PROVE Told(i)' /\ Reasoned(i)'
  <2>1. Told(i) /\ Reasoned(i)
    BY DEF RecordInv
  <2>2. Rests(i) => Rests(i)'
    BY <1>1, <1>2 DEF Rests
  <2>3. Upstream(i)' = Upstream(i)
    BY <1>1, <1>2 DEF Upstream
  <2>4. \A j : Troubled(j) => Troubled(j)'
    BY <1>1, <1>2 DEF Troubled
  <2>5. Reasoned(i)'
    BY <1>1, <2>1, <2>3, <2>4 DEF Reasoned
  <2>6. Told(i)'
    BY <1>1, <1>2, <2>1, <2>2 DEF Told
  <2> QED BY <2>5, <2>6
<1> QED BY <1>1, <1>2, <1>3, <1>4 DEF RecordInv

LEMMA Recorded == Spec => []ExecInv
<1>1. Init => ExecInv
  BY DEF Init, ExecInv, Running
<1>2. PlanInv /\ ExecInv /\ [Next]_vars => ExecInv'
  <2> SUFFICES ASSUME PlanInv, ExecInv, [Next]_vars PROVE ExecInv'
    OBVIOUS
  <2>1. CASE Compile
    BY <2>1 DEF Compile, ExecInv, Running, store
  <2>2. CASE Take
    BY <2>2 DEF Take, ExecInv, Running, store
  <2>3. CASE Ordered
    BY <2>3, OrderedRecords
  <2>4. CASE PassOver \/ Hold \/ Derive \/ Check
    <3>1. phase = "execute" /\ phase' = phase
      BY <2>4 DEF PassOver, Hold, Derive, Check, Runs, Executing, Record
    <3>2. RecordInv
      BY <3>1 DEF ExecInv, Running
    <3>3. RecordInv'
      BY <2>4, <3>2, PassOverRecords, HoldRecords, DeriveRecords, CheckRecords
    <3> QED BY <3>1, <3>3 DEF ExecInv, Running
  <2>5. CASE Fail \/ Reconcile
    <3>1. /\ phase = "execute" /\ phase' \in {"failed", "assessed"}
          /\ input' = input /\ plan' = plan /\ at' = at /\ store' = store
      BY <2>5 DEF Fail, Reconcile, Executing
    <3>2. RecordInv'
      BY <3>1, NothingRecorded DEF ExecInv, Running
    <3> QED BY <3>1, <3>2 DEF ExecInv, Running
  <2>6. CASE UNCHANGED vars
    <3>1. /\ phase' = phase /\ input' = input /\ plan' = plan /\ at' = at /\ store' = store
      BY <2>6 DEF vars
    <3>2. Running => RecordInv'
      BY <3>1, NothingRecorded DEF ExecInv
    <3> QED BY <3>1, <3>2 DEF ExecInv, Running, store
  <2> QED BY <2>1, <2>2, <2>3, <2>4, <2>5, <2>6 DEF Next
<1> QED BY <1>1, <1>2, Planning, PTL DEF Spec

--------------------------------------------------------------------------------
(* What the records show.                                                  *)

\* Upstream of an instance that was executed, all were, and none is troubled: the
\* executed ones are closed under producers, and so is what is upstream.
LEMMA ExecutedMeansUntroubled ==
  ASSUME PlanInv, RecordInv, Running, NEW i \in Instances, outcomes[i].status = "EXECUTED"
  PROVE  \A j \in Upstream(i) : ~Troubled(j)
<1> DEFINE S == {j \in Instances : outcomes[j].status = "EXECUTED"}
<1>1. /\ Planned /\ input \in Inputs /\ DOMAIN bound = Instances
  BY BoundFacts DEF PlanInv, Unplanned, Planned, Running
<1>2. ASSUME NEW j \in S
      PROVE  Told(j) /\ outcomes[j] \in Outcomes /\ outcomes[j].of # "nothing"
  <2>1. Told(j) /\ outcomes[j] \in Outcomes /\ outcomes[j] # NoOutcome
    BY DEF RecordInv, NoOutcome
  <2>2. outcomes[j].of # "nothing"
    BY <2>1 DEF Told, Unready
  <2> QED BY <2>1, <2>2
<1>3. ASSUME NEW m \in S PROVE Producers(bound, m) \subseteq S
  <2>1. Rests(m)
    BY <1>2 DEF Told
  <2> QED BY <1>1, <2>1 DEF Rests, Producers
<1>4. Upstream(i) \subseteq S
  <2>1. i \in S /\ S \in SUBSET Instances
    OBVIOUS
  <2> HIDE DEF S
  <2> QED BY <1>3, <2>1 DEF Upstream
<1>5. ASSUME NEW j \in S PROVE ~Troubled(j)
  <2>1. Told(j) /\ Applies(j) /\ Rests(j) /\ outcomes[j].status = "EXECUTED"
    BY <1>2 DEF Told
  <2>2. ASSUME NEW q \in quantities, q.producer = j PROVE q.availability = "RESOLVED"
    <3>1. Derived(q)
      BY DEF RecordInv
    <3> QED BY <2>1, <2>2, <3>1 DEF Derived, StatusOf, Availabilities
  <2>3. results[j] \notin {"NO_DATA", "BLOCKED"}
    BY <2>1 DEF Told, StatusOfCheck
  <2> QED BY <2>1, <2>2, <2>3 DEF Troubled, Rests
<1> QED BY <1>4, <1>5

\* An instance counts as executed if and only if nothing it rests on, directly or
\* through others, is troubled (assess 442-466, execute 799-827, _materialize 829-866).
THEOREM ExecutionFollowsTrouble == Spec => []ExecutedIffUntroubled
<1>1. PlanInv /\ ExecInv => ExecutedIffUntroubled
  <2> SUFFICES ASSUME PlanInv, ExecInv, phase \in {"execute", "assessed"},
                      NEW i \in Instances, outcomes[i] # NoOutcome
               PROVE  outcomes[i].status = "EXECUTED" <=> \A j \in Upstream(i) : ~Troubled(j)
    BY DEF ExecutedIffUntroubled
  <2>1. RecordInv /\ Running
    BY DEF ExecInv, Running
  <2>2. Reasoned(i)
    BY <2>1 DEF RecordInv
  <2> QED BY <2>1, <2>2, ExecutedMeansUntroubled DEF Reasoned
<1> QED BY <1>1, Planning, Recorded, PTL

\* When all rounds are done every instance has its outcome.
LEMMA AllHaveOutcomes ==
  ASSUME PlanInv, RecordInv, phase \in {"execute", "assessed"}, at > Len(order)
  PROVE  \A i \in Instances : outcomes[i] \in Outcomes /\ outcomes[i] # NoOutcome
<1>1. /\ Planned /\ input \in Inputs
  BY DEF PlanInv, Unplanned
<1>2. /\ DOMAIN bound = Instances /\ IsFiniteSet(Instances) /\ IsPlan(bound, order)
      /\ Len(order) = Cardinality(DOMAIN bound)
  BY <1>1, BoundFacts, FiniteInputs DEF Planned
<1>3. Placed(order) = Instances /\ order \in Seq(Instances)
  BY <1>2, WholePlan DEF IsPlan
<1> TAKE i \in Instances
<1>4. PICK n \in 1 .. Len(order) : order[n] = i
  BY <1>3 DEF Placed
<1>5. n < at
  BY <1>3, <1>4 DEF RecordInv
<1>6. outcomes[i] # NoOutcome
  BY <1>4, <1>5 DEF RecordInv
<1> QED BY <1>6 DEF RecordInv

\* No other instance derives the same quantity for the same scope and direction.
LEMMA NothingStolen ==
  ASSUME PlanInv, RecordInv, phase \in {"execute", "assessed"},
         NEW i \in Instances, IsDerivation(i), NEW q \in quantities,
         q.key = Output(i).key, q.producer.scope = i.scope, q.producer.direction = i.direction
  PROVE  q.producer = i
<1> DEFINE p == q.producer
<1>1. /\ Planned /\ input \in Inputs
  BY DEF PlanInv, Unplanned
<1>2. p \in Instances /\ IsDerivation(p) /\ Output(p).key = Output(i).key
  BY DEF RecordInv, Derived
<1>3. WellFormed(input) /\ Expandable
  BY <1>1, InputsAssumption DEF Planned, Compilable
<1> HIDE DEF p
<1>4. PICK t \in input.targets, u \in input.targets : t.instance = i /\ u.instance = p
  BY <1>2 DEF Instances
<1>5. i.rule \in DOMAIN input.rules /\ p.rule \in DOMAIN input.rules
  BY <1>3, <1>4 DEF Expandable
<1>6. i.rule = p.rule
  BY <1>2, <1>3, <1>5 DEF WellFormed, IsDerivation, Output
<1>7. i.grain = p.grain
  BY <1>2, <1>3, <1>4, <1>6 DEF Expandable, Output
<1>8. /\ i = [rule |-> i.rule, grain |-> i.grain, scope |-> i.scope, direction |-> i.direction]
      /\ p = [rule |-> p.rule, grain |-> p.grain, scope |-> p.scope, direction |-> p.direction]
  BY <1>3, <1>4 DEF WellFormed
<1>9. p.scope = i.scope /\ p.direction = i.direction
  BY DEF p
<1>10. p = i
  BY <1>6, <1>7, <1>8, <1>9
<1> QED BY <1>10 DEF p

\* An outcome without an artifact is found as it was recorded.
LEMMA NonexecutionIsFound ==
  ASSUME NEW i \in Instances, Told(i), outcomes[i] \in Outcomes, outcomes[i] # NoOutcome,
         outcomes[i].of = "nothing", Target(i).applicability # "PROVEN_NOT_APPLICABLE"
  PROVE  Nonexecution(i) = outcomes[i].status
<1>1. outcomes[i].status \notin {"EXECUTED", "PROVEN_NOT_APPLICABLE"}
  <2>1. CASE Applies(i)
    BY <2>1 DEF Told
  <2>2. CASE ~Applies(i)
    <3>1. outcomes[i].status = Unready(Target(i))
      BY <2>2 DEF Told
    <3> QED BY <3>1 DEF Unready
  <2> QED BY <2>1, <2>2
<1> QED BY <1>1 DEF Nonexecution

LEMMA DerivationIsFound ==
  ASSUME PlanInv, RecordInv, phase \in {"execute", "assessed"},
         NEW i \in Instances, IsDerivation(i), outcomes[i] \in Outcomes, outcomes[i] # NoOutcome,
         Target(i).applicability # "PROVEN_NOT_APPLICABLE"
  PROVE  DerivationOutcome(i) = outcomes[i].status
<1> DEFINE expected == {q \in ProducedBy(i) : q.key = Output(i).key}
           stolen == {q \in quantities : /\ q.key = Output(i).key /\ q.producer # i
                                         /\ q.producer.scope = i.scope
                                         /\ q.producer.direction = i.direction}
<1>1. Told(i) /\ results[i] = "none"
  BY DEF RecordInv, Told
<1>2. stolen = {}
  BY NothingStolen
<1>3. ProducedBy(i) = expected
  BY DEF ProducedBy, RecordInv, Derived
<1>4. \A q, r \in ProducedBy(i) : q = r
  BY DEF ProducedBy, RecordInv
<1>5. DerivationOutcome(i) =
        IF Cardinality(expected) > 1 THEN "DUPLICATE"
        ELSE IF expected = {} THEN Nonexecution(i)
        ELSE Agreed(i, StatusOf((CHOOSE q \in expected : TRUE).availability), "quantity")
  BY <1>1, <1>2, <1>3 DEF DerivationOutcome
<1>6. CASE expected = {}
  <2>1. Cardinality(expected) = 0
    BY <1>6, FS_EmptySet
  <2>2. outcomes[i].of = "nothing"
    <3>1. outcomes[i].of # "quantity"
      BY <1>1, <1>3, <1>6 DEF Told, ProducedBy
    <3>2. outcomes[i].of # "result"
      BY <1>1 DEF Told
    <3> QED BY <3>1, <3>2 DEF Outcomes, Artifacts
  <2> QED BY <1>1, <1>5, <1>6, <2>1, <2>2, NonexecutionIsFound
<1>7. CASE expected # {}
  <2>1. PICK q \in expected : q = CHOOSE x \in expected : TRUE
    BY <1>7
  <2>2. expected = {q}
    BY <1>3, <1>4, <2>1
  <2>3. Cardinality(expected) = 1
    BY <2>2, FS_Singleton
  <2>4. q \in quantities /\ q.producer = i
    BY <2>1 DEF ProducedBy
  <2>5. outcomes[i] = [status |-> StatusOf(q.availability), of |-> "quantity"]
    BY <2>4 DEF RecordInv, Derived
  <2>6. DerivationOutcome(i) = Agreed(i, StatusOf(q.availability), "quantity")
    BY <1>5, <1>7, <2>1, <2>3
  <2> QED BY <2>5, <2>6 DEF Agreed
<1> QED BY <1>6, <1>7

LEMMA ReconciledIsRecorded ==
  ASSUME PlanInv, RecordInv, phase \in {"execute", "assessed"},
         NEW i \in Instances, outcomes[i] \in Outcomes, outcomes[i] # NoOutcome
  PROVE  Reconciled(i) = outcomes[i].status
<1>1. Told(i)
  BY DEF RecordInv
<1>2. CASE Target(i).applicability = "PROVEN_NOT_APPLICABLE"
  <2>1. ~Applies(i)
    BY <1>2 DEF Applies
  <2>2. outcomes[i].of = "nothing" /\ outcomes[i].status = "PROVEN_NOT_APPLICABLE"
    BY <1>1, <1>2, <2>1 DEF Told, Unready
  <2>3. outcomes[i] = [status |-> "PROVEN_NOT_APPLICABLE", of |-> "nothing"]
    BY <2>2 DEF Outcomes
  <2>4. results[i] = "none"
    BY <1>1, <2>2 DEF Told
  <2>5. ProducedBy(i) = {}
    <3> SUFFICES ASSUME NEW q \in quantities, q.producer = i PROVE FALSE
      BY DEF ProducedBy
    <3>1. Derived(q)
      BY DEF RecordInv
    <3>2. outcomes[i].of = "quantity"
      BY <3>1 DEF Derived
    <3> QED BY <2>2, <3>2
  <2> QED BY <1>2, <2>2, <2>3, <2>4, <2>5 DEF Reconciled, NotApplicableOutcome
<1>3. CASE Target(i).applicability # "PROVEN_NOT_APPLICABLE" /\ IsDerivation(i)
  <2>1. DerivationOutcome(i) = outcomes[i].status
    BY <1>3, DerivationIsFound
  <2> QED BY <1>3, <2>1 DEF Reconciled
<1>4. CASE Target(i).applicability # "PROVEN_NOT_APPLICABLE" /\ ~IsDerivation(i)
  <2>1. ProducedBy(i) = {}
    BY <1>4 DEF ProducedBy, RecordInv, Derived
  <2>2. CASE results[i] = "none"
    <3>1. outcomes[i].of = "nothing"
      BY <1>1, <1>4, <2>2 DEF Told, Outcomes, Artifacts
    <3>2. Nonexecution(i) = outcomes[i].status
      BY <1>1, <1>4, <3>1, NonexecutionIsFound
    <3> QED BY <1>4, <2>1, <2>2, <3>2 DEF Reconciled, CheckOutcome
  <2>3. CASE results[i] # "none"
    <3>1. outcomes[i] = [status |-> StatusOfCheck(results[i]), of |-> "result"]
      BY <1>1, <2>3 DEF Told
    <3>2. Agreed(i, StatusOfCheck(results[i]), "result") = outcomes[i].status
      BY <3>1 DEF Agreed
    <3> QED BY <1>4, <2>1, <2>3, <3>2 DEF Reconciled, CheckOutcome
  <2> QED BY <2>2, <2>3
<1> QED BY <1>2, <1>3, <1>4

Assessed ==
  /\ phase # "assessed" => closure = "none"
  /\ phase = "assessed" =>
       /\ at > Len(order)
       /\ assessment = [i \in DOMAIN bound |-> Reconciled(i)]
       /\ closure = IF \A i \in DOMAIN bound : Target(i).mandatory =>
                          Reconciled(i) \in {"EXECUTED", "PROVEN_NOT_APPLICABLE"}
                     THEN "COMPLETE" ELSE "INCOMPLETE"

LEMMA SameReconciled ==
  ASSUME input' = input, store' = store
  PROVE  \A i : Reconciled(i)' = Reconciled(i)
<1>1. quantities' = quantities /\ results' = results /\ outcomes' = outcomes
  BY DEF store
<1>2. /\ \A i : Target(i)' = Target(i) /\ Output(i)' = Output(i)
      /\ \A i : IsDerivation(i)' <=> IsDerivation(i)
  BY SameDeclared
<1> TAKE i
<1>3. ProducedBy(i)' = ProducedBy(i) /\ Nonexecution(i)' = Nonexecution(i)
  BY <1>1 DEF ProducedBy, Nonexecution
<1>4. \A s, a : Agreed(i, s, a)' = Agreed(i, s, a)
  BY <1>1 DEF Agreed
<1>5. CheckOutcome(i)' = CheckOutcome(i)
  BY <1>1, <1>3, <1>4 DEF CheckOutcome
<1>6. DerivationOutcome(i)' = DerivationOutcome(i)
  BY <1>1, <1>2, <1>3, <1>4 DEF DerivationOutcome
<1>7. NotApplicableOutcome(i)' = NotApplicableOutcome(i)
  BY <1>1, <1>3 DEF NotApplicableOutcome
<1> QED BY <1>2, <1>5, <1>6, <1>7 DEF Reconciled

LEMMA Assessing == Spec => []Assessed
<1>1. Init => Assessed
  BY DEF Init, Assessed
<1>2. Assessed /\ [Next]_vars => Assessed'
  <2> SUFFICES ASSUME Assessed, [Next]_vars PROVE Assessed'
    OBVIOUS
  <2>1. CASE Reconcile
    <3>1. /\ phase' = "assessed" /\ at > Len(order) /\ at' = at
          /\ input' = input /\ bound' = bound /\ order' = order /\ store' = store
      BY <2>1 DEF Reconcile, plan
    <3>2. \A i : Reconciled(i)' = Reconciled(i) /\ Target(i)' = Target(i)
      BY <3>1, SameReconciled, SameDeclared
    <3> QED BY <2>1, <3>1, <3>2 DEF Reconcile, Assessed
  <2>2. CASE UNCHANGED vars
    <3>1. /\ phase' = phase /\ at' = at /\ assessment' = assessment /\ closure' = closure
          /\ input' = input /\ bound' = bound /\ order' = order /\ store' = store
      BY <2>2 DEF vars, plan
    <3>2. \A i : Reconciled(i)' = Reconciled(i) /\ Target(i)' = Target(i)
      BY <3>1, SameReconciled, SameDeclared
    <3> QED BY <3>1, <3>2 DEF Assessed
  <2>3. CASE Compile \/ Take \/ Ordered \/ PassOver \/ Hold \/ Derive \/ Check \/ Fail
    BY <2>3 DEF Compile, Take, Ordered, PassOver, Hold, Derive, Check, Fail, Runs, Executing, Record, Assessed
  <2> QED BY <2>1, <2>2, <2>3 DEF Next
<1> QED BY <1>1, <1>2, PTL DEF Spec

\* The reconciliation finds of each instance what the execution recorded of it,
\* and the closure is complete if and only if every mandatory instance was
\* executed or does not apply (1091-1147).
THEOREM AccountsAgree == Spec => []AssessmentAgrees
<1>1. PlanInv /\ ExecInv /\ Assessed => AssessmentAgrees
  <2> SUFFICES ASSUME PlanInv, ExecInv, Assessed, phase = "assessed"
               PROVE  /\ \A i \in Instances : assessment[i] = outcomes[i].status
                      /\ closure = "COMPLETE" <=>
                           \A i \in Instances : Target(i).mandatory =>
                             \/ Target(i).applicability = "PROVEN_NOT_APPLICABLE"
                             \/ \A j \in Upstream(i) : ~Troubled(j)
    BY DEF AssessmentAgrees
  <2>1. RecordInv /\ Running /\ at > Len(order)
    BY DEF ExecInv, Running, Assessed
  <2>2. DOMAIN bound = Instances
    <3>1. Planned /\ input \in Inputs
      BY DEF PlanInv, Unplanned
    <3> QED BY <3>1, BoundFacts DEF Planned
  <2>3. \A i \in Instances : outcomes[i] \in Outcomes /\ outcomes[i] # NoOutcome
    BY <2>1, AllHaveOutcomes
  <2>4. \A i \in Instances : Reconciled(i) = outcomes[i].status
    BY <2>1, <2>3, ReconciledIsRecorded
  <2>5. \A i \in Instances : assessment[i] = outcomes[i].status
    BY <2>2, <2>4 DEF Assessed
  <2>6. ASSUME NEW i \in Instances
        PROVE  outcomes[i].status = "PROVEN_NOT_APPLICABLE"
                 <=> Target(i).applicability = "PROVEN_NOT_APPLICABLE"
    <3>1. Told(i) /\ outcomes[i] \in Outcomes /\ outcomes[i] # NoOutcome
      BY <2>1, <2>3 DEF RecordInv
    <3>2. CASE Applies(i)
      <4>1. Target(i).applicability # "PROVEN_NOT_APPLICABLE"
        BY <3>2 DEF Applies
      <4>2. CASE outcomes[i].of = "nothing"
        BY <3>1, <3>2, <4>1, <4>2 DEF Told
      <4>3. CASE outcomes[i].of = "result"
        <5>1. outcomes[i].status = StatusOfCheck(results[i])
          BY <3>1, <4>3 DEF Told
        <5> QED BY <4>1, <5>1 DEF StatusOfCheck
      <4>4. CASE outcomes[i].of = "quantity"
        <5>1. PICK q \in quantities : q.producer = i
          BY <3>1, <4>4 DEF Told
        <5>2. Derived(q)
          BY <2>1 DEF RecordInv
        <5>3. outcomes[i].status = StatusOf(q.availability)
          BY <5>1, <5>2 DEF Derived
        <5> QED BY <4>1, <5>3 DEF StatusOf
      <4> QED BY <3>1, <4>2, <4>3, <4>4 DEF Outcomes, Artifacts
    <3>3. CASE ~Applies(i)
      <4>1. outcomes[i].of = "nothing"
        BY <3>1, <3>3 DEF Told
      <4>2. outcomes[i].status = Unready(Target(i))
        BY <3>1, <3>3, <4>1 DEF Told
      <4> QED BY <4>2 DEF Unready
    <3> QED BY <3>2, <3>3
  <2>7. ASSUME NEW i \in Instances
        PROVE  outcomes[i].status = "EXECUTED" <=> \A j \in Upstream(i) : ~Troubled(j)
    <3>1. Reasoned(i)
      BY <2>1 DEF RecordInv
    <3> QED BY <2>1, <2>3, <3>1, ExecutedMeansUntroubled DEF Reasoned
  <2>8. closure = "COMPLETE" <=>
          \A i \in Instances : Target(i).mandatory =>
            outcomes[i].status \in {"EXECUTED", "PROVEN_NOT_APPLICABLE"}
    BY <2>2, <2>4 DEF Assessed
  <2>9. closure = "COMPLETE" <=>
          \A i \in Instances : Target(i).mandatory =>
            \/ Target(i).applicability = "PROVEN_NOT_APPLICABLE"
            \/ \A j \in Upstream(i) : ~Troubled(j)
    <3>1. ASSUME NEW i \in Instances
          PROVE  outcomes[i].status \in {"EXECUTED", "PROVEN_NOT_APPLICABLE"} <=>
                   \/ Target(i).applicability = "PROVEN_NOT_APPLICABLE"
                   \/ \A j \in Upstream(i) : ~Troubled(j)
      BY <2>6, <2>7
    <3> QED BY <2>8, <3>1
  <2> QED BY <2>5, <2>9
<1> QED BY <1>1, Planning, Recorded, Assessing, PTL

\* Every variable has its type; the loops never leave the order, and nothing is
\* recorded of an instance that was not compiled.
THEOREM TypeCorrect == Spec => []TypeOK
<1>1. PlanInv /\ ExecInv /\ Assessed /\ AssessmentAgrees => TypeOK
  <2> SUFFICES ASSUME PlanInv, ExecInv, Assessed, AssessmentAgrees PROVE TypeOK
    OBVIOUS
  <2>1. /\ input \in Inputs
        /\ phase \in {"compile", "order", "execute", "assessed", "refused", "failed"}
        /\ closure \in {"none", "COMPLETE", "INCOMPLETE"}
    BY DEF PlanInv, Assessed
  <2>2. CASE Unplanned
    <3>1. order \in Seq(Instances) /\ at \in 1 .. Len(order) + 1 /\ quantities = {}
      BY <2>2 DEF Unplanned, ExecInv, Running
    <3> QED BY <2>1, <2>2, <3>1 DEF TypeOK, Unplanned, Compiled
  <2>3. CASE Planned
    <3>1. /\ DOMAIN bound = Instances /\ \A i \in Instances : DOMAIN bound[i] = DOMAIN Deps(i)
          /\ IsFiniteSet(Instances) /\ IsPlan(bound, order)
      BY <2>1, <2>3, BoundFacts, FiniteInputs DEF Planned
    <3>2. indegree \in [Instances -> Nat]
      <4>1. ASSUME NEW i \in Instances
            PROVE  Cardinality(Producers(bound, i) \ Placed(order)) \in Nat
        <5>1. Producers(bound, i) \ Placed(order) \in SUBSET Instances
          BY <3>1 DEF Producers
        <5> QED BY <3>1, <5>1, FS_Subset, FS_CardinalityType
      <4> QED BY <2>3, <3>1, <4>1 DEF Planned
    <3>3. ready \subseteq Instances /\ order \in Seq(Instances) /\ Len(order) \in Nat
      BY <2>3, <3>1 DEF Planned, Open, IsPlan
    <3>4. CASE ~Running
      <4>1. at \in 1 .. Len(order) + 1 /\ quantities = {}
        BY <3>3, <3>4 DEF ExecInv
      <4> QED BY <2>1, <3>1, <3>2, <3>3, <3>4, <4>1 DEF TypeOK, Running
    <3>5. CASE Running
      <4>1. RecordInv
        BY <3>5 DEF ExecInv
      <4>2. \A q \in quantities : q.producer \in Instances /\ q.availability \in Availabilities
        BY <4>1 DEF RecordInv, Derived
      <4>3. phase = "assessed" => assessment \in [Instances -> Statuses]
        <5> SUFFICES ASSUME phase = "assessed" PROVE assessment \in [Instances -> Statuses]
          OBVIOUS
        <5>1. \A i \in Instances : outcomes[i] \in Outcomes
          BY <4>1, AllHaveOutcomes DEF Assessed
        <5>2. \A i \in Instances : assessment[i] \in Statuses
          BY <5>1 DEF AssessmentAgrees, Outcomes, Statuses
        <5> QED BY <3>1, <5>2 DEF Assessed
      <4> QED BY <2>1, <3>1, <3>2, <3>3, <4>1, <4>2, <4>3
             DEF TypeOK, RecordInv, Outcomes, Artifacts
    <3> QED BY <3>4, <3>5
  <2> QED BY <2>2, <2>3 DEF PlanInv
<1> QED BY <1>1, Planning, Recorded, Assessing, AccountsAgree, PTL

================================================================================
