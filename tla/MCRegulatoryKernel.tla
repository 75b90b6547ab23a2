----------------------------- MODULE MCRegulatoryKernel -----------------------------
\* RegulatoryKernel on two derivations of a component, one of the model, and a
\* check of a component in a direction, with every small net of dependencies
\* between them: cycles, sources that do not fit or are missing, and one target
\* out of the ordinary.
EXTENDS RegulatoryKernel, TLC

Needs(source, grain, scope, direction, full) ==
  [source |-> source, type |-> "number", grain |-> grain, scope |-> scope,
   direction |-> direction, full |-> full, unit |-> "mm"]

Nothing == << >>
Fact  == "f" :> Needs("fact", "COMPONENT", "same", "none", TRUE)
Force == "g" :> Needs("selected", "COMPONENT_DIRECTION", "same", "same", FALSE)
A     == "a" :> Needs("quantity", "COMPONENT", "same", "none", FALSE)
B     == "b" :> Needs("quantity", "COMPONENT", "same", "none", FALSE)
M     == "m" :> Needs("quantity", "MODEL", "global", "none", FALSE)

Rule(key, grain, unit, deps) ==
  [output |-> IF key = "none" THEN NoOutput
              ELSE [key |-> key, type |-> "number", grain |-> grain, unit |-> unit],
   deps |-> deps]

Registry(a, b, k) ==
  [A |-> Rule("a", "COMPONENT", "mm", a), B |-> Rule("b", "COMPONENT", "m", b),
   K |-> Rule("none", "none", "none", k), M |-> Rule("m", "MODEL", "mm", Nothing)]

SomeRegistries ==
  {Registry(a, b, k) : a \in {Fact, B, Fact @@ M}, b \in {Nothing, A, B, M}, k \in {A @@ B, Force @@ B}}

For(r, g, s, d) == [rule |-> r, grain |-> g, scope |-> s, direction |-> d]

SomeInstances ==
  {{For("A", "COMPONENT", "c1", "none"), For("B", "COMPONENT", "c1", "none"),
    For("M", "MODEL", "MODEL", "none"), For("K", "COMPONENT_DIRECTION", "c1", "x")} \cup more :
     more \in {{}, {For("K", "COMPONENT_DIRECTION", "c1", "y")},
              {For("A", "COMPONENT", "c2", "none")}}}

\* A derivation of the model is asked for a component, or two rules for nothing.
Unexpandable ==
  {{For("A", "COMPONENT", "c1", "none"), For("B", "COMPONENT", "c1", "none"),
    For("M", "COMPONENT", "c1", "none"), For("K", "COMPONENT_DIRECTION", "c1", "x")},
   {For("A", "COMPONENT", "c1", "none"), For("M", "MODEL", "MODEL", "none")}}

Ordinary == [applicability |-> "APPLIES", basis |-> "MATCH"]
Odd ==
  {[applicability |-> a, basis |-> "MATCH"] :
     a \in {"PROVEN_NOT_APPLICABLE", "UNRESOLVED", "INVALID_CONTEXT"}}
  \cup {[applicability |-> "APPLIES", basis |-> b] : b \in {"REANALYSIS_REQUIRED", "INVALID"}}

AsTarget(i, mandatory, how) ==
  [instance |-> i, mandatory |-> mandatory, applicability |-> how.applicability, basis |-> how.basis]

\* All ordinary, or those of one rule not.
SomeTargets ==
  {{AsTarget(i, i.rule # "M", IF i.rule = r THEN how ELSE Ordinary) : i \in S} :
     S \in SomeInstances, r \in {"A", "K"}, how \in Odd \cup {Ordinary}}
  \cup {{AsTarget(i, TRUE, Ordinary) : i \in S} : S \in Unexpandable}

Authority(key, kind, grain, s, d, unit, availability, complete) ==
  [key |-> key, kind |-> kind, type |-> "number", grain |-> grain, scope |-> s, direction |-> d,
   unit |-> unit, availability |-> availability, complete |-> complete]

SomeAuthorities ==
  {{Authority("f", "fact", "COMPONENT", "c1", "none", "m", f, c),
    Authority("f", "fact", "COMPONENT", "c2", "none", "m", "RESOLVED", TRUE),
    Authority("g", "selected", "COMPONENT_DIRECTION", "c1", "x", "mm", "RESOLVED", TRUE)} \cup more :
     f \in {"RESOLVED", "NO_DATA"}, c \in BOOLEAN,
     more \in {{}, {Authority("g", "selected", "COMPONENT_DIRECTION", "c1", "y", "mm", "BLOCKED", TRUE)}}}

SomeInputs == [rules : SomeRegistries, targets : SomeTargets, authorities : SomeAuthorities]

\* The identifiers begin with the rule, in quotes, then the grain, the scope, the direction.
SomeRank ==
  [i \in UNION (SomeInstances \cup Unexpandable) |->
     (CASE i.rule = "A" -> 0 [] i.rule = "B" -> 10 [] i.rule = "K" -> 20 [] i.rule = "M" -> 30)
       + (IF i.grain = "MODEL" THEN 4 ELSE 0) + (IF i.scope = "c2" THEN 2 ELSE 0)
       + (IF i.direction = "y" THEN 1 ELSE 0)]

================================================================================
