------------------------------ MODULE DesignExecution ------------------------------
(***************************************************************************)
(* execute_controlled_concrete_design (B6, in                              *)
(* integration/etabs_controlled_design_execution.py) with its preflight    *)
(* (etabs_design_execution.py): concrete design is started once, on an     *)
(* analysed scratch that has no design results yet, for the load           *)
(* combinations the design state names, and its results are read.          *)
(*                                                                         *)
(* A design row remembers what it was computed from, so that a property    *)
(* can tell whose row was read.  The identities of the arguments (lineage, *)
(* scratch, topology, design state) do not change during the call and are  *)
(* left out; what is read from ETABS again is kept.                        *)
(***************************************************************************)
EXTENDS Naturals

CONSTANTS
  Columns,     \* the concrete columns of the topology
  Selections,  \* populations of selected design combinations
  Populations, \* analysis results that an analysis of the operator's may leave
  Contents,    \* versions of the source file
  MaxMoves     \* bound: what the operator does

VARIABLES
  active,    \* the model open in ETABS
  gateway,   \* whether the session still serves calls
  analysis,  \* the analysis results of each model
  source,    \* the bytes of the protected source file
  baseline,  \* its bytes when the scratch was issued
  moves,     \* what the operator did so far
  selection, \* the selected combinations of each model
  designs,   \* the design rows of the columns of each model
  starting,  \* whether a hung StartDesign may still be done
  stage,     \* where the execution stands
  planned,   \* the selection that the design state names
  selected,  \* selected_before
  captured,  \* factual_results
  outcome    \* "none", then "issued" or "error"

files == <<source, baseline>>
execution == <<stage, planned, selected, captured, outcome>>
model == <<selection, designs, starting>>
vars == <<active, gateway, analysis, files, moves, model, execution>>

Models == {"scratch", "other"}

Stages == {"plan", "bind", "availability", "census", "combos", "active", "start",
           "active_after", "availability_after", "combos_after", "results", "ended"}

NoDesign == [model |-> "none"]

\* What StartDesign computes for a column of model m.
Design(m, starter) ==
  [model |-> m, of |-> analysis[m], for |-> selection[m], by |-> starter]

NoDesigns == [c \in Columns |-> NoDesign]

\* The model the scratch was copied from may have been designed, and the copy
\* may have kept its rows.
DesignsBefore ==
  {[m \in Models |-> rows] : rows \in {NoDesigns, [c \in Columns |-> Design("other", "operator")]}}

InitDesign ==
  /\ selection \in [Models -> Selections]
  /\ designs \in DesignsBefore
  /\ starting = FALSE
  /\ stage = "plan"
  /\ planned = selection["scratch"]
  /\ selected = planned
  /\ captured = NoDesigns
  /\ outcome = "none"

--------------------------------------------------------------------------------
Answer == IF gateway = "serving" THEN {"ok", "nonzero", "raised", "hung"} ELSE {"raised"}

After(answer) == gateway' = IF answer = "hung" THEN "failed" ELSE gateway

ReadCall(answer) ==
  /\ answer \in Answer
  /\ After(answer)
  /\ UNCHANGED <<active, analysis, files, moves, model>>

Goto(s) == stage' = s /\ UNCHANGED outcome

Fail == stage' = "ended" /\ outcome' = "error"

\* What StartDesign may make of the rows of model m; it may leave out a column.
Starts(m, starter) ==
  {[c \in Columns |-> IF c \in kept THEN designs[m][c] ELSE Design(m, starter)] :
     kept \in {{}, Columns} \cup {{c} : c \in Columns}}

--------------------------------------------------------------------------------
\* The caller has read the selection, from which it builds the design state.
Plan ==
  /\ stage = "plan"
  /\ \E answer \in Answer :
       /\ ReadCall(answer)
       /\ \/ answer = "ok" /\ planned' = selection[active] /\ Goto("bind")
          \/ Fail /\ UNCHANGED planned
  /\ UNCHANGED <<selected, captured>>

\* A reading of the identity of the active model, which must be the scratch.
BindsScratch(here, next) ==
  /\ stage = here
  /\ \E answer \in Answer :
       /\ ReadCall(answer)
       /\ IF answer = "ok" /\ active = "scratch" THEN Goto(next) ELSE Fail

\* Of the preflight, and on both sides of StartDesign.
Bind ==
  /\ \/ BindsScratch("bind", "availability")
     \/ BindsScratch("active", "start")
     \/ BindsScratch("active_after", "availability_after")
  /\ UNCHANGED <<planned, selected, captured>>

Available(m) == \E c \in Columns : designs[m][c] # NoDesign

\* Mutant: results that are there do not stop the execution, only unclear ones do.
PreflightAmbiguousOnly ==
  /\ \E answer \in Answer :
       /\ ReadCall(answer)
       /\ \/ /\ stage = "availability"
             /\ IF answer = "ok" THEN Goto(IF Available(active) THEN "combos" ELSE "census") ELSE Fail
          \/ /\ stage = "census"
             /\ IF answer = "ok" /\ designs[active] = NoDesigns THEN Goto("combos") ELSE Fail
  /\ UNCHANGED <<planned, selected, captured>>

\* Preflight: only a model without any result, by its flag of results available
\* and by the census of the columns, is ABSENT.  Of a model that has some, or
\* whose flag cannot be read, the census decides nothing any more.
Preflight ==
  /\ \E answer \in Answer :
       /\ ReadCall(answer)
       /\ \/ /\ stage = "availability"
             /\ IF answer = "ok" /\ ~Available(active) THEN Goto("census") ELSE Fail
          \/ /\ stage = "census"
             /\ IF answer = "ok" /\ designs[active] = NoDesigns THEN Goto("combos") ELSE Fail
  /\ UNCHANGED <<planned, selected, captured>>

\* Mutant: whatever is selected is taken, the design state is not asked.
SelectionUnplanned ==
  /\ stage = "combos"
  /\ \E answer \in Answer :
       /\ ReadCall(answer)
       /\ selected' = selection[active]
       /\ IF answer = "ok" THEN Goto("active") ELSE Fail
  /\ UNCHANGED <<planned, captured>>

\* The selection must be the one that the design state names.
Selection ==
  /\ stage = "combos"
  /\ \E answer \in Answer :
       /\ ReadCall(answer)
       /\ selected' = selection[active]
       /\ IF answer = "ok" /\ selected' = planned THEN Goto("active") ELSE Fail
  /\ UNCHANGED <<planned, captured>>

\* DesignConcrete.StartDesign, on whatever model is active.
StartDesign ==
  /\ stage = "start"
  /\ \E answer \in Answer :
       /\ answer \in Answer
       /\ After(answer)
       /\ designs' \in {[designs EXCEPT ![active] = rows] :
                          rows \in IF answer = "ok" THEN Starts(active, "b6")
                                   ELSE {designs[active]} \cup
                                          (IF gateway = "serving" THEN Starts(active, "b6") ELSE {})}
       /\ starting' = (answer = "hung")
       /\ IF answer = "ok" THEN Goto("active_after") ELSE Fail
  /\ UNCHANGED <<active, analysis, files, moves, selection, planned, selected, captured>>

PostAvailability ==
  /\ stage = "availability_after"
  /\ \E answer \in Answer :
       /\ ReadCall(answer)
       /\ IF answer = "ok" /\ Available(active) THEN Goto("combos_after") ELSE Fail
  /\ UNCHANGED <<planned, selected, captured>>

PostSelection ==
  /\ stage = "combos_after"
  /\ \E answer \in Answer :
       /\ ReadCall(answer)
       /\ IF answer = "ok" /\ selection[active] = selected THEN Goto("results") ELSE Fail
  /\ UNCHANGED <<planned, selected, captured>>

\* Sections and results of all columns.
Results ==
  /\ stage = "results"
  /\ \E answer \in Answer :
       /\ ReadCall(answer)
       /\ IF answer = "ok" /\ \A c \in Columns : designs[active][c] # NoDesign
          THEN /\ captured' = designs[active]
               /\ stage' = "ended"
               /\ outcome' = "issued"
          ELSE Fail /\ UNCHANGED captured
  /\ UNCHANGED <<planned, selected>>

Execution ==
  \/ Plan \/ Bind \/ Preflight \/ Selection \/ StartDesign
  \/ PostAvailability \/ PostSelection \/ Results

--------------------------------------------------------------------------------
(* Around the execution.                                                   *)

LateStart ==
  /\ starting
  /\ starting' = FALSE
  /\ \E rows \in Starts(active, "b6") : designs' = [designs EXCEPT ![active] = rows]
  /\ UNCHANGED <<active, gateway, analysis, files, moves, selection, execution>>

\* The operator opens the other model, selects other combinations, analyses the
\* active model anew, designs it, or someone overwrites the source file.
OperatorMoves ==
  /\ stage # "ended"
  /\ moves < MaxMoves
  /\ moves' = moves + 1
  /\ \/ /\ active' \in Models \ {active}
        /\ UNCHANGED <<analysis, source, selection, designs>>
     \/ /\ selection' \in {[selection EXCEPT ![active] = s] : s \in Selections \ {selection[active]}}
        /\ UNCHANGED <<active, analysis, source, designs>>
     \/ /\ analysis' \in {[analysis EXCEPT ![active] = p] : p \in Populations}
        /\ designs' = [designs EXCEPT ![active] = NoDesigns]
        /\ UNCHANGED <<active, source, selection>>
     \/ /\ designs' \in {[designs EXCEPT ![active] = rows] : rows \in Starts(active, "operator")}
        /\ UNCHANGED <<active, analysis, source, selection>>
     \/ /\ source' \in Contents \ {source}
        /\ UNCHANGED <<active, analysis, selection, designs>>
  /\ UNCHANGED <<gateway, baseline, starting, execution>>

Next == Execution \/ LateStart \/ OperatorMoves

--------------------------------------------------------------------------------
(* Alone, some time after B5 issued the analysis of the scratch.           *)

Init ==
  /\ active \in Models
  /\ gateway = "serving"
  /\ analysis \in [Models -> Populations]
  /\ source \in Contents
  /\ baseline \in Contents
  /\ moves = 0
  /\ InitDesign

Spec == Init /\ [][Next]_vars

--------------------------------------------------------------------------------
(* Properties.                                                             *)

\* If the operator did nothing, the rows of an issued design were computed by
\* this StartDesign, on the scratch, from the analysis it still has, for the
\* selection of the design state; none was left from before (preflight, 255-266).
DesignIsOwn ==
  outcome = "issued" /\ moves = 0 =>
    captured = [c \in Columns |->
                  [model |-> "scratch", of |-> analysis["scratch"], for |-> planned, by |-> "b6"]]

\* Although the operator did one thing, rows read from the scratch were computed
\* for the selection of the design state: the selection is compared before and
\* after StartDesign (268-279, 331-338).  One that is changed and changed back
\* passes both comparisons.
DesignIsSelected ==
  outcome = "issued" =>
    \A c \in Columns : captured[c].model = "scratch" => captured[c].for = planned

\* docs/architecture/ETABS_EXECUTION_LIFECYCLE_CENSUS.md, SCRATCH_DESIGNED: the
\* source is unchanged when a design result is issued.  B6 does not look at it.
DesignedOnIntactSource == outcome = "issued" => source = baseline

================================================================================
