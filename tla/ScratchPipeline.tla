------------------------------ MODULE ScratchPipeline ------------------------------
(***************************************************************************)
(* The controlled executions one after the other, on one gateway session   *)
(* and one ETABS, as column_execution.py and column_public_a5.py call      *)
(* them: the owned scratch is created (B4S, OwnedScratch), its analysis    *)
(* state is established (B4B, one step here; ModifierMutation has it in    *)
(* full), it is analysed (B5, AnalysisExecution) and designed (B6,         *)
(* DesignExecution).  A later execution takes what an earlier one issued   *)
(* as an argument; ETABS, the files and the session are shared, and the    *)
(* operator may interfere with any of them, MaxMoves times in all.         *)
(***************************************************************************)
EXTENDS AnalysisExecution

CONSTANTS
  Versions,   \* of the source file
  Columns,    \* the concrete columns
  Selections  \* populations of selected design combinations

VARIABLES
  phase,      \* the execution under way
  at, head, pre, scratch, opening, cleanup,                                  \* OwnedScratch
  selection, designs, starting, stage, planned, selected, captured, outcome  \* DesignExecution

copying == <<at, head, pre, scratch, opening, cleanup>>
analysing == <<flags, rows, state, late, requested, found, removed, step, facts, restoration, result, status>>
designing == <<selection, designs, starting, stage, planned, selected, captured, outcome>>
pipeline == <<vars, phase, copying, designing>>

Scratch == INSTANCE OwnedScratch WITH writes <- moves, MaxWrites <- MaxMoves

\* The source file is one of its versions as a whole, or not there.
ASSUME PipelineAssumption ==
  Contents = {Scratch!Whole(v) : v \in Versions} \cup {Scratch!Absent}

\* An analysis of the operator's computes every case, of an edited model.
Design == INSTANCE DesignExecution
            WITH analysis <- rows, Populations <- {[c \in Cases |-> "odd"]}

PipelineInit ==
  /\ phase = "scratch"
  /\ Scratch!Init
  /\ InitExecution
  /\ selection = [m \in Models |-> CHOOSE s \in Selections : TRUE]
  /\ designs = [m \in Models |-> Design!NoDesigns]
  /\ starting = FALSE
  /\ stage = "plan"
  /\ planned = selection["scratch"]
  /\ selected = planned
  /\ captured = Design!NoDesigns
  /\ outcome = "none"

Create ==
  /\ phase = "scratch"
  /\ Scratch!Next
  /\ UNCHANGED <<phase, analysing, designing>>

\* B4B issues only on the scratch it was given, its source unchanged
\* (IssuedIsEstablished of ModifierMutation).
Establish ==
  /\ phase = "scratch"
  /\ cleanup = "issued"
  /\ gateway = "serving" /\ active = "scratch" /\ source = baseline
  /\ phase' = "analysis"
  /\ UNCHANGED <<vars, copying, designing>>

Analyse ==
  /\ phase = "analysis"
  /\ Next
  /\ UNCHANGED <<phase, copying, designing>>

\* Mutant: the lineage of the analysis is not asked whether it is qualified.
BeginDesignAnyway ==
  /\ phase = "analysis"
  /\ step = "done"
  /\ phase' = "design"
  /\ selection' \in [Models -> Selections]
  /\ designs' \in Design!DesignsBefore
  /\ UNCHANGED <<vars, copying, starting, stage, planned, selected, captured, outcome>>

\* Only a qualified analysis is designed.  What is in ETABS by now is open.
BeginDesign ==
  /\ phase = "analysis"
  /\ result = "issued"
  /\ phase' = "design"
  /\ selection' \in [Models -> Selections]
  /\ designs' \in Design!DesignsBefore
  /\ UNCHANGED <<vars, copying, starting, stage, planned, selected, captured, outcome>>

Perform ==
  /\ phase = "design"
  /\ Design!Next
  /\ UNCHANGED <<phase, copying, flags, state, late, requested, found, removed, step, facts,
                 restoration, result, status>>

PipelineNext == Create \/ Establish \/ Analyse \/ BeginDesign \/ Perform

PipelineSpec == PipelineInit /\ [][PipelineNext]_pipeline

--------------------------------------------------------------------------------
(* Properties, besides those of AnalysisExecution.                         *)

\* Every variable has its type; the scope is enabled case by case.
PipelineTypeOK ==
  /\ Scratch!TypeOK
  /\ phase \in {"scratch", "analysis", "design"}
  /\ phase # "scratch" => TypeOK

\* OwnedScratch: what is issued is an exact copy of one version of the source.
ScratchIsExactCopy == Scratch!ScratchIsExactCopy

\* OwnedScratch: an error tells what is found on the disk.
CleanupIsTruthful == Scratch!CleanupIsTruthful

\* DesignExecution: rows of an undisturbed design are its own.
DesignIsOwn == Design!DesignIsOwn

\* DesignExecution: rows of the scratch were computed for the planned selection.
DesignIsSelected == Design!DesignIsSelected

\* From end to end, if the operator did nothing: an issued design was computed on
\* an exact copy of the source, from results of exactly the cases the analysis
\* had in its scope, all computed from the established state.  StartDesign takes
\* every result there is, not only those the analysis was asked for.
DesignRestsOnAnalysis ==
  outcome = "issued" /\ moves = 0 =>
    /\ scratch = source
    /\ \A column \in Columns : captured[column].of =
         [c \in Cases |-> IF c \in Execution \cup DOMAIN removed THEN "established" ELSE "none"]

================================================================================
