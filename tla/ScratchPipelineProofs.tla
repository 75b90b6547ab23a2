--------------------------- MODULE ScratchPipelineProofs ---------------------------
(***************************************************************************)
(* Theorems about ScratchPipeline, and so about B5 and B6 in it, for any   *)
(* load cases, scopes, columns, selections and versions of the source, and *)
(* any number of moves of the operator's.                                  *)
(*                                                                         *)
(* The invariant has a part for each phase.  That of the analysis says     *)
(* what ETABS holds while nobody but the execution acts (AloneInv), and    *)
(* what survives one move (OwnInv); that of the design likewise            *)
(* (DesignAloneInv, SelectedInv).  The creation is counted as in           *)
(* OwnedScratchProofs, whose lemmas are used.  Each phase leaves the parts *)
(* of the earlier ones true: an issued analysis outlasts the design.       *)
(***************************************************************************)
EXTENDS ScratchPipeline, TLAPS

--------------------------------------------------------------------------------
(* The invariant of the analysis.                                          *)

Restoring == {"restore", "restore_read", "restore_off", "restore_on", "restore_verify"}
Final == {"final_bind", "final_source", "qualify"}

\* A hung call leaves a failed session, which nothing survives that goes on.
LateInv ==
  late # {} =>
    /\ gateway = "failed"
    /\ \/ step = "restore" /\ plan.why = "error"
       \/ step = "done" /\ status \in {"NOT_REQUIRED", "BLOCKED_UNSAFE", "FAILED"}

\* What is said of the restoration is said at the end, except that the flags
\* of a positive path are restored before.
ResultInv ==
  /\ result = "none" <=> step # "done"
  /\ status = "none" <=> step \notin Final \cup {"done"}
  /\ step \in Final \/ result = "issued" => status \in Restored
  /\ step \in {"bind", "source_pre", "state1_bind", "state1_read", "snapshot", "universe",
               "resolve", "all_off"} => enabled = {}

\* The positive path restores with all that was retired and recreated, the
\* others perhaps with none of it.
PlanInv ==
  /\ step \in Restoring => /\ plan.why \in {"error", "qualify"}
                           /\ plan.retired \in {{}, Retirements}
                           /\ plan.recreated \in {NoFlags, removed}
  /\ step \in Restoring /\ plan.why = "qualify" =>
       plan.retired = Retirements /\ plan.exact /\ plan.recreated = removed
  /\ step \in {"readiness", "populations", "state3_bind", "state3_read"} => recreation = removed

\* The goal is the snapshot without what is declared retired, and what is
\* declared recreated.
GoalInv ==
  step \in {"restore_off", "restore_on", "restore_verify"} =>
    /\ DOMAIN goal \subseteq DOMAIN snapshot \cup DOMAIN plan.recreated
    /\ DOMAIN plan.recreated \subseteq DOMAIN goal \ DOMAIN snapshot
    /\ DOMAIN snapshot \ DOMAIN goal \subseteq plan.retired
    /\ \A c \in DOMAIN goal :
         goal[c] = IF c \in DOMAIN plan.recreated THEN plan.recreated[c] ELSE snapshot[c]

\* Between the resolution of the scope and the restoration.
Resolved ==
  {"all_off", "enable", "verify", "delete", "cleared", "state2_bind", "state2_read", "run",
   "post", "recreation", "readiness", "populations", "state3_bind", "state3_read"}

ScopeInv == step \in Resolved => requested \subseteq DOMAIN snapshot

\* The results of the generation are there, as far as the positive path is concerned.
Generated ==
  \/ step \in {"recreation", "readiness", "populations", "state3_bind", "state3_read"} \cup Final
  \/ step \in Restoring /\ plan.why = "qualify"
  \/ result = "issued"

Early == {"bind", "source_pre", "state1_bind", "state1_read", "snapshot", "universe",
          "resolve", "all_off"}

RowsBefore == [c \in Cases |-> IF c \in DOMAIN found THEN "stale" ELSE "none"]

\* Nobody but the execution acts, so that the scratch stays the active model and
\* established, and the other model as it was.
ElsewhereInv ==
  /\ active = "scratch"
  /\ state = [m \in Models |-> IF m = "scratch" THEN "established" ELSE "odd"]
  /\ flags["other"] = [c \in Cases |-> TRUE]
  /\ rows["other"] = [c \in Cases |-> "stale"]

\* Run flags and rows on the way to the run.
ConfiguredInv ==
  /\ step \in Early => flags["scratch"] = found /\ rows["scratch"] = RowsBefore
  /\ step \in {"universe", "resolve"} \cup Resolved \cup Restoring => snapshot = found
  /\ step \in {"enable", "verify", "delete", "cleared", "state2_bind", "state2_read", "run"} =>
       \A c \in Cases : rows["scratch"][c] # "none" => c \in DOMAIN found
  /\ step \in {"delete", "cleared", "state2_bind", "state2_read", "run"} =>
       flags["scratch"] = Configured
  /\ step \in {"state2_bind", "state2_read", "run"} =>
       \A c \in Cases : rows["scratch"][c] = "none"

\* The rows the run has left, and what was found out about them since then.
GeneratedInv ==
  /\ step = "post" \/ Generated =>
       \A c \in Cases :
         /\ rows["scratch"][c] \in {"none", "established"}
         /\ rows["scratch"][c] # "none" => c \in DOMAIN flags["scratch"] \cup DOMAIN removed
  /\ Generated =>
       /\ DOMAIN flags["scratch"] = (DOMAIN found \ Retirements) \cup DOMAIN removed
       /\ post = Finished("scratch")
  /\ Generated /\ step # "recreation" =>
       /\ DOMAIN removed \subseteq post
       /\ post \subseteq Execution \cup DOMAIN removed
  /\ Generated /\ step \notin {"recreation", "readiness"} => Execution \subseteq post

\* Whatever restored the flags, they are as found.
FoundInv ==
  step \in Final \/ (step = "done" /\ status \in Restored) => FlagsAsFound

AloneInv ==
  moves = 0 =>
    ElsewhereInv /\ ConfiguredInv /\ GeneratedInv /\ FoundInv /\ NotRequiredBoundsDamage

UsedOwn == \A c \in requested : used[c] = "established"

\* One move opens the other model or edits the scratch for good, and some check
\* to come finds that; or it leaves the rows what a run of the scratch makes them.
OwnInv ==
  moves <= 1 =>
    /\ state["other"] = "odd"
    /\ active = "scratch" /\ state["scratch"] = "established" =>
         /\ step \in {"state2_bind", "state2_read", "run", "post", "recreation", "readiness",
                      "populations"} =>
              \A c \in requested : rows["scratch"][c] \in {"none", "established"}
         /\ step \in {"state3_bind", "state3_read"} => UsedOwn
    /\ \/ step \in Restoring /\ plan.why = "qualify"
       \/ step \in Final
       \/ result = "issued"
       => UsedOwn

AnalysisInv ==
  /\ TypeOK /\ LateInv /\ ResultInv /\ PlanInv /\ GoalInv /\ ScopeInv
  /\ AloneInv /\ OwnInv

--------------------------------------------------------------------------------
(* The invariant of the design.                                            *)

DesignRows ==
  {Design!NoDesign} \cup
    [model : Models, of : [Cases -> Rows], for : Selections, by : {"b6", "operator"}]

DesignTypes ==
  /\ selection \in [Models -> Selections]
  /\ designs \in [Models -> [Columns -> DesignRows]]
  /\ stage \in Design!Stages
  /\ outcome \in {"none", "issued", "error"}

\* A StartDesign that hangs ends the execution.
StartingInv ==
  /\ outcome # "none" <=> stage = "ended"
  /\ starting => outcome = "error"

\* Rows of the other model are never of the scratch.
OriginInv == \A c \in Columns : designs["other"][c].model # "scratch"

BeforeStart == {"plan", "bind", "availability", "census", "combos", "active", "start"}
AfterStart == {"active_after", "availability_after", "combos_after", "results"}

\* Nobody but the execution acts.
DesignAloneInv ==
  moves = 0 =>
    /\ stage # "plan" /\ outcome # "error" => planned = selection["scratch"]
    /\ stage \in BeforeStart => \A c \in Columns : designs["scratch"][c].model # "scratch"
    /\ stage \in {"combos", "active", "start"} => designs["scratch"] = Design!NoDesigns
    /\ stage \in AfterStart =>
         \A c \in Columns :
           designs["scratch"][c] \in {Design!NoDesign, Design!Design("scratch", "b6")}
    /\ Design!DesignIsOwn

\* Rows of the scratch were computed for this selection.
RowsFor(s) == \A c \in Columns : designs["scratch"][c].model = "scratch" => designs["scratch"][c].for = s

\* One move changes the selection, or designs, or opens the other model, but not
\* two of these.
SelectedInv ==
  moves <= 1 =>
    /\ stage \in {"active", "start"} \cup AfterStart => selected = planned
    /\ active = "scratch" =>
         /\ stage = "plan" => RowsFor(selection["scratch"])
         /\ stage \in (BeforeStart \cup AfterStart) \ {"plan", "results"}
              /\ selection["scratch"] = planned => RowsFor(planned)
         /\ stage = "results" => RowsFor(planned)
    /\ Design!DesignIsSelected

DesignInv ==
  /\ DesignTypes /\ StartingInv /\ OriginInv /\ DesignAloneInv /\ SelectedInv
  /\ result = "issued"

--------------------------------------------------------------------------------
(* The invariant of the pipeline.                                          *)

\* The creation is counted by the moves of the whole pipeline.
Proof == INSTANCE OwnedScratchProofs WITH writes <- moves, MaxWrites <- MaxMoves

\* A read under way has its first half.
HeadInv == at \in {"pre_end", "copy_end", "post_end"} => head \in Versions

\* What B4S issued stays on the disk.
IssuedInv ==
  /\ cleanup = "issued" /\ at = "ended"
  /\ baseline \in Contents
  /\ moves = 0 => scratch = source

\* B6 has not been called yet.
BeforeDesign ==
  /\ stage = "plan" /\ ~starting /\ outcome = "none"
  /\ selection = [m \in Models |-> CHOOSE s \in Selections : TRUE]

PipelineInv ==
  /\ Scratch!TypeOK /\ HeadInv /\ Proof!IInv
  /\ phase \in {"scratch", "analysis", "design"}
  /\ phase = "scratch" => InitExecution
  /\ phase # "scratch" => AnalysisInv /\ IssuedInv
  /\ phase # "design" => BeforeDesign
  /\ phase = "design" => DesignInv

--------------------------------------------------------------------------------
(* Flags, and what calls make of a model.                                  *)

LEMMA FlagsAre ==
  ASSUME NEW f \in Flags
  PROVE  DOMAIN f \subseteq Cases /\ \A c \in DOMAIN f : f[c] \in BOOLEAN
  BY DEF Flags

LEMMA AreFlags ==
  ASSUME NEW S \in SUBSET Cases, NEW f \in [S -> BOOLEAN]
  PROVE  f \in Flags
  BY DEF Flags

LEMMA NoFlagsAreFlags == NoFlags \in Flags /\ DOMAIN NoFlags = {}
<1>1. NoFlags \in [{} -> BOOLEAN]
  BY DEF NoFlags
<1> QED
  BY <1>1, AreFlags DEF NoFlags

LEMMA OffEffect ==
  ASSUME NEW m, NEW e \in Effects("off", m)
  PROVE  \E kept : e = [flags |-> [c \in DOMAIN flags[m] |-> c \in kept /\ flags[m][c]],
                        rows |-> rows[m]]
  BY SMT DEF Effects

LEMMA DeleteEffect ==
  ASSUME NEW m, NEW e \in Effects("delete", m)
  PROVE  \E kept : e = [flags |-> flags[m],
                        rows |-> [c \in Cases |-> IF c \in kept THEN rows[m][c] ELSE "none"]]
  BY SMT DEF Effects

LEMMA CaseEffect ==
  ASSUME NEW m, NEW call \in Cases, NEW e \in Effects(call, m)
  PROVE  e = [flags |-> [c \in DOMAIN flags[m] |-> c = call \/ flags[m][c]], rows |-> rows[m]]
<1> call \notin {"off", "delete", "run"}
  BY AnalysisExecutionAssumption
<1> QED
  BY SMT DEF Effects

LEMMA RunEffect ==
  ASSUME NEW m, NEW e \in Analyses(m)
  PROVE  \E lost, new, done :
           /\ lost \subseteq (Managed \cap DOMAIN flags[m]) \ Run(m)
           /\ new \in {{}, Back(m)}
           /\ done \subseteq DOMAIN flags[m] \cup Back(m)
           /\ e = Analysed(m, lost, new, done)
<1>1. \E lost, new, done :
           /\ lost \subseteq (Managed \cap DOMAIN flags[m]) \ Run(m)
           /\ new \in {{}, Back(m)}
           /\ done \in MayFinish(m)
           /\ e = Analysed(m, lost, new, done)
  BY SMT DEF Analyses
<1>2. \A done \in MayFinish(m) : done \subseteq DOMAIN flags[m] \cup Back(m)
  BY SMT DEF MayFinish, Run
<1> QED
  BY <1>1, <1>2

LEMMA AnalysesTypes ==
  ASSUME TypeOK, NEW m \in Models, NEW e \in Analyses(m)
  PROVE  e.flags \in Flags /\ e.rows \in [Cases -> Rows]
<1>1. PICK lost, new, done :
           /\ lost \subseteq (Managed \cap DOMAIN flags[m]) \ Run(m)
           /\ new \in {{}, Back(m)}
           /\ done \subseteq DOMAIN flags[m] \cup Back(m)
           /\ e = Analysed(m, lost, new, done)
  BY RunEffect
<1>2. flags[m] \in Flags /\ removed \in Flags
  BY DEF TypeOK
<1>3. (DOMAIN flags[m] \ lost) \cup new \in SUBSET Cases
  BY <1>1, <1>2, FlagsAre DEF Back
<1>4. e.flags \in [(DOMAIN flags[m] \ lost) \cup new -> BOOLEAN]
  BY <1>1, <1>2, FlagsAre DEF Analysed
<1>5. e.rows \in [Cases -> Rows]
  BY <1>1 DEF TypeOK, Rows, Analysed
<1> QED
  BY <1>3, <1>4, <1>5, AreFlags

LEMMA EffectsTypes ==
  ASSUME TypeOK, NEW m \in Models, NEW call \in Calls, NEW e \in Effects(call, m)
  PROVE  e.flags \in Flags /\ e.rows \in [Cases -> Rows]
<1> flags[m] \in Flags /\ rows[m] \in [Cases -> Rows]
  BY DEF TypeOK
<1>0. DOMAIN flags[m] \in SUBSET Cases /\ \A c \in DOMAIN flags[m] : flags[m][c] \in BOOLEAN
  BY FlagsAre
<1>1. CASE call = "off"
  <2>0. e \in Effects("off", m)
    BY <1>1
  <2>1. PICK kept : e = [flags |-> [c \in DOMAIN flags[m] |-> c \in kept /\ flags[m][c]],
                         rows |-> rows[m]]
    BY <2>0, OffEffect
  <2>2. /\ e.flags = [c \in DOMAIN flags[m] |-> c \in kept /\ flags[m][c]]
        /\ e.rows = rows[m]
    BY <2>1
  <2>3. e.flags \in [DOMAIN flags[m] -> BOOLEAN]
    BY <2>2, Zenon
  <2> QED
    BY <1>0, <2>2, <2>3, AreFlags
<1>2. CASE call = "delete"
  BY <1>2, DeleteEffect DEF Rows
<1>3. CASE call = "run"
  BY <1>3, AnalysesTypes DEF Effects
<1>4. CASE call \in Cases
  <2>1. e = [flags |-> [c \in DOMAIN flags[m] |-> c = call \/ flags[m][c]], rows |-> rows[m]]
    BY <1>4, CaseEffect
  <2>2. e.flags \in [DOMAIN flags[m] -> BOOLEAN] /\ e.rows = rows[m]
    BY <2>1
  <2> QED
    BY <1>0, <2>2, AreFlags
<1> QED
  BY <1>1, <1>2, <1>3, <1>4 DEF Calls

\* What any call, whether answered or late, leaves alone.
LEMMA BecomesTypes ==
  ASSUME TypeOK, NEW call \in Calls, NEW e \in Effects(call, active), Becomes(active, e)
  PROVE  flags' \in [Models -> Flags] /\ rows' \in [Models -> [Cases -> Rows]]
<1>1. e.flags \in Flags /\ e.rows \in [Cases -> Rows]
  BY EffectsTypes DEF TypeOK
<1> QED
  BY <1>1 DEF Becomes, TypeOK

LEMMA ReadTypes ==
  ASSUME TypeOK, NEW answer, ReadCall(answer)
  PROVE  /\ active' \in Models
         /\ flags' \in [Models -> Flags]
         /\ rows' \in [Models -> [Cases -> Rows]]
         /\ state' \in [Models -> ModelStates]
         /\ gateway' \in {"serving", "failed"}
         /\ late' \subseteq Calls
  BY DEF TypeOK, ReadCall, After

LEMMA ChangeTypes ==
  ASSUME TypeOK, NEW answer, NEW call \in Calls, ChangeCall(answer, call)
  PROVE  /\ active' \in Models
         /\ flags' \in [Models -> Flags]
         /\ rows' \in [Models -> [Cases -> Rows]]
         /\ state' \in [Models -> ModelStates]
         /\ gateway' \in {"serving", "failed"}
         /\ late' \subseteq Calls
<1>1. flags' \in [Models -> Flags] /\ rows' \in [Models -> [Cases -> Rows]]
  BY BecomesTypes DEF ChangeCall, TypeOK
<1> QED
  BY <1>1 DEF TypeOK, ChangeCall, After

--------------------------------------------------------------------------------
(* The analysis, one part of its invariant after the other.                *)

\* Steps that only read ETABS, or nothing of it.
Looks ==
  \/ Bind \/ SourcePre \/ Revalidate \/ Snapshot \/ Universe \/ Resolve \/ Verify \/ Cleared
  \/ Post \/ QualifyRecreation \/ Readiness \/ Populations
  \/ RestoreBegin \/ RestoreRead \/ RestoreVerify
  \/ FinalBind \/ FinalSource \/ Issue \/ Disqualify

\* Steps that call a setter, the deletion or the run.
Acts == AllOff \/ Enable \/ DeleteResults \/ RunAnalysis \/ RestoreOff \/ RestoreOn

LEMMA Kinds == Next => Looks \/ Acts \/ LateCall \/ OperatorMoves
  BY DEF Next, Looks, Acts

\* Reading leaves ETABS as it is, though the session may fail.
LEMMA LooksFrame ==
  ASSUME Looks
  PROVE  /\ UNCHANGED <<active, flags, rows, state, late, outside>>
         /\ gateway' \in {gateway, "failed"}
<1> USE DEF ReadCall, After
<1>1. CASE Bind \/ SourcePre \/ Snapshot \/ Universe \/ Resolve \/ Verify \/ Cleared
  BY <1>1 DEF Bind, SourcePre, Snapshot, Universe, Resolve, Verify, Cleared, etabs, outside
<1>2. CASE Revalidate
  BY <1>2 DEF Revalidate, Revalidates, etabs, outside
<1>3. CASE Post \/ QualifyRecreation \/ Readiness \/ Populations
  BY <1>3 DEF Post, QualifyRecreation, Readiness, Populations, etabs, outside
<1>4. CASE RestoreBegin \/ RestoreRead \/ RestoreVerify
  BY <1>4 DEF RestoreBegin, RestoreRead, RestoreVerify, etabs, outside
<1>5. CASE FinalBind \/ FinalSource \/ Issue \/ Disqualify
  BY <1>5 DEF FinalBind, FinalSource, Issue, Disqualify, etabs, outside
<1> QED
  BY <1>1, <1>2, <1>3, <1>4, <1>5 DEF Looks

\* What a call that changes a model is for.
Call(call) ==
  \/ step = "all_off" /\ call = "off"
  \/ step = "enable" /\ call \in Cases
  \/ step = "delete" /\ call = "delete"
  \/ step = "run" /\ call = "run"
  \/ step = "restore_off" /\ call = "off"
  \/ step = "restore_on" /\ call \in Cases

\* Any other step acts on the active model by one call.
LEMMA ActsFrame ==
  ASSUME TypeOK, Acts
  PROVE  /\ \E call \in Calls, answer \in Answer : Call(call) /\ ChangeCall(answer, call)
         /\ UNCHANGED <<active, state, outside>>
         /\ gateway' \in {gateway, "failed"}
<1>0. /\ {"off", "delete", "run"} \subseteq Calls /\ Cases \subseteq Calls
      /\ enabled \subseteq Cases /\ undone \subseteq Cases /\ Execution \subseteq Cases
  BY FlagsAre, AnalysisExecutionAssumption DEF Calls, TypeOK, Execution, Dependencies
<1>1. \E call \in Calls, answer \in Answer : Call(call) /\ ChangeCall(answer, call)
  BY <1>0 DEF Acts, AllOff, Enable, DeleteResults, RunAnalysis, RestoreOff, RestoreOn, Call
<1>2. UNCHANGED outside
  BY DEF Acts, AllOff, Enable, DeleteResults, RunAnalysis, RestoreOff, RestoreOn
<1> QED
  BY <1>1, <1>2 DEF ChangeCall, After, outside

\* Where a step can lead, and what it does to the plan and the verdict on the way.
ExitTypes ==
  /\ step' \in Steps
  /\ plan'.why \in {"none", "error", "qualify"} /\ plan'.retired \subseteq Cases
  /\ plan'.exact \in BOOLEAN /\ plan'.recreated \in Flags
  /\ goal' \in Flags
  /\ undone' \subseteq DOMAIN goal'
  /\ result' \in {"none", "issued", "error"}
  /\ status' \in Status

LEMMA RetirementsAreCases == TypeOK => Retirements \subseteq Cases
  BY AnalysisExecutionAssumption DEF Retirements

LEMMA ExitsTyped ==
  ASSUME TypeOK
  PROVE  /\ \A s \in Steps : Goto(s) => ExitTypes
         /\ \A s \in Status : Fail(s) => ExitTypes
         /\ Refuse \/ Recover \/ RecoverBlindly \/ RestoreToQualify => ExitTypes
         /\ \A R : RecoverWith(Retirements, R) /\ R \in {NoFlags, removed} => ExitTypes
<1> USE DEF ExitTypes, TypeOK, Steps, Status
<1>1. ASSUME NEW s \in Steps, Goto(s)
      PROVE  ExitTypes
  BY <1>1 DEF Goto, restoration
<1>2. ASSUME NEW s \in Status, Fail(s)
      PROVE  ExitTypes
  BY <1>2 DEF Fail, restoration
<1>3. ASSUME NEW S \in SUBSET Cases, NEW R \in Flags, RecoverWith(S, R)
      PROVE  ExitTypes
  BY <1>3 DEF RecoverWith
<1>4. Retirements \in SUBSET Cases /\ {} \in SUBSET Cases /\ NoFlags \in Flags
      /\ removed \in Flags /\ recreation \in Flags
  BY RetirementsAreCases, NoFlagsAreFlags
<1>5. RestoreToQualify => ExitTypes
  BY <1>4 DEF RestoreToQualify
<1>6. Refuse => ExitTypes
  BY <1>2 DEF Refuse
<1> QED
  BY <1>1, <1>2, <1>3, <1>4, <1>5, <1>6 DEF Recover, RecoverBlindly

\* The same of whole steps.
LEMMA ExitStep ==
  ASSUME TypeOK, Looks \/ Acts
  PROVE  ExitTypes
<1> DEFINE S == Steps
<1>0. /\ Steps = S
      /\ {"source_pre", "state1_bind", "state1_read", "snapshot", "universe", "resolve", "all_off",
          "enable", "verify", "delete", "cleared", "state2_bind", "state2_read", "run", "post",
          "recreation", "readiness", "populations", "state3_bind", "state3_read", "restore",
          "restore_read", "restore_off", "restore_on", "restore_verify", "final_bind",
          "final_source", "qualify", "done"} \subseteq S
      /\ {"NOT_REQUIRED", "unreported", "BLOCKED_UNSAFE", "FAILED"} \subseteq Status
      /\ status \in Status /\ StatusOfRestored \in Status
  BY DEF Steps, Status, TypeOK, StatusOfRestored
<1> HIDE DEF S
<1>1. CASE Bind \/ SourcePre \/ Snapshot \/ Universe \/ Resolve
  BY <1>0, <1>1, ExitsTyped DEF Bind, SourcePre, Snapshot, Universe, Resolve
<1>2. CASE Revalidate
  BY <1>0, <1>2, ExitsTyped DEF Revalidate, Revalidates
<1>3. CASE Verify \/ Cleared \/ Readiness \/ Populations \/ Post
  BY <1>0, <1>3, ExitsTyped DEF Verify, Cleared, Readiness, Populations, Post
<1>4. CASE QualifyRecreation
  BY <1>0, <1>4, ExitsTyped DEF QualifyRecreation
<1>5. CASE AllOff \/ Enable \/ DeleteResults \/ RunAnalysis
  BY <1>0, <1>5, ExitsTyped DEF AllOff, Enable, DeleteResults, RunAnalysis
<1>6. CASE RestoreBegin \/ RestoreOff \/ FinalBind \/ FinalSource \/ Disqualify
  BY <1>0, <1>6, ExitsTyped DEF RestoreBegin, RestoreOff, FinalBind, FinalSource, Disqualify
<1>7. CASE RestoreRead
  <2>1. CASE Fail("FAILED")
    BY <1>0, <2>1, ExitsTyped
  <2>2. CASE /\ goal' = Override([c \in DOMAIN snapshot \cap DOMAIN flags[active] |-> snapshot[c]],
                                 plan.recreated)
             /\ undone' = {c \in DOMAIN goal' : goal'[c]}
             /\ step' = "restore_off"
             /\ UNCHANGED <<plan, result, status>>
    <3>1. snapshot \in Flags /\ plan.recreated \in Flags
      BY DEF TypeOK
    <3> DEFINE D == (DOMAIN snapshot \cap DOMAIN flags[active]) \cup DOMAIN plan.recreated
    <3>2. D \in SUBSET Cases
      BY <3>1, FlagsAre
    <3>3. goal' \in [D -> BOOLEAN]
      BY <2>2, <3>1, FlagsAre DEF Override
    <3>4. goal' \in Flags
      BY <3>2, <3>3, AreFlags
    <3> QED
      BY <1>0, <2>2, <3>4 DEF ExitTypes, TypeOK
  <2> QED
    BY <1>7, <2>1, <2>2 DEF RestoreRead
<1>8. CASE RestoreOn
  BY <1>0, <1>8, ExitsTyped DEF RestoreOn, ExitTypes, TypeOK
<1>9. CASE RestoreVerify
  BY <1>0, <1>9, ExitsTyped DEF RestoreVerify, ExitTypes, TypeOK, restoration
<1>10. CASE Issue
  BY <1>0, <1>10 DEF Issue, ExitTypes, TypeOK, restoration
<1> QED
  BY <1>1, <1>2, <1>3, <1>4, <1>5, <1>6, <1>7, <1>8, <1>9, <1>10 DEF Looks, Acts

\* What is found out on the way has its type, and the scope stays what it is once
\* its cases are being enabled.
LEMMA FactTypes ==
  ASSUME TypeOK, ResultInv, Looks \/ Acts
  PROVE  /\ snapshot' \in Flags
         /\ enabled' \subseteq Execution'
         /\ post' \subseteq Cases
         /\ recreation' \in {NoFlags, removed}
         /\ used' \in [Cases -> Rows]
<1> USE DEF TypeOK
<1>0. /\ snapshot \in Flags /\ enabled \subseteq Execution /\ post \subseteq Cases
      /\ recreation \in {NoFlags, removed} /\ used \in [Cases -> Rows]
      /\ requested' = requested
  BY LooksFrame, ActsFrame DEF outside
<1>s. snapshot' = snapshot => Execution' = Execution
  BY <1>0 DEF Execution, Dependencies, SpectraRequested
<1>1. CASE UNCHANGED facts
  BY <1>0, <1>1, <1>s DEF facts
<1>2. CASE Snapshot
  <2>1. enabled = {}
    BY <1>2 DEF Snapshot, ResultInv
  <2> QED
    BY <1>0, <1>2, <2>1, <1>s DEF Snapshot
<1>3. CASE Enable
  BY <1>0, <1>3, <1>s DEF Enable
<1>4. CASE Post
  <2>1. Finished(active) \subseteq Cases
    BY FlagsAre DEF Finished
  <2> QED
    BY <1>0, <1>4, <1>s, <2>1 DEF Post
<1>5. CASE QualifyRecreation
  BY <1>0, <1>5, <1>s DEF QualifyRecreation
<1>6. CASE Populations
  <2>1. used' = used \/ used' = [c \in Cases |-> IF c \in requested THEN rows[active][c] ELSE "none"]
    BY <1>6 DEF Populations, RecoverBlindly, RecoverWith
  <2>2. used' \in [Cases -> Rows]
    BY <1>0, <2>1 DEF Rows
  <2> QED
    BY <1>0, <1>6, <1>s, <2>2 DEF Populations
<1>7. CASE Bind \/ SourcePre \/ Revalidate \/ Universe \/ Resolve \/ Verify \/ Cleared \/ Readiness
  BY <1>1, <1>7 DEF Bind, SourcePre, Revalidate, Universe, Resolve, Verify, Cleared, Readiness
<1>8. CASE RestoreBegin \/ RestoreRead \/ RestoreOff \/ RestoreOn \/ RestoreVerify
  BY <1>1, <1>8 DEF RestoreBegin, RestoreRead, RestoreOff, RestoreOn, RestoreVerify
<1>9. CASE \/ FinalBind \/ FinalSource \/ Issue \/ Disqualify \/ AllOff \/ DeleteResults
           \/ RunAnalysis
  BY <1>1, <1>9 DEF FinalBind, FinalSource, Issue, Disqualify, AllOff, DeleteResults, RunAnalysis
<1> QED
  BY <1>2, <1>3, <1>4, <1>5, <1>6, <1>7, <1>8, <1>9 DEF Looks, Acts

LEMMA TypesStep ==
  ASSUME TypeOK, ResultInv, Next
  PROVE  TypeOK'
<1>1. CASE Looks
  BY <1>1, LooksFrame, ExitStep, FactTypes DEF TypeOK, outside, ExitTypes
<1>2. CASE Acts
  <2>1. /\ active' \in Models /\ flags' \in [Models -> Flags]
        /\ rows' \in [Models -> [Cases -> Rows]] /\ state' \in [Models -> ModelStates]
        /\ gateway' \in {"serving", "failed"} /\ late' \subseteq Calls
    BY <1>2, ActsFrame, ChangeTypes
  <2> QED
    BY <1>2, <2>1, ActsFrame, ExitStep, FactTypes DEF TypeOK, outside, ExitTypes
<1>3. CASE LateCall
  <2>1. flags' \in [Models -> Flags] /\ rows' \in [Models -> [Cases -> Rows]]
    BY <1>3, BecomesTypes DEF LateCall, TypeOK
  <2>2. UNCHANGED <<outside, step, facts, restoration, result, status>>
    BY <1>3 DEF LateCall
  <2>3. Execution' = Execution
    BY <2>2 DEF Execution, Dependencies, SpectraRequested, outside, facts
  <2> QED
    BY <1>3, <2>1, <2>2, <2>3 DEF LateCall, TypeOK, outside, facts, restoration
<1>4. CASE OperatorMoves
  <2>1. flags' \in [Models -> Flags] /\ rows' \in [Models -> [Cases -> Rows]]
    <3>1. ASSUME NEW e \in Analyses(active), Becomes(active, e)
          PROVE  flags' \in [Models -> Flags] /\ rows' \in [Models -> [Cases -> Rows]]
      <4>1. e.flags \in Flags /\ e.rows \in [Cases -> Rows]
        BY AnalysesTypes DEF TypeOK
      <4> QED
        BY <3>1, <4>1 DEF Becomes, TypeOK
    <3> QED
      BY <1>4, <3>1 DEF OperatorMoves, TypeOK
  <2>2. /\ active' \in Models /\ state' \in [Models -> ModelStates] /\ source' \in Contents
        /\ moves' \in 0 .. MaxMoves
    BY <1>4, AnalysisExecutionAssumption DEF OperatorMoves, TypeOK
  <2>3. UNCHANGED <<gateway, late, baseline, requested, found, removed, step, facts, restoration,
                    result, status>>
    BY <1>4 DEF OperatorMoves
  <2>4. Execution' = Execution
    BY <2>3 DEF Execution, Dependencies, SpectraRequested, facts
  <2> QED
    BY <2>1, <2>2, <2>3, <2>4 DEF TypeOK, facts, restoration
<1> QED
  BY <1>1, <1>2, <1>3, <1>4, Kinds

LEMMA LateStep ==
  ASSUME LateInv, Next
  PROVE  LateInv'
<1> USE DEF LateInv
<1>1. CASE Looks
  <2>1. CASE late = {}
    BY <1>1, <2>1, LooksFrame
  <2>2. CASE late # {}
    <3>1. step = "restore" /\ gateway = "failed"
      BY <1>1, <2>2 DEF Looks, Bind, SourcePre, Snapshot, Universe, Resolve, Verify, Cleared,
           Revalidate, Revalidates, Post, QualifyRecreation, Readiness, Populations,
           RestoreBegin, RestoreRead, RestoreVerify, FinalBind, FinalSource, Issue, Disqualify
    <3>2. RestoreBegin
      BY <1>1, <3>1 DEF Looks, Bind, SourcePre, Snapshot, Universe, Resolve, Verify, Cleared,
           Revalidate, Revalidates, Post, QualifyRecreation, Readiness, Populations,
           RestoreRead, RestoreVerify, FinalBind, FinalSource, Issue, Disqualify
    <3>3. Fail("BLOCKED_UNSAFE")
      BY <3>1, <3>2 DEF RestoreBegin, Answer
    <3> QED
      BY <1>1, <3>1, <3>3, LooksFrame DEF Fail
  <2> QED
    BY <2>1, <2>2
<1>2. CASE Acts
  <2>1. late = {}
    BY <1>2 DEF Acts, AllOff, Enable, DeleteResults, RunAnalysis, RestoreOff, RestoreOn
  <2>2. CASE late' = {}
    BY <2>2
  <2>3. CASE late' # {}
    <3>1. CASE AllOff
      BY <2>1, <2>3, <3>1 DEF AllOff, ChangeCall, After, Recover, RecoverWith, Fail, Goto
    <3>2. CASE Enable
      BY <2>1, <2>3, <3>2 DEF Enable, ChangeCall, After, Recover, RecoverWith
    <3>3. CASE DeleteResults \/ RunAnalysis
      BY <2>1, <2>3, <3>3 DEF DeleteResults, RunAnalysis, ChangeCall, After, Recover, RecoverWith
    <3>4. CASE RestoreOff \/ RestoreOn
      BY <2>1, <2>3, <3>4 DEF RestoreOff, RestoreOn, ChangeCall, After, Fail
    <3> QED
      BY <1>2, <3>1, <3>2, <3>3, <3>4 DEF Acts
  <2> QED
    BY <2>2, <2>3
<1>3. CASE LateCall
  BY <1>3 DEF LateCall, restoration
<1>4. CASE OperatorMoves
  BY <1>4 DEF OperatorMoves, restoration
<1> QED
  BY <1>1, <1>2, <1>3, <1>4, Kinds

\* Late calls and the operator do not act for the execution.
LEMMA AroundFrame ==
  ASSUME LateCall \/ OperatorMoves
  PROVE  UNCHANGED <<step, facts, restoration, result, status, baseline, requested, found, removed>>
  BY DEF LateCall, OperatorMoves, outside

LEMMA ResultStep ==
  ASSUME ResultInv, Next
  PROVE  ResultInv'
<1> USE DEF ResultInv, Final
<1>0. /\ {"NOT_REQUIRED", "unreported", "BLOCKED_UNSAFE", "FAILED"} \cap {"none"} = {}
      /\ "none" \notin Restored /\ StatusOfRestored \in Restored
  BY DEF Restored, StatusOfRestored
<1> USE DEF Goto, Fail, Recover, RecoverBlindly, RecoverWith, RestoreToQualify, Refuse
<1>1. CASE Bind \/ SourcePre \/ Universe \/ Resolve \/ Snapshot
  BY <1>0, <1>1 DEF Bind, SourcePre, Universe, Resolve, Snapshot, facts
<1>2. CASE Revalidate
  BY <1>0, <1>2 DEF Revalidate, Revalidates, facts
<1>3. CASE Verify \/ Cleared \/ Readiness
  BY <1>0, <1>3 DEF Verify, Cleared, Readiness, facts
<1>4. CASE Populations \/ Post \/ QualifyRecreation
  BY <1>0, <1>4 DEF Populations, Post, QualifyRecreation, facts
<1>5. CASE AllOff \/ Enable \/ DeleteResults \/ RunAnalysis
  BY <1>0, <1>5 DEF AllOff, Enable, DeleteResults, RunAnalysis, facts
<1>6. CASE RestoreBegin \/ RestoreRead \/ RestoreOff \/ RestoreOn \/ RestoreVerify
  BY <1>0, <1>6 DEF RestoreBegin, RestoreRead, RestoreOff, RestoreOn, RestoreVerify, facts
<1>7. CASE FinalBind \/ FinalSource \/ Issue \/ Disqualify
  BY <1>0, <1>7 DEF FinalBind, FinalSource, Issue, Disqualify, facts
<1>8. CASE LateCall \/ OperatorMoves
  BY <1>8, AroundFrame DEF facts
<1> QED
  BY <1>1, <1>2, <1>3, <1>4, <1>5, <1>6, <1>7, <1>8 DEF Next

\* The arguments of a restoration are the snapshot's and the unlock's.
LEMMA PlanStep ==
  ASSUME TypeOK, PlanInv, Next
  PROVE  PlanInv'
<1> USE DEF PlanInv, Restoring
<1>r. recreation \in {NoFlags, removed}
  BY DEF TypeOK
<1>0. removed' = removed /\ requested' = requested
  BY Kinds, LooksFrame, ActsFrame, AroundFrame DEF outside
<1>s. snapshot' = snapshot => Retirements' = Retirements
  BY <1>0 DEF Retirements, SpectraRequested
<1> USE DEF Goto, Fail, Recover, RecoverBlindly, RecoverWith, RestoreToQualify, Refuse
<1>1. CASE Bind \/ SourcePre \/ Universe \/ Resolve \/ Snapshot
  BY <1>1 DEF Bind, SourcePre, Universe, Resolve, Snapshot, facts
<1>2. CASE Revalidate
  BY <1>r, <1>0, <1>s, <1>2 DEF Revalidate, Revalidates, facts
<1>3. CASE Verify \/ Cleared \/ Readiness
  BY <1>r, <1>0, <1>s, <1>3 DEF Verify, Cleared, Readiness, facts
<1>4. CASE Populations \/ Post \/ QualifyRecreation
  BY <1>r, <1>0, <1>s, <1>4 DEF Populations, Post, QualifyRecreation, facts
<1>5. CASE AllOff \/ Enable \/ DeleteResults \/ RunAnalysis
  BY <1>r, <1>0, <1>s, <1>5 DEF AllOff, Enable, DeleteResults, RunAnalysis, facts
<1>6. CASE RestoreBegin \/ RestoreRead \/ RestoreOff \/ RestoreOn \/ RestoreVerify
  BY <1>0, <1>s, <1>6 DEF RestoreBegin, RestoreRead, RestoreOff, RestoreOn, RestoreVerify, facts,
       restoration
<1>7. CASE FinalBind \/ FinalSource \/ Issue \/ Disqualify
  BY <1>7 DEF FinalBind, FinalSource, Issue, Disqualify, facts
<1>8. CASE LateCall \/ OperatorMoves
  BY <1>0, <1>s, <1>8, AroundFrame DEF facts, restoration
<1> QED
  BY <1>1, <1>2, <1>3, <1>4, <1>5, <1>6, <1>7, <1>8 DEF Next

LEMMA GoalStep ==
  ASSUME TypeOK, PlanInv, GoalInv, Next
  PROVE  GoalInv'
<1> USE DEF GoalInv
<1>1. CASE RestoreRead
  <2>1. CASE Restorable /\ goal' = Override([c \in DOMAIN snapshot \cap DOMAIN flags[active] |-> snapshot[c]],
                                            plan.recreated)
    <3>1. UNCHANGED <<plan, snapshot>> \/ step' = "done"
      BY <1>1 DEF RestoreRead, Fail, facts
    <3>2. /\ DOMAIN goal' = (DOMAIN snapshot \cap DOMAIN flags[active]) \cup DOMAIN plan.recreated
          /\ \A c \in DOMAIN goal' :
               goal'[c] = IF c \in DOMAIN plan.recreated THEN plan.recreated[c] ELSE snapshot[c]
      BY <2>1 DEF Override
    <3>3. /\ DOMAIN flags[active] \ DOMAIN snapshot = DOMAIN plan.recreated
          /\ DOMAIN snapshot \ DOMAIN flags[active] \subseteq plan.retired
      BY <2>1 DEF Restorable
    <3> QED
      BY <3>1, <3>2, <3>3
  <2>2. CASE Fail("FAILED")
    BY <2>2 DEF Fail
  <2> QED
    BY <1>1, <2>1, <2>2 DEF RestoreRead
<1>2. CASE RestoreOff \/ RestoreOn \/ RestoreVerify
  BY <1>2 DEF RestoreOff, RestoreOn, RestoreVerify, Goto, Fail, facts, restoration
<1>3. CASE LateCall \/ OperatorMoves
  BY <1>3, AroundFrame DEF facts, restoration
<1> USE DEF Goto, Fail, Recover, RecoverBlindly, RecoverWith, RestoreToQualify, Refuse
<1>4. CASE Bind \/ SourcePre \/ Universe \/ Resolve \/ Snapshot \/ RestoreBegin
  BY <1>4 DEF Bind, SourcePre, Universe, Resolve, Snapshot, RestoreBegin
<1>5. CASE Revalidate
  BY <1>5 DEF Revalidate, Revalidates
<1>6. CASE Verify \/ Cleared \/ Readiness \/ Populations \/ Post \/ QualifyRecreation
  BY <1>6 DEF Verify, Cleared, Readiness, Populations, Post, QualifyRecreation
<1>7. CASE AllOff \/ Enable \/ DeleteResults \/ RunAnalysis
  BY <1>7 DEF AllOff, Enable, DeleteResults, RunAnalysis
<1>8. CASE FinalBind \/ FinalSource \/ Issue \/ Disqualify
  BY <1>8 DEF FinalBind, FinalSource, Issue, Disqualify
<1> QED
  BY <1>1, <1>2, <1>3, <1>4, <1>5, <1>6, <1>7, <1>8 DEF Next

LEMMA ScopeStep ==
  ASSUME ScopeInv, Next
  PROVE  ScopeInv'
<1> USE DEF ScopeInv, Resolved
<1>1. CASE Resolve
  BY <1>1 DEF Resolve, ScopeResolves, Goto, Refuse, Fail, outside, facts
<1>2. CASE LateCall \/ OperatorMoves
  BY <1>2, AroundFrame DEF facts
<1> USE DEF Goto, Fail, Recover, RecoverBlindly, RecoverWith, RestoreToQualify, Refuse
<1>3. CASE Bind \/ SourcePre \/ Universe \/ Snapshot
  BY <1>3 DEF Bind, SourcePre, Universe, Snapshot
<1>4. CASE Revalidate
  BY <1>4 DEF Revalidate, Revalidates, outside, facts
<1>5. CASE Verify \/ Cleared \/ Readiness \/ Populations \/ Post \/ QualifyRecreation
  BY <1>5 DEF Verify, Cleared, Readiness, Populations, Post, QualifyRecreation, outside, facts
<1>6. CASE AllOff \/ Enable \/ DeleteResults \/ RunAnalysis
  BY <1>6 DEF AllOff, Enable, DeleteResults, RunAnalysis, outside, facts
<1>7. CASE RestoreBegin \/ RestoreRead \/ RestoreOff \/ RestoreOn \/ RestoreVerify
  BY <1>7 DEF RestoreBegin, RestoreRead, RestoreOff, RestoreOn, RestoreVerify
<1>8. CASE FinalBind \/ FinalSource \/ Issue \/ Disqualify
  BY <1>8 DEF FinalBind, FinalSource, Issue, Disqualify
<1> QED
  BY <1>1, <1>2, <1>3, <1>4, <1>5, <1>6, <1>7, <1>8 DEF Next

--------------------------------------------------------------------------------
(* If nobody interferes.                                                   *)

\* A setter keeps the cases of the model and their rows; the one for all cases
\* sets none that was not set.
LEMMA SetterBecomes ==
  ASSUME TypeOK, NEW call \in Cases \cup {"off"}, NEW m \in Models,
         NEW e \in Effects(call, m), Becomes(m, e)
  PROVE  /\ rows' = rows
         /\ DOMAIN flags'[m] = DOMAIN flags[m]
         /\ call = "off" => \A c \in DOMAIN flags[m] : flags'[m][c] => flags[m][c]
         /\ \A n \in Models \ {m} : flags'[n] = flags[n]
<1>0. /\ flags \in [Models -> Flags] /\ rows \in [Models -> [Cases -> Rows]]
      /\ flags' = [flags EXCEPT ![m] = e.flags] /\ rows' = [rows EXCEPT ![m] = e.rows]
  BY DEF TypeOK, Becomes
<1>1. CASE call = "off"
  <2>1. PICK kept : e = [flags |-> [c \in DOMAIN flags[m] |-> c \in kept /\ flags[m][c]],
                         rows |-> rows[m]]
    BY <1>1, OffEffect
  <2>2. /\ e.rows = rows[m] /\ DOMAIN e.flags = DOMAIN flags[m]
        /\ \A c \in DOMAIN flags[m] : e.flags[c] => flags[m][c]
    BY <2>1
  <2> QED
    BY <1>0, <2>2
<1>2. CASE call \in Cases
  <2>1. e = [flags |-> [c \in DOMAIN flags[m] |-> c = call \/ flags[m][c]], rows |-> rows[m]]
    BY <1>2, CaseEffect
  <2>2. e.rows = rows[m] /\ DOMAIN e.flags = DOMAIN flags[m] /\ call # "off"
    BY <1>2, <2>1, AnalysisExecutionAssumption
  <2> QED
    BY <1>0, <2>2
<1> QED
  BY <1>1, <1>2

LEMMA DeleteBecomes ==
  ASSUME TypeOK, NEW m \in Models, NEW e \in Effects("delete", m), Becomes(m, e)
  PROVE  /\ flags' = flags
         /\ \A c \in Cases : rows'[m][c] \in {rows[m][c], "none"}
         /\ \A n \in Models \ {m} : rows'[n] = rows[n]
<1>0. /\ flags \in [Models -> Flags] /\ rows \in [Models -> [Cases -> Rows]]
      /\ flags' = [flags EXCEPT ![m] = e.flags] /\ rows' = [rows EXCEPT ![m] = e.rows]
  BY DEF TypeOK, Becomes
<1>1. PICK kept : e = [flags |-> flags[m],
                       rows |-> [c \in Cases |-> IF c \in kept THEN rows[m][c] ELSE "none"]]
  BY DeleteEffect
<1>2. e.flags = flags[m] /\ \A c \in Cases : e.rows[c] \in {rows[m][c], "none"}
  BY <1>1
<1> QED
  BY <1>0, <1>2

\* An analysis computes the rows of the model's state, of cases of the model.
LEMMA RunBecomes ==
  ASSUME TypeOK, NEW m \in Models, NEW e \in Analyses(m), Becomes(m, e)
  PROVE  /\ \A c \in Cases :
              /\ rows'[m][c] \in {"none", state[m], rows[m][c]}
              /\ rows'[m][c] \in {"none", rows[m][c]}
                   \/ c \in DOMAIN flags'[m] \cup DOMAIN removed
         /\ \A n \in Models \ {m} : rows'[n] = rows[n] /\ flags'[n] = flags[n]
<1>0. /\ flags \in [Models -> Flags] /\ rows \in [Models -> [Cases -> Rows]]
      /\ flags' = [flags EXCEPT ![m] = e.flags] /\ rows' = [rows EXCEPT ![m] = e.rows]
  BY DEF TypeOK, Becomes
<1>1. PICK lost, new, done :
           /\ lost \subseteq (Managed \cap DOMAIN flags[m]) \ Run(m)
           /\ new \in {{}, Back(m)}
           /\ done \subseteq DOMAIN flags[m] \cup Back(m)
           /\ e = Analysed(m, lost, new, done)
  BY RunEffect
<1>2. /\ DOMAIN e.flags = (DOMAIN flags[m] \ lost) \cup new
      /\ \A c \in Cases : e.rows[c] = IF c \in lost THEN "none"
                                      ELSE IF c \in done THEN state[m] ELSE rows[m][c]
  BY <1>1 DEF Analysed
<1>3. Back(m) \subseteq DOMAIN removed
  BY DEF Back
<1> QED
  BY <1>0, <1>1, <1>2, <1>3

\* The scratch stays open and established, and the other model as it was.
LEMMA ElsewhereStep ==
  ASSUME TypeOK, moves = 0, ElsewhereInv, Next, moves' = 0
  PROVE  ElsewhereInv'
<1>1. CASE Looks
  BY <1>1, LooksFrame DEF ElsewhereInv
<1>2. ASSUME NEW call \in Calls, NEW e \in Effects(call, active), Becomes(active, e)
      PROVE  flags'["other"] = flags["other"] /\ rows'["other"] = rows["other"]
  <2>1. active \in Models /\ "other" \in Models \ {active}
    BY DEF ElsewhereInv, Models
  <2>2. CASE call \in Cases \cup {"off"}
    BY <1>2, <2>1, <2>2, SetterBecomes
  <2>3. CASE call = "delete"
    BY <1>2, <2>1, <2>3, DeleteBecomes
  <2>4. CASE call = "run"
    BY <1>2, <2>1, <2>4, RunBecomes DEF Effects
  <2> QED
    BY <2>2, <2>3, <2>4 DEF Calls
<1>3. CASE Acts
  BY <1>2, <1>3, ActsFrame DEF ChangeCall, ElsewhereInv
<1>4. CASE LateCall
  BY <1>2, <1>4 DEF LateCall, TypeOK, ElsewhereInv
<1>5. CASE OperatorMoves
  BY <1>5 DEF OperatorMoves
<1> QED
  BY <1>1, <1>3, <1>4, <1>5, Kinds

\* What a call that is answered makes of the scratch.
LEMMA SetterCalled ==
  ASSUME TypeOK, active = "scratch", NEW call \in Cases \cup {"off"}, NEW answer,
         ChangeCall(answer, call)
  PROVE  /\ rows' = rows
         /\ DOMAIN flags'["scratch"] = DOMAIN flags["scratch"]
         /\ call = "off" =>
              \A c \in DOMAIN flags["scratch"] : flags'["scratch"][c] => flags["scratch"][c]
  BY SetterBecomes DEF ChangeCall, TypeOK

LEMMA DeleteCalled ==
  ASSUME TypeOK, active = "scratch", NEW answer, ChangeCall(answer, "delete")
  PROVE  /\ flags' = flags
         /\ \A c \in Cases : rows'["scratch"][c] \in {rows["scratch"][c], "none"}
  BY DeleteBecomes DEF ChangeCall, TypeOK

LEMMA RunCalled ==
  ASSUME TypeOK, active = "scratch", NEW answer, ChangeCall(answer, "run")
  PROVE  \A c \in Cases :
           /\ rows'["scratch"][c] \in {"none", state["scratch"], rows["scratch"][c]}
           /\ rows'["scratch"][c] \in {"none", rows["scratch"][c]}
                \/ c \in DOMAIN flags'["scratch"] \cup DOMAIN removed
<1>1. ASSUME NEW e \in Effects("run", active), Becomes(active, e)
      PROVE  e \in Analyses(active)
  BY Zenon DEF Effects
<1> QED
  BY <1>1, RunBecomes DEF ChangeCall, TypeOK

\* The snapshot is of the flags as found, and what follows works on it.
LEMMA SnapshotIsFound ==
  ASSUME moves = 0, ElsewhereInv, ConfiguredInv, Next
  PROVE  step' \in {"universe", "resolve"} \cup Resolved \cup Restoring => snapshot' = found'
<1> USE DEF ConfiguredInv, Resolved, Restoring
<1>1. CASE Snapshot
  BY <1>1 DEF Snapshot, Early, ElsewhereInv, Goto, Refuse, Fail, outside
<1>2. CASE LateCall \/ OperatorMoves
  BY <1>2, AroundFrame DEF facts
<1> USE DEF Goto, Fail, Recover, RecoverBlindly, RecoverWith, RestoreToQualify, Refuse
<1>3. CASE Bind \/ SourcePre \/ Universe \/ Resolve
  BY <1>3 DEF Bind, SourcePre, Universe, Resolve, outside, facts
<1>4. CASE Revalidate
  BY <1>4 DEF Revalidate, Revalidates, outside, facts
<1>5. CASE Verify \/ Cleared \/ Readiness \/ Populations \/ Post \/ QualifyRecreation
  BY <1>5 DEF Verify, Cleared, Readiness, Populations, Post, QualifyRecreation, outside, facts
<1>6. CASE AllOff \/ Enable \/ DeleteResults \/ RunAnalysis
  BY <1>6 DEF AllOff, Enable, DeleteResults, RunAnalysis, outside, facts
<1>7. CASE RestoreBegin \/ RestoreRead \/ RestoreOff \/ RestoreOn \/ RestoreVerify
  BY <1>7 DEF RestoreBegin, RestoreRead, RestoreOff, RestoreOn, RestoreVerify, outside, facts
<1>8. CASE FinalBind \/ FinalSource \/ Issue \/ Disqualify
  BY <1>8 DEF FinalBind, FinalSource, Issue, Disqualify, outside, facts
<1> QED
  BY <1>1, <1>2, <1>3, <1>4, <1>5, <1>6, <1>7, <1>8 DEF Next

\* Up to the run, the flags are found, verified, and kept; the rows are deleted.
LEMMA ConfiguredStep ==
  ASSUME TypeOK, LateInv, ScopeInv, moves = 0, ElsewhereInv, ConfiguredInv, Next, moves' = 0
  PROVE  ConfiguredInv'
<1> DEFINE Running == {"enable", "verify", "delete", "cleared", "state2_bind", "state2_read", "run"}
           Set == {"delete", "cleared", "state2_bind", "state2_read", "run"}
           Clear == {"state2_bind", "state2_read", "run"}
<1>s. step' \in {"universe", "resolve"} \cup Resolved \cup Restoring => snapshot' = found'
  BY SnapshotIsFound
<1>0. /\ requested' = requested /\ found' = found
      /\ snapshot' = snapshot => Configured' = Configured
  BY Kinds, LooksFrame, ActsFrame, AroundFrame
     DEF outside, Configured, Execution, Dependencies, SpectraRequested
<1>e. ASSUME step' \notin Early \cup Running
      PROVE  ConfiguredInv'
  BY <1>e, <1>s DEF ConfiguredInv
<1> USE DEF Goto, Fail, Recover, RecoverBlindly, RecoverWith, RestoreToQualify, Refuse
<1>1. CASE Bind \/ SourcePre \/ Snapshot \/ Universe \/ Resolve
  <2>1. step \in Early /\ step' \in Early \cup {"done"}
    BY <1>1 DEF Bind, SourcePre, Snapshot, Universe, Resolve, Early
  <2>2. UNCHANGED <<flags, rows, found>>
    BY <1>1, LooksFrame DEF Looks, outside
  <2> QED
    BY <2>1, <2>2, <1>s, <1>e DEF ConfiguredInv, RowsBefore, Early
<1>2. CASE Revalidate
  <2>1. \/ step \in Early /\ step' \in Early \cup {"done"}
        \/ step \in Clear /\ step' \in Clear
        \/ step' \notin Early \cup Running
    BY <1>2 DEF Revalidate, Revalidates, Early
  <2>2. UNCHANGED <<flags, rows, found, snapshot>>
    BY <1>2, LooksFrame DEF Looks, outside, Revalidate, facts
  <2> QED
    BY <2>1, <2>2, <1>0, <1>s, <1>e DEF ConfiguredInv, RowsBefore, Early
<1>3. CASE AllOff
  <2>1. step = "all_off" /\ step' \in {"enable", "restore", "done"}
    BY <1>3 DEF AllOff
  <2>2. rows' = rows
    BY <1>3, SetterCalled DEF AllOff, ElsewhereInv
  <2>3. \A c \in Cases : rows["scratch"][c] # "none" => c \in DOMAIN found
    BY <2>1 DEF ConfiguredInv, Early, RowsBefore
  <2> QED
    BY <2>1, <2>2, <2>3, <1>0, <1>s DEF ConfiguredInv, Early
<1>4. CASE Enable
  <2>1. step = "enable" /\ step' \in {"enable", "verify", "restore"}
    BY <1>4 DEF Enable
  <2>2. rows' = rows
    <3>1. Execution \ enabled \subseteq Cases
      BY FlagsAre, AnalysisExecutionAssumption DEF TypeOK, Execution, Dependencies
    <3> QED
      BY <1>4, <3>1, SetterCalled DEF Enable, ElsewhereInv
  <2> QED
    BY <2>1, <2>2, <1>0, <1>s DEF ConfiguredInv, Early
<1>5. CASE Verify
  <2>1. step = "verify" /\ step' \in {"delete", "restore"} /\ snapshot' = snapshot
    BY <1>5 DEF Verify, facts
  <2>2. UNCHANGED <<flags, rows>>
    BY <1>5, LooksFrame DEF Looks
  <2>3. step' = "delete" => flags["scratch"] = Configured
    BY <1>5 DEF Verify, ElsewhereInv
  <2> QED
    BY <2>1, <2>2, <2>3, <1>0, <1>s DEF ConfiguredInv, Early
<1>6. CASE DeleteResults
  <2>1. step = "delete" /\ step' \in {"cleared", "restore"} /\ snapshot' = snapshot
    BY <1>6 DEF DeleteResults, facts
  <2>2. /\ flags' = flags
        /\ \A c \in Cases : rows'["scratch"][c] \in {rows["scratch"][c], "none"}
    BY <1>6, DeleteCalled DEF DeleteResults, ElsewhereInv
  <2> QED
    BY <2>1, <2>2, <1>0, <1>s DEF ConfiguredInv, Early
<1>7. CASE Cleared
  <2>1. step = "cleared" /\ step' \in {"state2_bind", "restore"} /\ snapshot' = snapshot
    BY <1>7 DEF Cleared, facts
  <2>2. UNCHANGED <<flags, rows>>
    BY <1>7, LooksFrame DEF Looks
  <2>3. step' = "state2_bind" => \A c \in DOMAIN snapshot : rows["scratch"][c] = "none"
    BY <1>7 DEF Cleared, ElsewhereInv
  <2>4. snapshot = found
    BY <2>1 DEF ConfiguredInv, Resolved
  <2> QED
    BY <2>1, <2>2, <2>3, <2>4, <1>0, <1>s DEF ConfiguredInv, Early
<1>8. CASE RunAnalysis \/ Post \/ QualifyRecreation \/ Readiness \/ Populations
  BY <1>8, <1>e DEF RunAnalysis, Post, QualifyRecreation, Readiness, Populations, Early
<1>9. CASE RestoreBegin \/ RestoreRead \/ RestoreOff \/ RestoreOn \/ RestoreVerify
  BY <1>9, <1>e DEF RestoreBegin, RestoreRead, RestoreOff, RestoreOn, RestoreVerify, Early
<1>10. CASE FinalBind \/ FinalSource \/ Issue \/ Disqualify
  BY <1>10, <1>e DEF FinalBind, FinalSource, Issue, Disqualify, Early
<1>11. CASE LateCall
  BY <1>11, <1>e DEF LateCall, LateInv, Early
<1>12. CASE OperatorMoves
  BY <1>12 DEF OperatorMoves
<1> QED
  BY <1>1, <1>2, <1>3, <1>4, <1>5, <1>6, <1>7, <1>8, <1>9, <1>10, <1>11, <1>12 DEF Next

\* What the steps of a restoration keep of the scratch.
LEMMA RestorationKeeps ==
  ASSUME TypeOK, active = "scratch",
         RestoreBegin \/ RestoreRead \/ RestoreOff \/ RestoreOn \/ RestoreVerify
  PROVE  /\ rows' = rows
         /\ DOMAIN flags'["scratch"] = DOMAIN flags["scratch"]
         /\ UNCHANGED <<plan, facts>>
         /\ step \in Restoring /\ step' \in Restoring \cup {"final_bind", "done"}
         /\ step' \in Restoring => result' = result
         /\ step' = "final_bind" => plan.why = "qualify"
         /\ step' = "done" => result' = "error"
<1>1. rows' = rows /\ DOMAIN flags'["scratch"] = DOMAIN flags["scratch"]
  <2>1. undone \subseteq Cases
    BY FlagsAre DEF TypeOK
  <2>2. CASE RestoreBegin \/ RestoreRead \/ RestoreVerify
    BY <2>2, LooksFrame DEF Looks
  <2>3. CASE RestoreOff \/ RestoreOn
    BY <2>1, <2>3, SetterCalled DEF RestoreOff, RestoreOn
  <2> QED
    BY <2>2, <2>3
<1>2. UNCHANGED <<plan, facts>>
  BY DEF RestoreBegin, RestoreRead, RestoreOff, RestoreOn, RestoreVerify, Goto, Fail, restoration
<1>3. /\ step \in Restoring /\ step' \in Restoring \cup {"final_bind", "done"}
      /\ step' \in Restoring => result' = result
      /\ step' = "final_bind" => plan.why = "qualify"
      /\ step' = "done" => result' = "error"
  BY DEF RestoreBegin, RestoreRead, RestoreOff, RestoreOn, RestoreVerify, Goto, Fail, restoration,
         Restoring
<1> QED
  BY <1>1, <1>2, <1>3

\* Steps that neither lead to the generation nor are in it.
LEMMA NotGenerated ==
  ASSUME ResultInv, step' \notin {"post", "recreation", "readiness", "populations", "state3_bind",
                       "state3_read"} \cup Final,
         step' \in Restoring => plan'.why = "error",
         result' # "issued"
  PROVE  GeneratedInv'
  BY DEF GeneratedInv, Generated

\* The same rows, cases and facts, at a place as far as before.
LEMMA StillGenerated ==
  ASSUME GeneratedInv, Generated,
         UNCHANGED <<rows, post, snapshot, requested, found, removed>>,
         DOMAIN flags'["scratch"] = DOMAIN flags["scratch"],
         step' # "post",
         step' = "recreation" => step = "recreation",
         step' # "recreation" /\ Generated' => step # "recreation",
         step' \notin {"recreation", "readiness"} /\ Generated'
           => step \notin {"recreation", "readiness"}
  PROVE  GeneratedInv'
<1>1. /\ Retirements' = Retirements /\ Execution' = Execution
      /\ Finished("scratch")' = Finished("scratch")
  BY DEF Retirements, Execution, Dependencies, SpectraRequested, Finished
<1> QED
  BY <1>1 DEF GeneratedInv

LEMMA GeneratedStep ==
  ASSUME TypeOK, LateInv, ResultInv, PlanInv, moves = 0, ElsewhereInv, ConfiguredInv, GeneratedInv,
         Next, moves' = 0
  PROVE  GeneratedInv'
<1>0. UNCHANGED <<requested, found, removed>>
  BY Kinds, LooksFrame, ActsFrame, AroundFrame DEF outside
<1>a. active = "scratch"
  BY DEF ElsewhereInv
<1> DEFINE Set == {"post", "recreation", "readiness", "populations", "state3_bind", "state3_read"}
                    \cup Final
<1>1. CASE \/ Bind \/ SourcePre \/ Snapshot \/ Universe \/ Resolve \/ AllOff \/ Enable \/ Verify
           \/ DeleteResults \/ Cleared
  <2>1. /\ step' \notin Set
        /\ step' \in Restoring => plan'.why = "error"
        /\ result' # "issued"
    <3> USE DEF Goto, Fail, Recover, RecoverBlindly, RecoverWith, Refuse, Final, Restoring, ResultInv
    <3>1. CASE Bind \/ SourcePre \/ Snapshot \/ Universe \/ Resolve
      BY <3>1 DEF Bind, SourcePre, Snapshot, Universe, Resolve
    <3>2. CASE AllOff \/ Enable \/ Verify \/ DeleteResults \/ Cleared
      BY <3>2 DEF AllOff, Enable, Verify, DeleteResults, Cleared
    <3> QED
      BY <1>1, <3>1, <3>2
  <2> QED
    BY <2>1, NotGenerated
<1>2. CASE Revalidate
  <2>1. \/ /\ step' \notin Set
           /\ step' \in Restoring => plan'.why = "error"
           /\ result' # "issued"
        \/ /\ step \in {"state3_bind", "state3_read"}
           /\ step' \in {"state3_read", "restore"}
    BY <1>2 DEF Revalidate, Revalidates, Goto, Fail, Recover, RecoverWith, RestoreToQualify,
                Final, Restoring, ResultInv
  <2>2. UNCHANGED <<flags, rows, facts>>
    BY <1>2, LooksFrame DEF Looks, Revalidate
  <2>3. CASE step \in {"state3_bind", "state3_read"} /\ step' \in {"state3_read", "restore"}
    BY <2>2, <2>3, <1>0, StillGenerated DEF Generated, facts
  <2> QED
    BY <2>1, <2>3, NotGenerated
<1>3. CASE RunAnalysis
  <2>1. /\ step = "run" /\ step' \in {"post", "restore"} /\ result' = result
        /\ step' = "restore" => plan'.why = "error"
    BY <1>3 DEF RunAnalysis, Goto, Recover, RecoverWith
  <2>2. CASE step' = "post"
    <3>1. state["scratch"] = "established" /\ \A c \in Cases : rows["scratch"][c] = "none"
      <4>1. state["scratch"] = "established"
        BY DEF ElsewhereInv, Models
      <4>2. \A c \in Cases : rows["scratch"][c] = "none"
        BY <2>1 DEF ConfiguredInv
      <4> QED
        BY <4>1, <4>2
    <3>2. \A c \in Cases :
            /\ rows'["scratch"][c] \in {"none", "established"}
            /\ rows'["scratch"][c] # "none" => c \in DOMAIN flags'["scratch"] \cup DOMAIN removed
      BY <1>3, <1>a, <3>1, RunCalled DEF RunAnalysis
    <3>3. ~Generated'
      <4>1. result = "none"
        BY <2>1 DEF ResultInv
      <4> QED
        BY <2>1, <2>2, <4>1 DEF Generated, Final, Restoring
    <3> QED
      BY <2>1, <2>2, <3>2, <3>3, <1>0 DEF GeneratedInv
  <2>3. CASE step' # "post"
    <3>1. result' = "none"
      BY <2>1 DEF ResultInv
    <3> QED
      BY <2>1, <2>3, <3>1, NotGenerated DEF Final
  <2> QED
    BY <2>2, <2>3
<1>4. CASE Post
  <2>1. step = "post" /\ UNCHANGED <<flags, rows, snapshot>>
    BY <1>4, LooksFrame DEF Looks, Post
  <2>2. CASE /\ DOMAIN snapshot \ DOMAIN flags[active] = Retirements
             /\ DOMAIN flags[active] \ DOMAIN snapshot = DOMAIN removed
             /\ post' = Finished(active)
             /\ Goto("recreation")
    <3>1. snapshot = found
      BY <2>1 DEF ConfiguredInv, Resolved
    <3>2. /\ Retirements' = Retirements /\ Finished("scratch")' = Finished("scratch")
          /\ Retirements \subseteq DOMAIN snapshot
          /\ step' = "recreation"
      BY <2>1, <2>2, <1>0 DEF Retirements, Execution, Dependencies, SpectraRequested, Finished, Goto
    <3>3. DOMAIN flags["scratch"] = (DOMAIN found \ Retirements) \cup DOMAIN removed
      BY <2>2, <3>1, <1>a
    <3> QED
      BY <2>1, <2>2, <3>2, <3>3, <1>a, <1>0 DEF GeneratedInv, Generated
  <2>3. CASE Recover
    BY <2>1, <2>3, NotGenerated DEF Recover, RecoverWith, ResultInv, Final
  <2> QED
    BY <1>4, <2>2, <2>3 DEF Post
<1>5. CASE QualifyRecreation
  <2>1. /\ step = "recreation" /\ UNCHANGED <<flags, rows, snapshot, post>>
        /\ Generated
    BY <1>5, LooksFrame DEF Looks, QualifyRecreation, Generated
  <2>2. CASE /\ DOMAIN removed \subseteq post
             /\ post \subseteq Execution \cup DOMAIN removed
             /\ Goto("readiness")
    <3>1. /\ Retirements' = Retirements /\ Execution' = Execution
          /\ Finished("scratch")' = Finished("scratch") /\ step' = "readiness"
      BY <2>1, <2>2, <1>0 DEF Retirements, Execution, Dependencies, SpectraRequested, Finished, Goto
    <3> QED
      BY <2>1, <2>2, <3>1, <1>0 DEF GeneratedInv
  <2>3. CASE Recover \/ RecoverWith(Retirements, removed)
    BY <2>1, <2>3, NotGenerated DEF Recover, RecoverWith, ResultInv, Final
  <2> QED
    BY <1>5, <2>2, <2>3 DEF QualifyRecreation
<1>6. CASE Readiness
  <2>1. /\ step = "readiness" /\ UNCHANGED <<flags, rows, snapshot, post>>
        /\ Generated
    BY <1>6, LooksFrame DEF Looks, Readiness, Generated, facts
  <2>2. CASE Execution \subseteq post /\ Goto("populations")
    <3>1. /\ Retirements' = Retirements /\ Execution' = Execution
          /\ Finished("scratch")' = Finished("scratch") /\ step' = "populations"
      BY <2>1, <2>2, <1>0 DEF Retirements, Execution, Dependencies, SpectraRequested, Finished, Goto
    <3> QED
      BY <2>1, <2>2, <3>1, <1>0 DEF GeneratedInv
  <2>3. CASE Recover \/ RecoverBlindly
    BY <2>1, <2>3, NotGenerated DEF Recover, RecoverBlindly, RecoverWith, ResultInv, Final
  <2> QED
    BY <1>6, <2>2, <2>3 DEF Readiness
<1>7. CASE Populations
  <2>1. /\ step = "populations" /\ UNCHANGED <<flags, rows, snapshot, post>>
        /\ Generated
    BY <1>7, LooksFrame DEF Looks, Populations, Generated
  <2>2. CASE Goto("state3_bind")
    BY <2>1, <2>2, <1>0, StillGenerated DEF Goto
  <2>3. CASE RecoverBlindly
    BY <2>1, <2>3, NotGenerated DEF RecoverBlindly, RecoverWith, ResultInv, Final
  <2> QED
    BY <1>7, <2>2, <2>3 DEF Populations
<1>8. CASE RestoreBegin \/ RestoreRead \/ RestoreOff \/ RestoreOn \/ RestoreVerify
  <2>1. /\ rows' = rows /\ DOMAIN flags'["scratch"] = DOMAIN flags["scratch"]
        /\ UNCHANGED <<plan, facts>>
        /\ step \in Restoring /\ step' \in Restoring \cup {"final_bind", "done"}
        /\ step' \in Restoring => result' = result
        /\ step' = "final_bind" => plan.why = "qualify"
        /\ step' = "done" => result' = "error"
    BY <1>8, <1>a, RestorationKeeps
  <2>2. CASE plan.why = "qualify"
    BY <2>1, <2>2, <1>0, StillGenerated DEF Generated, Restoring, facts
  <2>3. CASE plan.why # "qualify"
    BY <2>1, <2>3, NotGenerated DEF ResultInv, PlanInv, Restoring, Final
  <2> QED
    BY <2>2, <2>3
<1>9. CASE FinalBind \/ FinalSource \/ Issue \/ Disqualify
  <2>1. /\ UNCHANGED <<rows, flags, facts>>
        /\ step \in Final /\ step' \in Final \cup {"done"}
    BY <1>9, LooksFrame DEF Looks, FinalBind, FinalSource, Issue, Disqualify, Goto, Fail, Final
  <2> QED
    BY <2>1, <1>0, StillGenerated DEF Generated, Final, facts
<1>10. CASE LateCall
  <2>1. UNCHANGED <<step, plan, result, status>>
    BY <1>10, AroundFrame DEF restoration
  <2>2. \/ step = "restore" /\ plan.why = "error"
        \/ step = "done" /\ status \notin Restored
    BY <1>10 DEF LateCall, LateInv, Restored
  <2>3. result # "issued"
    BY <2>2 DEF ResultInv
  <2> QED
    BY <2>1, <2>2, <2>3, NotGenerated DEF Final, Restoring
<1>11. CASE OperatorMoves
  BY <1>11 DEF OperatorMoves
<1> QED
  BY <1>1, <1>2, <1>3, <1>4, <1>5, <1>6, <1>7, <1>8, <1>9, <1>10, <1>11 DEF Next

\* A restoration that verified has its goal, which is what was found and removed.
LEMMA VerifiedIsFound ==
  ASSUME TypeOK, LateInv, PlanInv, GoalInv, moves = 0, ElsewhereInv, ConfiguredInv,
         step = "restore_verify", flags["scratch"] = goal
  PROVE  FlagsAsFound
<1>1. snapshot = found /\ plan.recreated \in {NoFlags, removed} /\ plan.retired \subseteq Retirements
  BY DEF ConfiguredInv, Restoring, PlanInv
<1>2. /\ DOMAIN goal \subseteq DOMAIN snapshot \cup DOMAIN plan.recreated
      /\ DOMAIN plan.recreated \subseteq DOMAIN goal \ DOMAIN snapshot
      /\ DOMAIN snapshot \ DOMAIN goal \subseteq plan.retired
      /\ \A c \in DOMAIN goal :
           goal[c] = IF c \in DOMAIN plan.recreated THEN plan.recreated[c] ELSE snapshot[c]
  BY DEF GoalInv
<1>3. \A c \in DOMAIN goal : goal[c] = IF c \in DOMAIN found THEN found[c] ELSE removed[c]
  BY <1>1, <1>2, NoFlagsAreFlags
<1>4. late = {}
  BY DEF LateInv
<1> QED
  BY <1>1, <1>2, <1>3, <1>4 DEF FlagsAsFound

LEMMA StaysFound ==
  ASSUME FlagsAsFound, UNCHANGED <<flags, late, found, removed, requested, snapshot>>
  PROVE  FlagsAsFound'
<1>1. Retirements' = Retirements
  BY DEF Retirements, SpectraRequested
<1> QED
  BY <1>1 DEF FlagsAsFound

LEMMA FoundStep ==
  ASSUME TypeOK, LateInv, ResultInv, PlanInv, GoalInv, moves = 0, ElsewhereInv, ConfiguredInv,
         FoundInv, Next, moves' = 0
  PROVE  FoundInv'
<1> DEFINE Claims == step' \in Final \/ (step' = "done" /\ status' \in Restored)
<1>0. UNCHANGED <<requested, found, removed>>
  BY Kinds, LooksFrame, ActsFrame, AroundFrame DEF outside
<1>1. CASE RestoreVerify
  <2>1. CASE flags[active] = goal
    <3>1. FlagsAsFound
      BY <1>1, <2>1, VerifiedIsFound DEF RestoreVerify, ElsewhereInv
    <3>2. UNCHANGED <<flags, late, snapshot>>
      BY <1>1, LooksFrame DEF Looks, RestoreVerify, facts
    <3> QED
      BY <3>1, <3>2, <1>0, StaysFound DEF FoundInv
  <2>2. CASE flags[active] # goal
    BY <1>1, <2>2 DEF RestoreVerify, Fail, FoundInv, Final, Restored
  <2> QED
    BY <2>1, <2>2
<1>2. CASE FinalBind \/ FinalSource \/ Issue \/ Disqualify
  <2>1. step \in Final /\ UNCHANGED <<flags, late, snapshot>>
    BY <1>2, LooksFrame DEF Looks, FinalBind, FinalSource, Issue, Disqualify, Final, facts
  <2> QED
    BY <2>1, <1>0, StaysFound DEF FoundInv
<1>3. CASE LateCall
  <2>1. UNCHANGED <<step, status>> /\ late # {}
    BY <1>3, AroundFrame DEF LateCall
  <2> QED
    BY <2>1 DEF LateInv, FoundInv, Final, Restored
<1>4. CASE OperatorMoves
  BY <1>4 DEF OperatorMoves
<1> USE DEF Goto, Fail, Recover, RecoverBlindly, RecoverWith, RestoreToQualify, Refuse,
            FoundInv, Final, Restored
<1>5. CASE Bind \/ SourcePre \/ Universe \/ Resolve \/ Snapshot \/ Verify \/ Cleared \/ Readiness
  BY <1>5 DEF Bind, SourcePre, Universe, Resolve, Snapshot, Verify, Cleared, Readiness
<1>6. CASE Revalidate
  BY <1>6 DEF Revalidate, Revalidates
<1>7. CASE Populations \/ Post \/ QualifyRecreation
  BY <1>7 DEF Populations, Post, QualifyRecreation
<1>8. CASE AllOff \/ Enable \/ DeleteResults \/ RunAnalysis
  BY <1>8 DEF AllOff, Enable, DeleteResults, RunAnalysis
<1>9. CASE RestoreBegin \/ RestoreRead \/ RestoreOff \/ RestoreOn
  BY <1>9 DEF RestoreBegin, RestoreRead, RestoreOff, RestoreOn
<1> QED
  BY <1>1, <1>2, <1>3, <1>4, <1>5, <1>6, <1>7, <1>8, <1>9 DEF Next

\* Before the first setter the flags are as found.
LEMMA EarlyIsFound ==
  ASSUME LateInv, ConfiguredInv, step \in Early
  PROVE  /\ FlagsAsFound
         /\ rows["scratch"] = [c \in Cases |-> IF c \in DOMAIN found THEN "stale" ELSE "none"]
         /\ late = {}
         /\ flags["scratch"] = found
  BY DEF LateInv, ConfiguredInv, Early, FlagsAsFound, RowsBefore

LEMMA DamageStep ==
  ASSUME TypeOK, LateInv, ResultInv, moves = 0, ElsewhereInv, ConfiguredInv,
         FoundInv, NotRequiredBoundsDamage, Next, moves' = 0
  PROVE  NotRequiredBoundsDamage'
<1>0. UNCHANGED <<requested, found, removed>>
  BY Kinds, LooksFrame, ActsFrame, AroundFrame DEF outside
<1>n. ASSUME status' \notin {"NOT_REQUIRED", "unreported"}
      PROVE  NotRequiredBoundsDamage'
  BY <1>n DEF NotRequiredBoundsDamage
<1>1. CASE Bind \/ SourcePre \/ Universe \/ Resolve \/ Snapshot
  <2>1. step \in Early /\ UNCHANGED <<flags, rows, late>>
    BY <1>1, LooksFrame DEF Looks, Bind, SourcePre, Universe, Resolve, Snapshot, Early
  <2>2. FlagsAsFound'
    BY <2>1, <1>0, EarlyIsFound DEF FlagsAsFound
  <2> QED
    BY <2>2 DEF NotRequiredBoundsDamage
<1>2. CASE Revalidate
  <2>1. UNCHANGED <<flags, rows, late>>
    BY <1>2, LooksFrame DEF Looks
  <2>2. step \in Early \/ status' = status
    BY <1>2 DEF Revalidate, Revalidates, Early, Goto, Recover, RecoverWith, RestoreToQualify
  <2>3. CASE step \in Early
    BY <2>1, <2>3, <1>0, EarlyIsFound DEF FlagsAsFound, NotRequiredBoundsDamage
  <2>4. CASE step \notin Early
    <3>1. status = "none"
      BY <1>2 DEF Revalidate, Revalidates, ResultInv, Final
    <3> QED
      BY <2>2, <2>4, <3>1, <1>n
  <2> QED
    BY <2>3, <2>4
<1>3. CASE AllOff
  <2>1. step \in Early
    BY <1>3 DEF AllOff, Early
  <2>2. /\ rows' = rows /\ DOMAIN flags'["scratch"] = DOMAIN flags["scratch"]
        /\ \A c \in DOMAIN flags["scratch"] : flags'["scratch"][c] => flags["scratch"][c]
    BY <1>3, SetterCalled DEF AllOff, ElsewhereInv
  <2>3. late' \subseteq {"off"}
    BY <1>3, <2>1, EarlyIsFound DEF AllOff, ChangeCall
  <2> QED
    BY <2>1, <2>2, <2>3, <1>0, EarlyIsFound DEF NotRequiredBoundsDamage
<1>4. CASE Enable \/ DeleteResults \/ RunAnalysis
  <2>1. status = "none" /\ status' = status
    BY <1>4 DEF Enable, DeleteResults, RunAnalysis, Goto, Recover, RecoverBlindly, RecoverWith,
         ResultInv, Final
  <2> QED
    BY <2>1, <1>n
<1>5. CASE Verify \/ Cleared \/ Readiness \/ Populations \/ Post \/ QualifyRecreation
  <2>1. status = "none" /\ status' = status
    BY <1>5 DEF Verify, Cleared, Readiness, Populations, Post, QualifyRecreation, Goto, Recover,
         RecoverBlindly, RecoverWith, ResultInv, Final
  <2> QED
    BY <2>1, <1>n
<1>6. CASE RestoreBegin \/ RestoreRead \/ RestoreOff \/ RestoreOn \/ RestoreVerify
  <2>1. status' \in {status, "BLOCKED_UNSAFE", "FAILED"} \cup Restored /\ status = "none"
    BY <1>6 DEF RestoreBegin, RestoreRead, RestoreOff, RestoreOn, RestoreVerify, Goto, Fail,
         StatusOfRestored, Restored, ResultInv, Final
  <2> QED
    BY <2>1, <1>n DEF Restored
<1>7. CASE FinalBind \/ FinalSource \/ Issue \/ Disqualify
  <2>1. step \in Final /\ UNCHANGED <<flags, late, snapshot>>
    BY <1>7, LooksFrame DEF Looks, FinalBind, FinalSource, Issue, Disqualify, Final, facts
  <2> QED
    BY <2>1, <1>0, StaysFound DEF FoundInv, NotRequiredBoundsDamage
<1>8. CASE LateCall
  <2>0. PICK call \in late :
          (\E e \in Effects(call, active) : Becomes(active, e)) /\ late' = late \ {call}
    BY <1>8 DEF LateCall
  <2>1. PICK e \in Effects(call, active) : Becomes(active, e) /\ late' = late \ {call}
    BY <2>0
  <2>2. CASE status \in {"NOT_REQUIRED", "unreported"}
    <3>1. /\ rows["scratch"] = [c \in Cases |-> IF c \in DOMAIN found THEN "stale" ELSE "none"]
          /\ late \subseteq {"off"}
          /\ DOMAIN flags["scratch"] = DOMAIN found
          /\ \A c \in DOMAIN found : flags["scratch"][c] => found[c]
      BY <2>1, <2>2 DEF NotRequiredBoundsDamage, FlagsAsFound
    <3>2. /\ rows' = rows /\ DOMAIN flags'["scratch"] = DOMAIN flags["scratch"]
          /\ \A c \in DOMAIN flags["scratch"] : flags'["scratch"][c] => flags["scratch"][c]
      BY <2>1, <3>1, SetterBecomes DEF ElsewhereInv, TypeOK
    <3> QED
      BY <2>1, <3>1, <3>2, <1>0 DEF NotRequiredBoundsDamage
  <2>3. status' = status
    BY <1>8, AroundFrame
  <2> QED
    BY <2>2, <2>3, <1>n
<1>9. CASE OperatorMoves
  BY <1>9 DEF OperatorMoves
<1> QED
  BY <1>1, <1>2, <1>3, <1>4, <1>5, <1>6, <1>7, <1>8, <1>9 DEF Next

LEMMA MovesGrow ==
  ASSUME TypeOK, Next
  PROVE  moves' \in Nat /\ (moves' = moves \/ moves' = moves + 1)
  BY Kinds, LooksFrame, ActsFrame, AnalysisExecutionAssumption
     DEF TypeOK, LateCall, OperatorMoves, outside

LEMMA AloneStep ==
  ASSUME TypeOK, LateInv, ResultInv, PlanInv, GoalInv, ScopeInv, AloneInv, Next
  PROVE  AloneInv'
<1> SUFFICES ASSUME moves' = 0
             PROVE  (ElsewhereInv /\ ConfiguredInv /\ GeneratedInv /\ FoundInv
                       /\ NotRequiredBoundsDamage)'
  BY DEF AloneInv
<1>1. moves = 0
  BY MovesGrow DEF TypeOK
<1> QED
  BY <1>1, ElsewhereStep, ConfiguredStep, GeneratedStep, FoundStep, DamageStep DEF AloneInv

--------------------------------------------------------------------------------
(* One move of the operator's.                                             *)

\* Before the deletion, and once it has given up, the execution claims nothing.
ClaimsRows == {"state2_bind", "state2_read", "run", "post", "recreation", "readiness", "populations"}
ClaimsUsed == {"state3_bind", "state3_read"} \cup Final

LEMMA OwnUnclaimed ==
  ASSUME OwnInv, moves <= 1, state' = state, step' \notin ClaimsRows \cup ClaimsUsed,
         step' \in Restoring => plan'.why # "qualify",
         result' # "issued"
  PROVE  OwnInv'
  BY DEF OwnInv, ClaimsRows, ClaimsUsed, Final

\* What is claimed of the rows goes on being true of them.
LEMMA OwnRows ==
  ASSUME OwnInv, moves <= 1, step \in ClaimsRows, step' \in ClaimsRows, result' # "issued",
         UNCHANGED <<active, state, requested>>,
         \A c \in requested : active = "scratch" =>
           rows'["scratch"][c] \in {"none", state["scratch"], rows["scratch"][c]}
  PROVE  OwnInv'
  BY DEF OwnInv, ClaimsRows, Restoring, Final

LEMMA OwnUsed ==
  ASSUME UsedOwn, UNCHANGED <<used, requested>>, state'["other"] = "odd", step' \notin ClaimsRows
  PROVE  OwnInv'
  BY DEF UsedOwn, OwnInv, ClaimsRows

LEMMA OwnLooksStep ==
  ASSUME TypeOK, ResultInv, PlanInv, ScopeInv, OwnInv, moves <= 1, Looks
  PROVE  OwnInv'
<1>0. /\ UNCHANGED <<active, rows, state, requested>>
      /\ state["other"] = "odd" /\ state'["other"] = "odd"
  BY LooksFrame DEF outside, OwnInv
<1>1. CASE Bind \/ SourcePre \/ Snapshot \/ Universe \/ Resolve \/ Verify
  <2>1. /\ step' \notin ClaimsRows \cup ClaimsUsed
        /\ step' \in Restoring => plan'.why # "qualify"
        /\ result' # "issued"
    BY <1>1 DEF Bind, SourcePre, Snapshot, Universe, Resolve, Verify, ClaimsRows, ClaimsUsed, Final,
         Restoring, Goto, Refuse, Fail, Recover, RecoverWith, ResultInv
  <2> QED
    BY <2>1, <1>0, OwnUnclaimed
<1>r. ASSUME step # "done",
             Recover \/ RecoverBlindly \/ RecoverWith(Retirements, removed)
      PROVE  OwnInv'
  <2>1. /\ step' \notin ClaimsRows \cup ClaimsUsed
        /\ step' \in Restoring => plan'.why # "qualify"
        /\ result' # "issued"
    BY <1>r DEF Recover, RecoverBlindly, RecoverWith, ClaimsRows, ClaimsUsed, Final,
         Restoring, ResultInv
  <2> QED
    BY <2>1, <1>0, OwnUnclaimed
<1>g. ASSUME NEW s \in ClaimsRows, step \in ClaimsRows, Goto(s)
      PROVE  OwnInv'
  BY <1>g, <1>0, OwnRows DEF Goto, ResultInv, ClaimsRows
<1>2. CASE Cleared
  <2>1. ASSUME \A c \in DOMAIN snapshot : rows[active][c] = "none", Goto("state2_bind")
        PROVE  OwnInv'
    <3>1. requested \subseteq DOMAIN snapshot
      BY <1>2 DEF Cleared, ScopeInv, Resolved
    <3>2. \A c \in requested : active = "scratch" => rows["scratch"][c] = "none"
      BY <2>1, <3>1
    <3>3. step' = "state2_bind" /\ result' # "issued"
      BY <1>2, <2>1 DEF Cleared, Goto, ResultInv
    <3> QED
      BY <3>2, <3>3, <1>0 DEF OwnInv, Restoring, Final
  <2> QED
    BY <1>2, <1>r, <2>1 DEF Cleared
<1>3. CASE Revalidate
  <2>1. CASE Revalidates("state1_bind", "state1_read", "snapshot")
    <3>1. /\ step' \notin ClaimsRows \cup ClaimsUsed \cup Restoring
          /\ result' # "issued"
      BY <2>1 DEF Revalidates, ClaimsRows, ClaimsUsed, Final, Restoring, Goto, Fail, ResultInv
    <3> QED
      BY <3>1, <1>0, OwnUnclaimed
  <2>2. CASE Revalidates("state2_bind", "state2_read", "run")
    <3>1. Recover \/ Goto("state2_read") \/ Goto("run")
      BY <2>2 DEF Revalidates
    <3>2. step \in ClaimsRows
      BY <2>2 DEF Revalidates, ClaimsRows
    <3> QED
      BY <3>1, <3>2, <1>r, <1>g DEF ClaimsRows
  <2>3. CASE Revalidates("state3_bind", "state3_read", "restore")
    <3>1. \/ step # "done" /\ Recover
          \/ step = "state3_bind" /\ active = "scratch" /\ Goto("state3_read")
          \/ step = "state3_read" /\ state[active] = "established" /\ RestoreToQualify
      BY <2>3 DEF Revalidates
    <3>2. used' = used
      BY <1>3 DEF Revalidate, facts
    <3>3. CASE step = "state3_bind" /\ active = "scratch" /\ Goto("state3_read")
      BY <3>2, <3>3, <1>0 DEF Goto, OwnInv, UsedOwn, Restoring, Final, ResultInv
    <3>4. CASE step = "state3_read" /\ state[active] = "established" /\ RestoreToQualify
      <4>1. active = "scratch"
        BY <3>4, <1>0 DEF TypeOK, Models
      <4>2. UsedOwn
        BY <3>4, <4>1 DEF OwnInv
      <4> QED
        BY <3>2, <3>4, <4>2, <1>0, OwnUsed DEF RestoreToQualify, ClaimsRows
    <3> QED
      BY <3>1, <3>3, <3>4, <1>r
  <2> QED
    BY <1>3, <2>1, <2>2, <2>3 DEF Revalidate
<1>4. CASE Post \/ QualifyRecreation \/ Readiness
  <2>1. \/ Recover \/ RecoverBlindly \/ RecoverWith(Retirements, removed)
        \/ Goto("recreation") \/ Goto("readiness") \/ Goto("populations")
    BY <1>4 DEF Post, QualifyRecreation, Readiness
  <2>2. step \in ClaimsRows
    BY <1>4 DEF Post, QualifyRecreation, Readiness, ClaimsRows
  <2> QED
    BY <2>1, <2>2, <1>r, <1>g DEF ClaimsRows
<1>5. CASE Populations
  <2>1. ASSUME \A c \in requested : rows[active][c] # "none",
               used' = [c \in Cases |-> IF c \in requested THEN rows[active][c] ELSE "none"],
               Goto("state3_bind")
        PROVE  OwnInv'
    <3>1. ASSUME active = "scratch", state["scratch"] = "established"
          PROVE  UsedOwn'
      <4>1. \A c \in requested : rows["scratch"][c] \in {"none", "established"}
        BY <3>1, <1>5 DEF OwnInv, Populations
      <4>2. requested \subseteq Cases
        BY DEF TypeOK
      <4> QED
        BY <4>1, <4>2, <3>1, <2>1, <1>0 DEF UsedOwn
    <3>2. step' = "state3_bind" /\ result' # "issued"
      BY <1>5, <2>1 DEF Populations, Goto, ResultInv
    <3> QED
      BY <3>1, <3>2, <1>0 DEF OwnInv, Restoring, Final
  <2> QED
    BY <1>5, <1>r, <2>1 DEF Populations
<1>6. CASE RestoreBegin \/ RestoreRead \/ RestoreVerify
  <2>1. /\ UNCHANGED <<plan, used>>
        /\ step \in Restoring /\ step' \in Restoring \cup {"final_bind", "done"}
        /\ step' \in Restoring => result' = result
        /\ step' = "final_bind" => plan.why = "qualify"
        /\ step' = "done" => result' = "error"
        /\ result' # "issued"
    BY <1>6 DEF RestoreBegin, RestoreRead, RestoreVerify, Goto, Fail, Restoring, facts, restoration,
         ResultInv
  <2>2. step' \notin ClaimsRows
    BY <2>1 DEF ClaimsRows, Restoring
  <2>3. CASE plan.why = "qualify"
    <3>1. UsedOwn
      BY <2>1, <2>3 DEF OwnInv
    <3> QED
      BY <3>1, <2>1, <2>2, <1>0, OwnUsed
  <2>4. CASE plan.why # "qualify"
    BY <2>1, <2>2, <2>4, <1>0, OwnUnclaimed DEF ClaimsUsed, Final, Restoring
  <2> QED
    BY <2>3, <2>4
<1>7. CASE FinalBind \/ FinalSource \/ Issue \/ Disqualify
  <2>1. step \in Final /\ used' = used /\ step' \in Final \cup {"done"}
    BY <1>7 DEF FinalBind, FinalSource, Issue, Disqualify, Goto, Fail, Final, facts
  <2>2. UsedOwn /\ step' \notin ClaimsRows
    BY <2>1 DEF OwnInv, ClaimsRows, Final
  <2> QED
    BY <2>1, <2>2, <1>0, OwnUsed
<1> QED
  BY <1>1, <1>2, <1>3, <1>4, <1>5, <1>6, <1>7 DEF Looks

LEMMA OwnActsStep ==
  ASSUME TypeOK, ResultInv, OwnInv, moves <= 1, Acts
  PROVE  OwnInv'
<1>0. UNCHANGED <<active, state, requested>> /\ state'["other"] = "odd"
  BY ActsFrame DEF outside, OwnInv
<1>1. CASE AllOff \/ Enable \/ DeleteResults
  <2>1. /\ step' \notin ClaimsRows \cup ClaimsUsed
        /\ step' \in Restoring => plan'.why # "qualify"
        /\ result' # "issued"
    BY <1>1 DEF AllOff, Enable, DeleteResults, ClaimsRows, ClaimsUsed, Final,
         Restoring, Goto, Fail, Recover, RecoverBlindly, RecoverWith, ResultInv
  <2> QED
    BY <2>1, <1>0, OwnUnclaimed
<1>2. CASE RunAnalysis
  <2>1. step = "run" /\ result' # "issued"
    BY <1>2 DEF RunAnalysis, Goto, Recover, RecoverWith, ResultInv
  <2>2. CASE Goto("post")
    <3>1. \A c \in Cases : active = "scratch" =>
            rows'["scratch"][c] \in {"none", state["scratch"], rows["scratch"][c]}
      BY <1>2, RunCalled DEF RunAnalysis
    <3>2. requested \subseteq Cases
      BY DEF TypeOK
    <3> QED
      BY <2>1, <2>2, <3>1, <3>2, <1>0, OwnRows DEF Goto, ClaimsRows
  <2>3. CASE Recover
    BY <2>1, <2>3, <1>0, OwnUnclaimed
       DEF Recover, RecoverWith, ClaimsRows, ClaimsUsed, Final, Restoring
  <2> QED
    BY <1>2, <2>2, <2>3 DEF RunAnalysis
<1>3. CASE RestoreOff \/ RestoreOn
  <2>1. /\ UNCHANGED <<plan, used>> /\ result' # "issued"
        /\ step \in Restoring /\ step' \in Restoring \cup {"done"}
    BY <1>3 DEF RestoreOff, RestoreOn, Goto, Fail, Restoring, facts, restoration, ResultInv
  <2>2. step' \notin ClaimsRows
    BY <2>1 DEF ClaimsRows, Restoring
  <2>3. CASE plan.why = "qualify"
    <3>1. UsedOwn
      BY <2>1, <2>3 DEF OwnInv
    <3> QED
      BY <3>1, <2>1, <2>2, <1>0, OwnUsed
  <2>4. CASE plan.why # "qualify"
    BY <2>1, <2>2, <2>4, <1>0, OwnUnclaimed DEF ClaimsUsed, Final, Restoring
  <2> QED
    BY <2>3, <2>4
<1> QED
  BY <1>1, <1>2, <1>3 DEF Acts

\* The operator's first move, of which nobody knows as yet.
LEMMA OwnMoveStep ==
  ASSUME TypeOK, OwnInv, moves = 0, ElsewhereInv, OperatorMoves
  PROVE  OwnInv'
<1>0. UNCHANGED <<step, used, plan, result, requested>>
  BY AroundFrame DEF facts, restoration
<1>1. active = "scratch" /\ state["scratch"] = "established" /\ state["other"] = "odd"
      /\ active \in Models /\ state \in [Models -> ModelStates] /\ requested \subseteq Cases
  BY DEF ElsewhereInv, TypeOK, Models
<1>2. state'["other"] = "odd"
  BY <1>1 DEF OperatorMoves, Models
<1>3. ASSUME active' = "scratch", state'["scratch"] = "established"
      PROVE  \A c \in Cases :
               rows'["scratch"][c] \in {"none", state["scratch"], rows["scratch"][c]}
  <2>1. \/ UNCHANGED rows
        \/ \E e \in Analyses(active) : Becomes(active, e)
    BY DEF OperatorMoves
  <2> QED
    BY <2>1, <1>1, RunBecomes
<1> QED
  BY <1>0, <1>1, <1>2, <1>3 DEF OwnInv, UsedOwn

LEMMA OwnStep ==
  ASSUME TypeOK, LateInv, ResultInv, PlanInv, ScopeInv, AloneInv, OwnInv, Next
  PROVE  OwnInv'
<1> SUFFICES ASSUME moves' <= 1
             PROVE  OwnInv'
  BY DEF OwnInv
<1>1. moves <= 1
  BY MovesGrow DEF TypeOK
<1>2. CASE Looks
  BY <1>1, <1>2, OwnLooksStep
<1>3. CASE Acts
  BY <1>1, <1>3, OwnActsStep
<1>4. CASE LateCall
  <2>1. UNCHANGED <<step, plan, result, status, state>>
    BY <1>4, AroundFrame DEF LateCall, restoration
  <2>2. \/ step = "restore" /\ plan.why = "error" /\ result = "none"
        \/ step = "done" /\ status \notin Restored
    BY <1>4 DEF LateCall, LateInv, Restored, ResultInv
  <2>3. result # "issued"
    BY <2>2 DEF ResultInv
  <2> QED
    BY <1>1, <2>1, <2>2, <2>3, OwnUnclaimed DEF ClaimsRows, ClaimsUsed, Final, Restoring
<1>5. CASE OperatorMoves
  <2>1. moves = 0
    BY <1>5 DEF OperatorMoves, TypeOK
  <2> QED
    BY <1>5, <2>1, OwnMoveStep DEF AloneInv
<1> QED
  BY <1>2, <1>3, <1>4, <1>5, Kinds

--------------------------------------------------------------------------------
(* The analysis as a whole.                                                *)

LEMMA AnalysisStep ==
  ASSUME AnalysisInv, Next
  PROVE  AnalysisInv'
  BY TypesStep, LateStep, ResultStep, PlanStep, GoalStep, ScopeStep, AloneStep, OwnStep
     DEF AnalysisInv

LEMMA ExecutionTypes ==
  ASSUME InitExecution
  PROVE  /\ flags \in [Models -> Flags] /\ rows \in [Models -> [Cases -> Rows]]
         /\ requested \subseteq Cases
         /\ found \in Flags /\ removed \in Flags
<1>1. PICK S \in {{}, Recreated} : /\ removed = [c \in S |-> Before[c]]
                                   /\ found = [c \in Cases \ S |-> Before[c]]
  BY DEF InitExecution
<1>2. removed \in [S -> BOOLEAN] /\ found \in [Cases \ S -> BOOLEAN] /\ S \subseteq Cases
  BY <1>1, AnalysisExecutionAssumption
<1>3. removed \in Flags /\ found \in Flags
  BY <1>2, AreFlags
<1>4. [c \in Cases |-> TRUE] \in Flags
  BY AreFlags
<1>5. flags \in [Models -> Flags]
  BY <1>3, <1>4 DEF InitExecution
<1>6. rows \in [Models -> [Cases -> Rows]]
  BY DEF InitExecution, Rows
<1>7. requested \subseteq Cases
  BY AnalysisExecutionAssumption DEF InitExecution
<1> QED
  BY <1>3, <1>5, <1>6, <1>7

\* The analysis starts as B4B leaves it, on the scratch.
LEMMA AnalysisBegins ==
  ASSUME InitExecution, active = "scratch", gateway \in {"serving", "failed"},
         source \in Contents, baseline \in Contents, moves \in 0 .. MaxMoves
  PROVE  AnalysisInv
<1>1. TypeOK
  <2>1. /\ state \in [Models -> ModelStates] /\ used \in [Cases -> Rows]
        /\ active \in Models
        /\ late = {} /\ enabled = {} /\ post = {} /\ undone = {}
        /\ step = "bind" /\ result = "none" /\ status = "none"
        /\ snapshot = NoFlags /\ recreation = NoFlags /\ goal = NoFlags
        /\ plan = [why |-> "none", retired |-> {}, exact |-> FALSE, recreated |-> NoFlags]
    BY DEF InitExecution, Models, ModelStates, Rows
  <2>2. step \in Steps /\ status \in Status
    BY <2>1 DEF Steps, Status
  <2> QED
    BY <2>1, <2>2, ExecutionTypes, NoFlagsAreFlags DEF TypeOK
<1>2. step = "bind" /\ result = "none" /\ status = "none" /\ late = {} /\ enabled = {}
  BY DEF InitExecution
<1>3. LateInv /\ ResultInv /\ PlanInv /\ GoalInv /\ ScopeInv
  BY <1>2 DEF LateInv, ResultInv, PlanInv, GoalInv, ScopeInv, Final, Restoring, Resolved
<1>4. ElsewhereInv
  <2>1. DOMAIN flags["other"] = Cases
    BY DEF InitExecution, Models
  <2> QED
    BY <2>1 DEF InitExecution, ElsewhereInv, Models
<1>5. flags["scratch"] = found /\ rows["scratch"] = RowsBefore
  BY DEF InitExecution, Models, RowsBefore
<1>6. ConfiguredInv
  BY <1>2, <1>5 DEF ConfiguredInv, Resolved, Restoring
<1>7. GeneratedInv /\ FoundInv /\ NotRequiredBoundsDamage
  BY <1>2 DEF GeneratedInv, Generated, FoundInv, NotRequiredBoundsDamage, Final, Restoring
<1>8. OwnInv
  BY <1>2, <1>4 DEF OwnInv, ElsewhereInv, Models, Final, Restoring
<1> QED
  BY <1>1, <1>3, <1>4, <1>6, <1>7, <1>8 DEF AnalysisInv, AloneInv

\* What the invariant of the analysis says to its caller.
LEMMA AnalysisSays ==
  ASSUME AnalysisInv
  PROVE  /\ moves <= 1 => IssuedIsOwn
         /\ IssuedLeavesScope
         /\ RestoredIsTruthful
         /\ NotRequiredBoundsDamage
<1> USE DEF AnalysisInv
<1>1. moves <= 1 => IssuedIsOwn
  BY DEF OwnInv, UsedOwn, IssuedIsOwn
<1>2. ASSUME result = "issued", moves = 0
      PROVE  IssuedLeavesScope
  <2>1. step = "done" /\ status \in Restored
    BY <1>2 DEF ResultInv
  <2>2. ElsewhereInv /\ GeneratedInv /\ FoundInv
    BY <1>2 DEF AloneInv
  <2>3. Finished("scratch") = Execution \cup DOMAIN removed
    BY <1>2, <2>1, <2>2 DEF GeneratedInv, Generated
  <2> QED
    BY <1>2, <2>1, <2>2, <2>3 DEF IssuedLeavesScope, ElsewhereInv, GeneratedInv, Generated, FoundInv
<1>3. IssuedLeavesScope
  BY <1>2 DEF IssuedLeavesScope
<1>4. RestoredIsTruthful
  BY DEF RestoredIsTruthful, ResultInv, AloneInv, FoundInv
<1>5. NotRequiredBoundsDamage
  BY DEF AloneInv, NotRequiredBoundsDamage
<1> QED
  BY <1>1, <1>3, <1>4, <1>5

\* An issued analysis is over: the design changes neither what it found out nor
\* the scratch's flags, and nothing else while the operator leaves ETABS alone.
LEMMA AnalysisOutlasts ==
  ASSUME AnalysisInv, result = "issued",
         UNCHANGED <<flags, state, late, baseline, requested, found, removed, step, facts,
                     restoration, result, status>>,
         active' \in Models, gateway' \in {"serving", "failed"}, source' \in Contents,
         rows' \in [Models -> [Cases -> Rows]],
         moves' \in 0 .. MaxMoves, moves' = moves \/ moves' = moves + 1,
         moves' = 0 => UNCHANGED <<active, rows>>
  PROVE  AnalysisInv'
<1> USE DEF facts, restoration
<1>1. step = "done" /\ status \in Restored /\ moves \in Nat
  BY DEF AnalysisInv, ResultInv, TypeOK
<1>2. Execution' = Execution /\ Retirements' = Retirements
  BY DEF Execution, Dependencies, Retirements, SpectraRequested
<1>3. TypeOK'
  BY <1>2 DEF AnalysisInv, TypeOK
<1>4. late = {}
  BY <1>1 DEF AnalysisInv, LateInv, Restored
<1>5. (LateInv /\ ResultInv /\ PlanInv /\ GoalInv /\ ScopeInv)'
  BY <1>1, <1>4 DEF AnalysisInv, LateInv, ResultInv, PlanInv, GoalInv, ScopeInv, Final, Restoring,
       Resolved
<1>6. AloneInv'
  <2> SUFFICES ASSUME moves' = 0
               PROVE  (ElsewhereInv /\ ConfiguredInv /\ GeneratedInv /\ FoundInv
                         /\ NotRequiredBoundsDamage)'
    BY DEF AloneInv
  <2>1. moves = 0 /\ active' = active /\ rows' = rows
    BY <1>1
  <2>2. ElsewhereInv /\ ConfiguredInv /\ GeneratedInv /\ FoundInv
    BY <2>1 DEF AnalysisInv, AloneInv
  <2>3. ElsewhereInv'
    BY <2>1, <2>2 DEF ElsewhereInv
  <2>4. ConfiguredInv' /\ NotRequiredBoundsDamage'
    BY <1>1 DEF ConfiguredInv, NotRequiredBoundsDamage, Early, Resolved, Restoring, Restored
  <2>5. Finished("scratch")' = Finished("scratch")
    BY <2>1 DEF Finished
  <2>6. GeneratedInv'
    BY <1>1, <1>2, <2>1, <2>2, <2>5 DEF GeneratedInv, Generated
  <2>7. FoundInv'
    BY <1>1, <1>2, <2>2 DEF FoundInv, FlagsAsFound
  <2> QED
    BY <2>3, <2>4, <2>6, <2>7
<1>7. OwnInv'
  BY <1>1 DEF AnalysisInv, OwnInv, UsedOwn, Final, Restoring
<1> QED
  BY <1>3, <1>5, <1>6, <1>7 DEF AnalysisInv

--------------------------------------------------------------------------------
(* The creation of the scratch.                                            *)

LEMMA CreationBegins ==
  ASSUME Scratch!Init
  PROVE  Scratch!TypeOK /\ HeadInv /\ Proof!IInv
<1>1. Proof!Init
  BY DEF Scratch!Init, Proof!Init, Scratch!Whole, Proof!Whole, Scratch!Absent, Proof!Absent,
         Scratch!NoBytes, Proof!NoBytes
<1>2. source \in Contents
  BY PipelineAssumption DEF Scratch!Init
<1>3. Scratch!TypeOK
  <2>1. source \in {Scratch!Whole(v) : v \in Versions} \cup {Scratch!Absent}
    BY <1>2, PipelineAssumption
  <2>2. /\ active = "other" /\ gateway = "serving" /\ moves = 0 /\ at = "identity" /\ head = "none"
        /\ pre = Scratch!NoBytes /\ scratch = Scratch!Absent /\ baseline = Scratch!NoBytes
        /\ opening = FALSE /\ cleanup = "none"
    BY DEF Scratch!Init
  <2>3. moves \in 0 .. MaxMoves /\ at \in Scratch!Places /\ cleanup \in Scratch!Endings
    BY <2>2, AnalysisExecutionAssumption DEF Scratch!Places, Scratch!Endings
  <2> QED
    BY <2>1, <2>2, <2>3 DEF Scratch!TypeOK
<1> QED
  BY <1>1, <1>3, Proof!InitEstablishes DEF Scratch!Init, HeadInv

\* A step of B4S is one of the module whose theorems are used.
LEMMA CreationSteps ==
  ASSUME Scratch!Next
  PROVE  Proof!IInv => Proof!IInv'
<1>0. Scratch!Next => Proof!Next
  <2> USE DEF Scratch!Answer, Proof!Answer, Scratch!After, Proof!After, Scratch!Goto, Proof!Goto,
              Scratch!End, Proof!End, Scratch!FailWithPath, Proof!FailWithPath, Scratch!ReadBegins,
              Proof!ReadBegins, Scratch!Read, Proof!Read, Scratch!Absent, Proof!Absent,
              Scratch!Whole, Proof!Whole, Scratch!NoBytes, Proof!NoBytes
  <2>1. /\ Scratch!Identity <=> Proof!Identity
        /\ Scratch!PreBegin <=> Proof!PreBegin
        /\ Scratch!PreEnd <=> Proof!PreEnd
    BY DEF Scratch!Identity, Scratch!PreBegin, Scratch!PreEnd,
           Proof!Identity, Proof!PreBegin, Proof!PreEnd
  <2>2. /\ Scratch!CopyBegin <=> Proof!CopyBegin
        /\ Scratch!CopyEnd <=> Proof!CopyEnd
        /\ Scratch!Compare <=> Proof!Compare
    BY DEF Scratch!CopyBegin, Scratch!CopyEnd, Scratch!Compare,
           Proof!CopyBegin, Proof!CopyEnd, Proof!Compare
  <2>3. /\ Scratch!OpenFile <=> Proof!OpenFile
        /\ Scratch!Readback <=> Proof!Readback
    BY DEF Scratch!OpenFile, Scratch!Readback, Proof!OpenFile, Proof!Readback
  <2>4. /\ Scratch!PostBegin <=> Proof!PostBegin
        /\ Scratch!PostEnd <=> Proof!PostEnd
    BY DEF Scratch!PostBegin, Scratch!PostEnd, Proof!PostBegin, Proof!PostEnd
  <2>5. /\ Scratch!LateOpen <=> Proof!LateOpen
        /\ Scratch!OthersMove <=> Proof!OthersMove
    BY DEF Scratch!LateOpen, Scratch!OthersMove, Proof!LateOpen, Proof!OthersMove,
           Scratch!creation, Proof!creation
  <2> QED
    BY <2>1, <2>2, <2>3, <2>4, <2>5 DEF Scratch!Next, Scratch!Creation, Proof!Next, Proof!Creation
<1> QED
  BY <1>0, Proof!StepPreserves

\* The types of OwnedScratch, the versions of the source being what they are here.
CopyTypes ==
  /\ active \in Models /\ gateway \in {"serving", "failed"}
  /\ source \in Contents /\ moves \in 0 .. MaxMoves
  /\ at \in Scratch!Places
  /\ head \in Versions \cup {"none"}
  /\ pre \in Scratch!Bytes \cup {Scratch!NoBytes} /\ baseline \in Scratch!Bytes \cup {Scratch!NoBytes}
  /\ scratch \in Scratch!Bytes \cup {Scratch!Absent, Scratch!NoBytes}
  /\ opening \in BOOLEAN
  /\ cleanup \in Scratch!Endings

LEMMA CopyTypesAre == (CopyTypes <=> Scratch!TypeOK) /\ (CopyTypes' <=> Scratch!TypeOK')
<1>1. CopyTypes <=> Scratch!TypeOK
  BY PipelineAssumption, Zenon DEF CopyTypes, Scratch!TypeOK, Models
<1>2. CopyTypes' <=> Scratch!TypeOK'
  BY PipelineAssumption, Zenon DEF CopyTypes, Scratch!TypeOK, Models
<1> QED
  BY <1>1, <1>2

LEMMA CreationTypes ==
  ASSUME Scratch!TypeOK, HeadInv, Scratch!Next
  PROVE  Scratch!TypeOK' /\ HeadInv'
<1> SUFFICES CopyTypes' /\ HeadInv'
  BY CopyTypesAre
<1> CopyTypes
  BY CopyTypesAre
<1> USE DEF CopyTypes, HeadInv, Scratch!Places, Scratch!Endings, Scratch!Goto, Scratch!End,
            Scratch!FailWithPath, Models
<1>h. source # Scratch!Absent => source.head \in Versions /\ source.tail \in Versions
  BY PipelineAssumption DEF Scratch!Whole
<1>r. source # Scratch!Absent /\ at \in {"pre_end", "copy_end", "post_end"}
        => Scratch!Read \in Scratch!Bytes
  BY <1>h DEF Scratch!Read, Scratch!Bytes
<1>1. CASE Scratch!Identity
  BY <1>1 DEF Scratch!Identity, Scratch!After
<1>2. CASE Scratch!PreBegin \/ Scratch!PostBegin
  BY <1>2, <1>h DEF Scratch!PreBegin, Scratch!PostBegin, Scratch!ReadBegins
<1>3. CASE Scratch!PreEnd \/ Scratch!PostEnd
  BY <1>3, <1>r DEF Scratch!PreEnd, Scratch!PostEnd
<1>4. CASE Scratch!CopyBegin
  BY <1>4, <1>h DEF Scratch!CopyBegin, Scratch!ReadBegins
<1>5. CASE Scratch!CopyEnd \/ Scratch!Compare
  BY <1>5, <1>r DEF Scratch!CopyEnd, Scratch!Compare
<1>6. CASE Scratch!OpenFile \/ Scratch!Readback
  BY <1>6 DEF Scratch!OpenFile, Scratch!Readback, Scratch!After
<1>7. CASE Scratch!LateOpen
  <2>1. /\ active' = "scratch" /\ opening' = FALSE
        /\ UNCHANGED <<gateway, source, moves, at, head, pre, scratch, baseline, cleanup>>
    BY <1>7 DEF Scratch!LateOpen, Scratch!creation
  <2>2. opening' \in BOOLEAN
    BY <2>1
  <2> QED
    BY <2>1, <2>2, ZenonT(30)
<1>8. CASE Scratch!OthersMove
  <2>1. active' \in {"scratch", "other"} /\ source' \in Contents
    BY <1>8, PipelineAssumption DEF Scratch!OthersMove
  <2>2. moves' \in 0 .. MaxMoves
    BY <1>8, AnalysisExecutionAssumption DEF Scratch!OthersMove
  <2>3. UNCHANGED <<gateway, at, head, pre, scratch, baseline, cleanup, opening>>
    BY <1>8 DEF Scratch!OthersMove, Scratch!creation
  <2> QED
    BY <2>1, <2>2, <2>3
<1> QED
  BY <1>1, <1>2, <1>3, <1>4, <1>5, <1>6, <1>7, <1>8 DEF Scratch!Next, Scratch!Creation

--------------------------------------------------------------------------------
(* The design.                                                             *)

\* Steps that only look at the design, and at the session.
DesignLooks ==
  \/ Design!Plan \/ Design!Bind \/ Design!Preflight \/ Design!Selection
  \/ Design!PostAvailability \/ Design!PostSelection \/ Design!Results

LEMMA DesignKinds ==
  Design!Next => DesignLooks \/ Design!StartDesign \/ Design!LateStart \/ Design!OperatorMoves
  BY DEF Design!Next, Design!Execution, DesignLooks

LEMMA DesignLooksFrame ==
  ASSUME DesignLooks
  PROVE  /\ UNCHANGED <<active, rows, source, baseline, moves, selection, designs, starting>>
         /\ gateway' \in {gateway, "failed"}
<1> USE DEF Design!ReadCall, Design!After, Design!files, Design!model
<1>1. CASE Design!Plan \/ Design!Selection
  BY <1>1 DEF Design!Plan, Design!Selection
<1>2. CASE Design!Bind
  BY <1>2 DEF Design!Bind, Design!BindsScratch
<1>3. CASE Design!Preflight
  BY <1>3 DEF Design!Preflight
<1>4. CASE Design!PostAvailability \/ Design!PostSelection \/ Design!Results
  BY <1>4 DEF Design!PostAvailability, Design!PostSelection, Design!Results
<1> QED
  BY <1>1, <1>2, <1>3, <1>4 DEF DesignLooks

\* What StartDesign makes of the rows of a model, be it in time or late.
LEMMA StartsAre ==
  ASSUME NEW m \in Models, NEW starter, NEW r \in Design!Starts(m, starter)
  PROVE  /\ r = [c \in Columns |-> r[c]]
         /\ \A c \in Columns : r[c] \in {designs[m][c], Design!Design(m, starter)}
<1>1. \E kept : r = [c \in Columns |-> IF c \in kept THEN designs[m][c] ELSE Design!Design(m, starter)]
  BY SMT DEF Design!Starts
<1> QED
  BY <1>1

LEMMA DesignsTyped ==
  ASSUME TypeOK, DesignTypes, NEW starter \in {"b6", "operator"}, NEW m \in Models
  PROVE  /\ Design!Design(m, starter) \in DesignRows
         /\ Design!NoDesigns \in [Columns -> DesignRows]
         /\ \A r \in Design!Starts(m, starter) : r \in [Columns -> DesignRows]
<1>1. Design!Design(m, starter) \in DesignRows
  BY DEF Design!Design, DesignRows, DesignTypes, TypeOK
<1>2. Design!NoDesigns \in [Columns -> DesignRows]
  BY DEF Design!NoDesigns, DesignRows
<1>3. ASSUME NEW r \in Design!Starts(m, starter)
      PROVE  r \in [Columns -> DesignRows]
  BY <1>1, <1>3, StartsAre DEF DesignTypes
<1> QED
  BY <1>1, <1>2, <1>3

\* What the design does to ETABS and to the file.
LEMMA DesignFrame ==
  ASSUME TypeOK, DesignTypes, Design!Next
  PROVE  /\ active' \in Models /\ gateway' \in {"serving", "failed"} /\ source' \in Contents
         /\ baseline' = baseline
         /\ rows' \in [Models -> [Cases -> Rows]]
         /\ moves' \in 0 .. MaxMoves /\ (moves' = moves \/ moves' = moves + 1)
         /\ moves' = 0 => UNCHANGED <<active, rows, source>>
         /\ moves' = moves \/ Design!OperatorMoves
<1>1. CASE DesignLooks
  BY <1>1, DesignLooksFrame DEF TypeOK
<1>2. CASE Design!StartDesign \/ Design!LateStart
  BY <1>2 DEF Design!StartDesign, Design!LateStart, Design!After, Design!files, TypeOK
<1>3. CASE Design!OperatorMoves
  <2>1. active' \in Models /\ source' \in Contents /\ gateway' = gateway /\ baseline' = baseline
    BY <1>3 DEF Design!OperatorMoves, Design!Models, TypeOK, Models
  <2>2. rows' \in [Models -> [Cases -> Rows]]
    <3>1. [c \in Cases |-> "odd"] \in [Cases -> Rows]
      BY DEF Rows, ModelStates
    <3>2. \/ rows' = rows
          \/ rows' = [rows EXCEPT ![active] = [c \in Cases |-> "odd"]]
      BY <1>3 DEF Design!OperatorMoves
    <3> QED
      BY <3>1, <3>2 DEF TypeOK
  <2>3. moves' = moves + 1 /\ moves' \in 0 .. MaxMoves /\ moves' # 0
    BY <1>3, AnalysisExecutionAssumption DEF Design!OperatorMoves, TypeOK
  <2> QED
    BY <1>3, <2>1, <2>2, <2>3 DEF TypeOK
<1> QED
  BY <1>1, <1>2, <1>3, DesignKinds

LEMMA DesignTypesStep ==
  ASSUME TypeOK, DesignTypes, Design!Next
  PROVE  DesignTypes'
<1> USE DEF DesignTypes
<1>0. Models = {"scratch", "other"} /\ Design!Models = Models /\ active \in Models
  BY DEF Models, Design!Models, TypeOK
<1>1. CASE DesignLooks
  <2>1. selection' = selection /\ designs' = designs
    BY <1>1, DesignLooksFrame
  <2>2. stage' \in Design!Stages /\ outcome' \in {"none", "issued", "error"}
    BY <1>1 DEF DesignLooks, Design!Plan, Design!Bind, Design!BindsScratch, Design!Preflight,
         Design!Selection, Design!PostAvailability, Design!PostSelection, Design!Results,
         Design!Goto, Design!Fail, Design!Stages
  <2> QED
    BY <2>1, <2>2
<1>2. CASE Design!StartDesign
  <2>1. PICK r : /\ designs' = [designs EXCEPT ![active] = r]
                 /\ r \in Design!Starts(active, "b6") \cup {designs[active]}
    BY <1>2 DEF Design!StartDesign
  <2>2. r \in [Columns -> DesignRows]
    BY <2>1, <1>0, DesignsTyped
  <2>3. selection' = selection /\ stage' \in Design!Stages /\ outcome' \in {"none", "issued", "error"}
    BY <1>2 DEF Design!StartDesign, Design!Goto, Design!Fail, Design!Stages
  <2> QED
    BY <2>1, <2>2, <2>3
<1>3. CASE Design!LateStart
  <2>1. PICK r \in Design!Starts(active, "b6") : designs' = [designs EXCEPT ![active] = r]
    BY <1>3 DEF Design!LateStart
  <2>2. r \in [Columns -> DesignRows]
    BY <2>1, <1>0, DesignsTyped
  <2> QED
    BY <2>1, <2>2, <1>3 DEF Design!LateStart, Design!execution
<1>4. CASE Design!OperatorMoves
  <2>1. selection' \in [Models -> Selections]
    BY <1>4, <1>0 DEF Design!OperatorMoves
  <2>2. \/ designs' = designs
        \/ \E r : /\ designs' = [designs EXCEPT ![active] = r]
                  /\ r \in Design!Starts(active, "operator") \cup {Design!NoDesigns}
    BY <1>4 DEF Design!OperatorMoves
  <2>3. designs' \in [Models -> [Columns -> DesignRows]]
    BY <2>2, <1>0, DesignsTyped
  <2> QED
    BY <2>1, <2>3, <1>4 DEF Design!OperatorMoves, Design!execution
<1> QED
  BY <1>1, <1>2, <1>3, <1>4, DesignKinds

LEMMA StartingStep ==
  ASSUME StartingInv, Design!Next
  PROVE  StartingInv'
<1> USE DEF StartingInv
<1>1. CASE DesignLooks
  <2>1. starting' = starting
    BY <1>1, DesignLooksFrame
  <2> QED
    BY <1>1, <2>1
       DEF DesignLooks, Design!Plan, Design!Bind, Design!BindsScratch, Design!Preflight,
         Design!Selection, Design!PostAvailability, Design!PostSelection, Design!Results,
         Design!Goto, Design!Fail
<1>2. CASE Design!StartDesign
  BY <1>2 DEF Design!StartDesign, Design!Goto, Design!Fail
<1>3. CASE Design!LateStart \/ Design!OperatorMoves
  BY <1>3 DEF Design!LateStart, Design!OperatorMoves, Design!execution
<1> QED
  BY <1>1, <1>2, <1>3, DesignKinds

LEMMA OriginStep ==
  ASSUME TypeOK, DesignTypes, OriginInv, Design!Next
  PROVE  OriginInv'
<1>0. /\ active \in Models /\ "other" \in Models
      /\ DOMAIN designs = Models
      /\ \A starter : Design!Design("other", starter).model = "other"
      /\ Design!NoDesign.model = "none"
  BY DEF TypeOK, Models, DesignTypes, Design!Design, Design!NoDesign
<1>1. ASSUME NEW r, NEW starter, designs' = [designs EXCEPT ![active] = r],
             r \in Design!Starts(active, starter) \cup {designs[active], Design!NoDesigns}
      PROVE  OriginInv'
  <2>1. active = "other" => \A c \in Columns : r[c].model # "scratch"
    BY <1>0, <1>1, StartsAre DEF OriginInv, Design!NoDesigns
  <2> QED
    BY <1>0, <1>1, <2>1 DEF OriginInv
<1>2. CASE DesignLooks
  BY <1>2, DesignLooksFrame DEF OriginInv
<1>3. CASE Design!StartDesign
  <2>1. PICK r : /\ designs' = [designs EXCEPT ![active] = r]
                 /\ r \in Design!Starts(active, "b6") \cup {designs[active]}
    BY <1>3 DEF Design!StartDesign
  <2> QED
    BY <2>1, <1>1
<1>4. CASE Design!LateStart
  BY <1>4, <1>1 DEF Design!LateStart
<1>5. CASE Design!OperatorMoves
  <2>1. \/ designs' = designs
        \/ \E r : /\ designs' = [designs EXCEPT ![active] = r]
                  /\ r \in Design!Starts(active, "operator") \cup {Design!NoDesigns}
    BY <1>5 DEF Design!OperatorMoves
  <2> QED
    BY <2>1, <1>1 DEF OriginInv
<1> QED
  BY <1>2, <1>3, <1>4, <1>5, DesignKinds

\* Without a move, the preflight finds the scratch without results, and what is
\* read at the end is what StartDesign computed in between.
LEMMA DesignAloneStep ==
  ASSUME TypeOK, DesignTypes, StartingInv, DesignAloneInv, moves = 0, ElsewhereInv,
         Design!Next, moves' = 0
  PROVE  DesignAloneInv'
<1> USE DEF BeforeStart, AfterStart
<1>0. active = "scratch" /\ active' = active /\ rows' = rows
  BY DesignFrame DEF ElsewhereInv
<1>a. Design!NoDesign.model = "none"
  BY DEF Design!NoDesign
<1>e. ASSUME stage' = "ended", outcome' = "error"
      PROVE  DesignAloneInv'
  BY <1>e DEF DesignAloneInv, Design!DesignIsOwn
<1>d. UNCHANGED <<selection, designs>> => Design!Design("scratch", "b6")' = Design!Design("scratch", "b6")
  BY <1>0 DEF Design!Design
<1>g. ASSUME outcome' = outcome, outcome = "none",
             UNCHANGED <<selection, designs>>,
             planned' = IF stage = "plan" THEN selection["scratch"] ELSE planned,
             \/ stage \in BeforeStart /\ stage' \in BeforeStart
             \/ stage \in AfterStart /\ stage' \in AfterStart,
             stage' \in {"combos", "active", "start"} =>
               stage \in {"combos", "active", "start"} \/ designs["scratch"] = Design!NoDesigns
      PROVE  DesignAloneInv'
  BY <1>g, <1>d, <1>0 DEF DesignAloneInv, Design!DesignIsOwn
<1>1. CASE Design!Plan
  <2>1. outcome = "none" /\ UNCHANGED <<selection, designs>> /\ stage = "plan"
    BY <1>1, DesignLooksFrame DEF DesignLooks, Design!Plan, StartingInv, DesignTypes
  <2> QED
    BY <1>1, <2>1, <1>e, <1>g, <1>0 DEF Design!Plan, Design!Goto, Design!Fail
<1>2. CASE Design!Bind
  <2>1. outcome = "none" /\ UNCHANGED <<selection, designs, planned>>
    BY <1>2, DesignLooksFrame
       DEF DesignLooks, Design!Bind, Design!BindsScratch, StartingInv, DesignTypes
  <2> QED
    BY <1>2, <2>1, <1>e, <1>g DEF Design!Bind, Design!BindsScratch, Design!Goto, Design!Fail
<1>3. CASE Design!Preflight
  <2>1. outcome = "none" /\ UNCHANGED <<selection, designs, planned>>
    BY <1>3, DesignLooksFrame DEF DesignLooks, Design!Preflight, StartingInv, DesignTypes
  <2> QED
    BY <1>3, <2>1, <1>e, <1>g, <1>0 DEF Design!Preflight, Design!Goto, Design!Fail
<1>4. CASE Design!Selection
  <2>1. outcome = "none" /\ UNCHANGED <<selection, designs, planned>>
    BY <1>4, DesignLooksFrame DEF DesignLooks, Design!Selection, StartingInv, DesignTypes
  <2> QED
    BY <1>4, <2>1, <1>e, <1>g DEF Design!Selection, Design!Goto, Design!Fail
<1>5. CASE Design!StartDesign
  <2>1. CASE Design!Fail
    BY <2>1, <1>e DEF Design!Fail
  <2>2. CASE /\ \E r \in Design!Starts(active, "b6") : designs' = [designs EXCEPT ![active] = r]
             /\ Design!Goto("active_after")
    <3>1. PICK r \in Design!Starts(active, "b6") : designs' = [designs EXCEPT ![active] = r]
      BY <2>2
    <3>2. /\ designs["scratch"] = Design!NoDesigns /\ stage = "start"
          /\ UNCHANGED <<selection, planned>> /\ outcome = "none"
      BY <1>5 DEF Design!StartDesign, StartingInv, DesignTypes, DesignAloneInv
    <3>3. designs'["scratch"] = r
      BY <3>1, <1>0 DEF DesignTypes, Models
    <3>4. Design!Design("scratch", "b6")' = Design!Design("scratch", "b6")
      BY <1>0, <3>2 DEF Design!Design
    <3>5. \A c \in Columns : r[c] \in {Design!NoDesign, Design!Design("scratch", "b6")}
      <4>1. \A c \in Columns : r[c] \in {designs["scratch"][c], Design!Design("scratch", "b6")}
        BY <3>1, <1>0, StartsAre DEF Models
      <4> QED
        BY <4>1, <3>2 DEF Design!NoDesigns
    <3> QED
      BY <2>2, <3>2, <3>3, <3>4, <3>5 DEF DesignAloneInv, Design!Goto, Design!DesignIsOwn
  <2> QED
    BY <1>5, <2>1, <2>2 DEF Design!StartDesign
<1>6. CASE Design!PostAvailability \/ Design!PostSelection
  <2>1. outcome = "none" /\ UNCHANGED <<selection, designs, planned>>
    BY <1>6, DesignLooksFrame
       DEF DesignLooks, Design!PostAvailability, Design!PostSelection, StartingInv, DesignTypes
  <2> QED
    BY <1>6, <2>1, <1>e, <1>g
       DEF Design!PostAvailability, Design!PostSelection, Design!Goto, Design!Fail
<1>7. CASE Design!Results
  <2>1. CASE Design!Fail
    BY <2>1, <1>e DEF Design!Fail
  <2>2. CASE /\ \A c \in Columns : designs[active][c] # Design!NoDesign
             /\ captured' = designs[active] /\ stage' = "ended" /\ outcome' = "issued"
    <3>1. /\ UNCHANGED <<selection, designs, planned>> /\ stage = "results" /\ outcome = "none"
      BY <1>7, DesignLooksFrame DEF DesignLooks, Design!Results, StartingInv, DesignTypes
    <3>2. \A c \in Columns : designs["scratch"][c] = Design!Design("scratch", "b6")
      BY <2>2, <3>1, <1>0 DEF DesignAloneInv
    <3>3. designs["scratch"] = [c \in Columns |-> designs["scratch"][c]]
      BY DEF DesignTypes, Models
    <3>4. planned = selection["scratch"]
      BY <3>1 DEF DesignAloneInv
    <3>5. Design!DesignIsOwn'
      BY <3>1, <3>2, <3>3, <3>4, <2>2, <1>0 DEF Design!DesignIsOwn, Design!Design
    <3> QED
      BY <2>2, <3>1, <3>4, <3>5 DEF DesignAloneInv
  <2> QED
    BY <1>7, <2>1, <2>2 DEF Design!Results
<1>8. CASE Design!LateStart
  BY <1>8, <1>e DEF Design!LateStart, Design!execution, StartingInv
<1>9. CASE Design!OperatorMoves
  BY <1>9 DEF Design!OperatorMoves
<1> QED
  BY <1>1, <1>2, <1>3, <1>4, <1>5, <1>6, <1>7, <1>8, <1>9, DesignKinds DEF DesignLooks

\* Steps of the execution, during which at most one move was made.
LEMMA SelectedLooks ==
  ASSUME TypeOK, DesignTypes, StartingInv, OriginInv, SelectedInv, moves <= 1,
         DesignLooks \/ Design!StartDesign \/ Design!LateStart
  PROVE  SelectedInv'
<1> USE DEF SelectedInv, BeforeStart, AfterStart
<1>0. active' = active /\ selection' = selection /\ active \in Models
  BY DesignLooksFrame DEF Design!StartDesign, Design!LateStart, TypeOK
<1>e. ASSUME stage' = "ended", outcome' = "error"
      PROVE  SelectedInv'
  BY <1>e DEF Design!DesignIsSelected
<1>n. DesignLooks \/ Design!StartDesign => outcome = "none"
  BY DEF DesignLooks, Design!Plan, Design!Bind, Design!BindsScratch, Design!Preflight,
         Design!Selection, Design!PostAvailability, Design!PostSelection, Design!Results,
         Design!StartDesign, StartingInv
<1>r. designs' = designs => \A s : RowsFor(s)' <=> RowsFor(s)
  BY DEF RowsFor
<1>1. CASE Design!Plan
  BY <1>0, <1>1, <1>e, <1>n, DesignLooksFrame
     DEF DesignLooks, Design!Plan, Design!Goto, Design!Fail, Design!DesignIsSelected, RowsFor
<1>2. CASE Design!Bind \/ Design!Preflight \/ Design!PostAvailability
  <2>1. /\ UNCHANGED <<designs, planned, selected>>
    BY <1>2, DesignLooksFrame
       DEF DesignLooks, Design!Bind, Design!Preflight, Design!PostAvailability
  <2>2. \/ Design!Fail
        \/ /\ outcome' = outcome
           /\ \/ stage \in BeforeStart \ {"plan"} /\ stage' \in BeforeStart \ {"plan", "active"}
                 /\ (stage' = "start" => stage = "active")
              \/ stage \in {"active_after", "availability_after"} /\ stage' \in AfterStart \ {"results"}
    BY <1>2 DEF Design!Bind, Design!BindsScratch, Design!Preflight, Design!PostAvailability,
         Design!Goto
  <2>3. CASE Design!Fail
    BY <2>3, <1>e DEF Design!Fail
  <2> QED
    BY <2>1, <2>2, <2>3, <1>0, <1>n, <1>2 DEF RowsFor, Design!DesignIsSelected, DesignLooks
<1>3. CASE Design!Selection
  <2>1. CASE Design!Fail
    BY <2>1, <1>e DEF Design!Fail
  <2>2. CASE selected' = planned /\ Design!Goto("active")
    <3>1. UNCHANGED <<designs, planned>> /\ stage = "combos"
      BY <1>3, DesignLooksFrame DEF DesignLooks, Design!Selection
    <3> QED
      BY <2>2, <3>1, <1>0, <1>n, <1>3 DEF Design!Goto, RowsFor, Design!DesignIsSelected, DesignLooks
  <2> QED
    BY <1>3, <2>1, <2>2 DEF Design!Selection
<1>4. CASE Design!StartDesign
  <2>1. CASE Design!Fail
    BY <2>1, <1>e DEF Design!Fail
  <2>2. CASE /\ \E r \in Design!Starts(active, "b6") : designs' = [designs EXCEPT ![active] = r]
             /\ Design!Goto("active_after")
    <3>1. PICK r \in Design!Starts(active, "b6") : designs' = [designs EXCEPT ![active] = r]
      BY <2>2
    <3>2. UNCHANGED <<planned, selected>> /\ stage = "start" /\ outcome' = "none"
          /\ stage' = "active_after"
      BY <1>4, <2>2, <1>n DEF Design!StartDesign, Design!Goto
    <3>3. ASSUME active = "scratch", selection["scratch"] = planned
          PROVE  RowsFor(planned)'
      <4>1. RowsFor(planned) /\ designs'["scratch"] = r
        BY <3>1, <3>2, <3>3 DEF DesignTypes, Models
      <4>2. \A c \in Columns : r[c] \in {designs["scratch"][c], Design!Design("scratch", "b6")}
        BY <3>1, <3>3, <1>0, StartsAre
      <4>3. Design!Design("scratch", "b6").for = planned
        BY <3>3 DEF Design!Design
      <4> QED
        BY <3>2, <4>1, <4>2, <4>3 DEF RowsFor
    <3> QED
      BY <3>2, <3>3, <1>0 DEF Design!DesignIsSelected
  <2> QED
    BY <1>4, <2>1, <2>2 DEF Design!StartDesign
<1>5. CASE Design!PostSelection
  <2>1. CASE Design!Fail
    BY <2>1, <1>e DEF Design!Fail
  <2>2. CASE selection[active] = selected /\ Design!Goto("results")
    <3>1. UNCHANGED <<designs, planned, selected>> /\ stage = "combos_after"
      BY <1>5, DesignLooksFrame DEF DesignLooks, Design!PostSelection
    <3> QED
      BY <2>2, <3>1, <1>0, <1>n, <1>5 DEF Design!Goto, RowsFor, Design!DesignIsSelected, DesignLooks
  <2> QED
    BY <1>5, <2>1, <2>2 DEF Design!PostSelection
<1>6. CASE Design!Results
  <2>1. CASE Design!Fail
    BY <2>1, <1>e DEF Design!Fail
  <2>2. CASE captured' = designs[active] /\ stage' = "ended" /\ outcome' = "issued"
    <3>1. planned' = planned /\ stage = "results"
      BY <1>6 DEF Design!Results
    <3>2. \A c \in Columns : designs[active][c].model = "scratch" => designs[active][c].for = planned
      BY <3>1, <1>0 DEF RowsFor, OriginInv, Models
    <3> QED
      BY <2>2, <3>1, <3>2 DEF Design!DesignIsSelected
  <2> QED
    BY <1>6, <2>1, <2>2 DEF Design!Results
<1>7. CASE Design!LateStart
  BY <1>7, <1>e DEF Design!LateStart, Design!execution, StartingInv
<1> QED
  BY <1>1, <1>2, <1>3, <1>4, <1>5, <1>6, <1>7 DEF DesignLooks

\* The operator's first move: whatever it does, one of the two comparisons of the
\* selection, or the model that is active, is against it.
LEMMA SelectedMoves ==
  ASSUME TypeOK, DesignTypes, StartingInv, DesignAloneInv, SelectedInv, moves = 0, ElsewhereInv,
         Design!OperatorMoves
  PROVE  SelectedInv'
<1> USE DEF BeforeStart, AfterStart
<1>0. /\ active = "scratch" /\ "scratch" \in Models
      /\ stage \in BeforeStart \cup AfterStart /\ outcome = "none"
      /\ UNCHANGED <<stage, planned, selected, captured, outcome>>
  BY DEF ElsewhereInv, Models, Design!OperatorMoves, Design!execution, StartingInv, DesignTypes,
         Design!Stages
<1>1. stage # "plan" => planned = selection["scratch"]
  BY <1>0 DEF DesignAloneInv
<1>2. (stage = "plan" => RowsFor(selection["scratch"])) /\ (stage # "plan" => RowsFor(planned))
  BY <1>0, <1>1 DEF SelectedInv
<1>3. stage \in {"active", "start"} \cup AfterStart => selected = planned
  BY DEF SelectedInv
<1>i. Design!DesignIsSelected'
  BY <1>0 DEF Design!DesignIsSelected
<1>4. CASE active' # "scratch"
  BY <1>0, <1>3, <1>4, <1>i DEF SelectedInv
<1>5. CASE /\ selection' \in {[selection EXCEPT ![active] = s] : s \in Selections \ {selection[active]}}
           /\ designs' = designs
  <2>1. selection'["scratch"] # selection["scratch"]
    BY <1>0, <1>5 DEF DesignTypes
  <2>2. stage = "plan" => \A s : RowsFor(s)'
    BY <1>0, <1>5 DEF DesignAloneInv, RowsFor
  <2>3. RowsFor(planned)' <=> RowsFor(planned)
    BY <1>0, <1>5 DEF RowsFor
  <2> QED
    BY <1>0, <1>1, <1>2, <1>3, <1>i, <2>1, <2>2, <2>3 DEF SelectedInv
<1>6. CASE /\ designs' = [designs EXCEPT ![active] = Design!NoDesigns]
           /\ selection' = selection
  <2>1. \A s : RowsFor(s)'
    BY <1>0, <1>6 DEF DesignTypes, RowsFor, Design!NoDesigns, Design!NoDesign
  <2> QED
    BY <1>0, <1>3, <1>i, <2>1 DEF SelectedInv
<1>7. CASE /\ \E r \in Design!Starts(active, "operator") : designs' = [designs EXCEPT ![active] = r]
           /\ selection' = selection
  <2>1. PICK r \in Design!Starts(active, "operator") : designs' = [designs EXCEPT ![active] = r]
    BY <1>7
  <2>2. designs'["scratch"] = r
    BY <1>0, <2>1 DEF DesignTypes
  <2>3. \A c \in Columns : r[c] \in {designs["scratch"][c], Design!Design("scratch", "operator")}
    BY <1>0, <2>1, StartsAre
  <2>4. Design!Design("scratch", "operator").for = selection["scratch"]
    BY DEF Design!Design
  <2>5. RowsFor(selection["scratch"])'
    BY <1>1, <1>2, <1>7, <2>2, <2>3, <2>4 DEF RowsFor
  <2> QED
    BY <1>0, <1>1, <1>3, <1>7, <1>i, <2>5 DEF SelectedInv, RowsFor
<1>8. CASE UNCHANGED <<active, selection, designs>>
  BY <1>0, <1>8, <1>i DEF SelectedInv, RowsFor
<1> QED
  BY <1>0, <1>4, <1>5, <1>6, <1>7, <1>8 DEF Design!OperatorMoves, Design!Models

LEMMA DesignStep ==
  ASSUME AnalysisInv, DesignInv, Design!Next, result' = result
  PROVE  DesignInv'
<1> USE DEF DesignInv, AnalysisInv
<1>0. moves \in Nat /\ moves' \in Nat /\ (moves' = moves \/ moves' = moves + 1)
  BY DesignFrame DEF TypeOK
<1>1. DesignTypes' /\ StartingInv' /\ OriginInv'
  BY DesignTypesStep, StartingStep, OriginStep
<1>2. DesignAloneInv'
  <2>1. CASE moves' = 0
    BY <2>1, <1>0, DesignAloneStep DEF AloneInv
  <2>2. CASE moves' # 0
    BY <2>2 DEF DesignAloneInv
  <2> QED
    BY <2>1, <2>2
<1>3. SelectedInv'
  <2>1. CASE moves' <= 1 /\ (DesignLooks \/ Design!StartDesign \/ Design!LateStart)
    BY <2>1, <1>0, SelectedLooks
  <2>2. CASE moves' <= 1 /\ Design!OperatorMoves
    <3>1. moves = 0
      BY <2>2, <1>0 DEF Design!OperatorMoves
    <3> QED
      BY <2>2, <3>1, SelectedMoves DEF AloneInv
  <2>3. CASE ~(moves' <= 1)
    BY <2>3 DEF SelectedInv
  <2> QED
    BY <2>1, <2>2, <2>3, DesignKinds
<1> QED
  BY <1>1, <1>2, <1>3

--------------------------------------------------------------------------------
(* The pipeline.                                                           *)

LEMMA PipelineBegins == PipelineInit => PipelineInv
<1> SUFFICES ASSUME PipelineInit
             PROVE  PipelineInv
  OBVIOUS
<1>1. Scratch!TypeOK /\ HeadInv /\ Proof!IInv
  BY CreationBegins DEF PipelineInit
<1>2. phase = "scratch" /\ InitExecution /\ BeforeDesign
  BY DEF PipelineInit, BeforeDesign
<1> QED
  BY <1>1, <1>2 DEF PipelineInv

\* The variables of a phase that has not begun stay as they were.
LEMMA StillToBegin ==
  ASSUME InitExecution, UNCHANGED analysing
  PROVE  InitExecution'
  BY DEF InitExecution, analysing, facts, restoration

LEMMA DesignToBegin ==
  ASSUME BeforeDesign, UNCHANGED designing
  PROVE  BeforeDesign'
  BY DEF BeforeDesign, designing

LEMMA CreateStep ==
  ASSUME PipelineInv, Create
  PROVE  PipelineInv'
<1>1. Scratch!TypeOK' /\ HeadInv' /\ Proof!IInv'
  BY CreationTypes, CreationSteps DEF PipelineInv, Create
<1>2. phase = "scratch" /\ phase' = phase /\ UNCHANGED <<analysing, designing>>
  BY DEF Create
<1>3. InitExecution' /\ BeforeDesign'
  BY <1>2, StillToBegin, DesignToBegin DEF PipelineInv
<1> QED
  BY <1>1, <1>2, <1>3 DEF PipelineInv

LEMMA CreationStays ==
  ASSUME Scratch!TypeOK, HeadInv, Proof!IInv, UNCHANGED <<vars, copying>>
  PROVE  Scratch!TypeOK' /\ HeadInv' /\ Proof!IInv'
<1>0. UNCHANGED <<active, gateway, source, moves, baseline, at, head, pre, scratch, opening, cleanup>>
  BY DEF vars, etabs, outside, copying
<1>1. Proof!IInv'
  BY <1>0, Proof!StepPreserves DEF Proof!vars, Proof!creation
<1>2. Scratch!TypeOK' /\ HeadInv'
  BY <1>0 DEF Scratch!TypeOK, HeadInv
<1> QED
  BY <1>1, <1>2

LEMMA AnalysisStays ==
  ASSUME AnalysisInv, UNCHANGED vars
  PROVE  AnalysisInv'
<1>0. UNCHANGED <<active, flags, rows, state, gateway, late, source, baseline, moves, requested, found,
                  removed, step, snapshot, enabled, post, recreation, used, plan, goal, undone,
                  result, status>>
  BY DEF vars, etabs, outside, facts, restoration
<1>1. Execution' = Execution /\ Retirements' = Retirements
  BY <1>0 DEF Execution, Dependencies, Retirements, SpectraRequested
<1>2. TypeOK'
  BY <1>0, <1>1 DEF AnalysisInv, TypeOK
<1>3. (LateInv /\ ResultInv /\ PlanInv /\ GoalInv /\ ScopeInv)'
  BY <1>0, <1>1 DEF AnalysisInv, LateInv, ResultInv, PlanInv, GoalInv, ScopeInv
<1>4. Configured' = Configured /\ Finished("scratch")' = Finished("scratch") /\ RowsBefore' = RowsBefore
  BY <1>0, <1>1 DEF Configured, Finished, RowsBefore
<1>5. (ElsewhereInv <=> ElsewhereInv') /\ (ConfiguredInv <=> ConfiguredInv')
  BY <1>0, <1>1, <1>4 DEF ElsewhereInv, ConfiguredInv
<1>6. (GeneratedInv <=> GeneratedInv') /\ (FoundInv <=> FoundInv')
      /\ (NotRequiredBoundsDamage <=> NotRequiredBoundsDamage')
  BY <1>0, <1>1, <1>4 DEF GeneratedInv, Generated, FoundInv, FlagsAsFound, NotRequiredBoundsDamage
<1>7. AloneInv'
  BY <1>0, <1>5, <1>6 DEF AnalysisInv, AloneInv
<1>8. OwnInv'
  BY <1>0 DEF AnalysisInv, OwnInv, UsedOwn
<1> QED
  BY <1>2, <1>3, <1>7, <1>8 DEF AnalysisInv

LEMMA DesignStays ==
  ASSUME DesignInv, UNCHANGED <<vars, designing>>
  PROVE  DesignInv'
<1>0. /\ UNCHANGED <<active, rows, moves, result>>
      /\ UNCHANGED <<selection, designs, starting, stage, planned, selected, captured, outcome>>
  BY DEF vars, etabs, outside, designing
<1>1. (DesignTypes /\ StartingInv /\ OriginInv)'
  BY <1>0 DEF DesignInv, DesignTypes, StartingInv, OriginInv
<1>2. DesignAloneInv'
  BY <1>0 DEF DesignInv, DesignAloneInv, Design!DesignIsOwn, Design!Design
<1>3. SelectedInv'
  BY <1>0 DEF DesignInv, SelectedInv, Design!DesignIsSelected, RowsFor
<1> QED
  BY <1>0, <1>1, <1>2, <1>3 DEF DesignInv

LEMMA PipelineStays ==
  ASSUME PipelineInv, UNCHANGED pipeline
  PROVE  PipelineInv'
<1>0. /\ UNCHANGED <<vars, copying, designing>> /\ UNCHANGED analysing
      /\ UNCHANGED <<phase, outcome, cleanup, at, baseline, moves, scratch, source>>
  BY DEF pipeline, vars, etabs, outside, copying, designing, analysing
<1>1. Scratch!TypeOK' /\ HeadInv' /\ Proof!IInv'
  BY <1>0, CreationStays DEF PipelineInv
<1>2. phase = "scratch" => InitExecution'
  BY <1>0, StillToBegin DEF PipelineInv
<1>3. phase # "scratch" => AnalysisInv' /\ IssuedInv'
  BY <1>0, AnalysisStays DEF PipelineInv, IssuedInv
<1>4. phase = "design" => DesignInv'
  BY <1>0, DesignStays DEF PipelineInv
<1>5. phase # "design" => BeforeDesign'
  BY <1>0, DesignToBegin DEF PipelineInv
<1> QED
  BY <1>0, <1>1, <1>2, <1>3, <1>4, <1>5 DEF PipelineInv

LEMMA EstablishStep ==
  ASSUME PipelineInv, Establish
  PROVE  PipelineInv'
<1>0. /\ phase = "scratch" /\ phase' = "analysis" /\ cleanup = "issued"
      /\ gateway = "serving" /\ active = "scratch" /\ source = baseline
      /\ InitExecution /\ BeforeDesign /\ Scratch!TypeOK /\ HeadInv /\ Proof!IInv
  BY DEF PipelineInv, Establish
<1>1. source \in Contents /\ moves \in 0 .. MaxMoves
  BY <1>0, PipelineAssumption DEF Scratch!TypeOK
<1>2. AnalysisInv
  BY <1>0, <1>1, AnalysisBegins
<1>3. IssuedInv
  BY <1>0, <1>1 DEF IssuedInv, Proof!IInv, Proof!CleanupInv, Proof!CopyInv
<1>4. UNCHANGED <<vars, copying, designing>>
  BY DEF Establish
<1>5. Scratch!TypeOK' /\ HeadInv' /\ Proof!IInv'
  BY <1>0, <1>4, CreationStays
<1>6. AnalysisInv'
  BY <1>2, <1>4, AnalysisStays
<1>7. IssuedInv' /\ BeforeDesign'
  BY <1>0, <1>3, <1>4, DesignToBegin DEF IssuedInv, vars, etabs, outside, copying
<1> QED
  BY <1>0, <1>5, <1>6, <1>7 DEF PipelineInv

\* What was issued stays as it is while the later executions run.
LEMMA CreationOutlasts ==
  ASSUME PipelineInv, phase # "scratch", UNCHANGED <<copying, baseline>>,
         active' \in Models, gateway' \in {"serving", "failed"}, source' \in Contents,
         moves' \in 0 .. MaxMoves, moves' = moves \/ moves' = moves + 1,
         moves' = 0 => source' = source
  PROVE  Scratch!TypeOK' /\ HeadInv' /\ Proof!IInv' /\ IssuedInv'
<1>0. /\ UNCHANGED <<at, head, pre, scratch, opening, cleanup>>
      /\ Scratch!TypeOK /\ Proof!IInv /\ IssuedInv /\ moves \in Nat
  BY DEF PipelineInv, copying, Proof!IInv, Proof!ReadInv
<1>1. Scratch!TypeOK' /\ HeadInv'
  BY <1>0, PipelineAssumption DEF Scratch!TypeOK, HeadInv, IssuedInv, Models
<1>2. source'.tail = source'.head
  BY PipelineAssumption DEF Scratch!Whole, Scratch!Absent
<1>3. scratch = pre /\ scratch = baseline /\ moves >= 5 * Proof!Mixed(pre)
  BY <1>0 DEF Proof!IInv, Proof!CopyInv, IssuedInv
<1>4. Proof!Mixed(pre) \in {0, 1} /\ Proof!Mixed(pre)' = Proof!Mixed(pre)
  BY <1>0 DEF Proof!Mixed, Proof!Differ
<1>5. Proof!CleanupInv' /\ Proof!ReadInv'
  BY <1>0, <1>2 DEF Proof!IInv, Proof!CleanupInv, Proof!ReadInv, IssuedInv
<1>6. Proof!CopyInv'
  BY <1>0, <1>3, <1>4 DEF Proof!CopyInv, IssuedInv
<1>7. IssuedInv'
  BY <1>0 DEF IssuedInv
<1> QED
  BY <1>1, <1>5, <1>6, <1>7 DEF Proof!IInv

LEMMA AnalyseStep ==
  ASSUME PipelineInv, Analyse
  PROVE  PipelineInv'
<1>0. /\ phase = "analysis" /\ phase' = phase /\ UNCHANGED <<copying, designing>>
      /\ AnalysisInv /\ BeforeDesign /\ Next
  BY DEF Analyse, PipelineInv
<1>1. AnalysisInv'
  BY <1>0, AnalysisStep
<1>2. /\ baseline' = baseline /\ (moves' = moves \/ moves' = moves + 1)
      /\ moves' = moves => source' = source
  BY <1>0, Kinds, LooksFrame, ActsFrame DEF AnalysisInv, TypeOK, LateCall, OperatorMoves, outside
<1>3. /\ active' \in Models /\ gateway' \in {"serving", "failed"} /\ source' \in Contents
      /\ moves' \in 0 .. MaxMoves /\ (moves' = 0 => moves' = moves)
  BY <1>0, <1>1, <1>2 DEF AnalysisInv, TypeOK
<1>4. Scratch!TypeOK' /\ HeadInv' /\ Proof!IInv' /\ IssuedInv'
  BY <1>0, <1>2, <1>3, CreationOutlasts
<1> QED
  BY <1>0, <1>1, <1>4, DesignToBegin DEF PipelineInv

\* The design finds no row of the scratch in ETABS, nor one of a selection made there.
LEMMA DesignBegins ==
  ASSUME PipelineInv, BeginDesign
  PROVE  DesignInv'
<1>0. /\ selection' \in [Models -> Selections] /\ designs' \in Design!DesignsBefore
      /\ result = "issued" /\ BeforeDesign /\ AnalysisInv
      /\ UNCHANGED <<vars, starting, stage, planned, selected, captured, outcome>>
  BY DEF BeginDesign, PipelineInv
<1>1. /\ rows \in [Models -> [Cases -> Rows]] /\ UNCHANGED <<result, moves, active, rows>>
      /\ stage' = "plan" /\ ~starting' /\ outcome' = "none"
  BY <1>0 DEF AnalysisInv, TypeOK, vars, etabs, outside, BeforeDesign
<1>2. Design!Design("other", "operator") \in DesignRows
  <2>1. \E s : s \in Selections
    BY <1>0 DEF Models
  <2>2. (CHOOSE s \in Selections : TRUE) \in Selections
    BY <2>1
  <2>3. selection["other"] \in Selections
    BY <2>2, <1>0 DEF BeforeDesign, Models
  <2> QED
    BY <2>3, <1>1 DEF Design!Design, DesignRows, Models
<1>3. PICK r : /\ designs' = [m \in Models |-> r]
               /\ r \in {Design!NoDesigns, [c \in Columns |-> Design!Design("other", "operator")]}
  BY <1>0 DEF Design!DesignsBefore, Design!Models, Models
<1>4. r \in [Columns -> DesignRows] /\ \A c \in Columns : r[c].model # "scratch"
  BY <1>2, <1>3 DEF Design!NoDesigns, Design!NoDesign, Design!Design, DesignRows
<1>5. /\ designs' \in [Models -> [Columns -> DesignRows]]
      /\ \A m \in Models, c \in Columns : designs'[m][c].model # "scratch"
  BY <1>3, <1>4
<1>6. (DesignTypes /\ StartingInv /\ OriginInv)'
  BY <1>0, <1>1, <1>5 DEF DesignTypes, StartingInv, OriginInv, Design!Stages, Models
<1>7. DesignAloneInv'
  BY <1>1, <1>5 DEF DesignAloneInv, BeforeStart, AfterStart, Design!DesignIsOwn, Models
<1>8. SelectedInv'
  BY <1>1, <1>5 DEF SelectedInv, BeforeStart, AfterStart, RowsFor, Design!DesignIsSelected, Models
<1> QED
  BY <1>0, <1>1, <1>6, <1>7, <1>8 DEF DesignInv

LEMMA BeginDesignStep ==
  ASSUME PipelineInv, BeginDesign
  PROVE  PipelineInv'
<1>0. /\ phase = "analysis" /\ phase' = "design" /\ UNCHANGED <<vars, copying>>
      /\ AnalysisInv /\ IssuedInv /\ Scratch!TypeOK /\ HeadInv /\ Proof!IInv
  BY DEF BeginDesign, PipelineInv
<1>1. AnalysisInv' /\ Scratch!TypeOK' /\ HeadInv' /\ Proof!IInv'
  BY <1>0, AnalysisStays, CreationStays
<1>2. IssuedInv'
  BY <1>0 DEF IssuedInv, vars, etabs, outside, copying
<1> QED
  BY <1>0, <1>1, <1>2, DesignBegins DEF PipelineInv

LEMMA PerformStep ==
  ASSUME PipelineInv, Perform
  PROVE  PipelineInv'
<1>0. /\ phase = "design" /\ phase' = phase /\ Design!Next
      /\ UNCHANGED <<copying, flags, state, late, requested, found, removed, step, facts,
                     restoration, result, status>>
      /\ AnalysisInv /\ IssuedInv /\ DesignInv /\ result = "issued"
  BY DEF Perform, PipelineInv, DesignInv
<1>1. DesignInv'
  BY <1>0, DesignStep
<1>2. /\ active' \in Models /\ gateway' \in {"serving", "failed"} /\ source' \in Contents
      /\ baseline' = baseline
      /\ rows' \in [Models -> [Cases -> Rows]]
      /\ moves' \in 0 .. MaxMoves /\ (moves' = moves \/ moves' = moves + 1)
      /\ moves' = 0 => UNCHANGED <<active, rows, source>>
  BY <1>0, DesignFrame DEF AnalysisInv, DesignInv
<1>3. AnalysisInv'
  BY <1>0, <1>2, AnalysisOutlasts
<1>4. Scratch!TypeOK' /\ HeadInv' /\ Proof!IInv' /\ IssuedInv'
  BY <1>0, <1>2, CreationOutlasts
<1> QED
  BY <1>0, <1>1, <1>3, <1>4 DEF PipelineInv

LEMMA PipelineStep == PipelineInv /\ [PipelineNext]_pipeline => PipelineInv'
  BY CreateStep, EstablishStep, AnalyseStep, BeginDesignStep, PerformStep, PipelineStays
     DEF PipelineNext

THEOREM PipelineInvariant == PipelineSpec => []PipelineInv
<1> QED
  BY PipelineBegins, PipelineStep, PTL DEF PipelineSpec

--------------------------------------------------------------------------------
(* Theorems, for any cases, scopes, columns, selections and versions of    *)
(* the source, and any number of moves of the operator's.                  *)

\* ScratchPipeline!PipelineTypeOK: every variable has its type, through all phases.
THEOREM PipelineTypes == PipelineSpec => []PipelineTypeOK
<1>1. PipelineInv => PipelineTypeOK
  BY DEF PipelineInv, PipelineTypeOK, AnalysisInv
<1> QED
  BY <1>1, PipelineInvariant, PTL

\* ScratchPipeline!ScratchIsExactCopy: what B4S issued is an exact copy, and stays one
\* while B4B, B5 and B6 work on it (etabs_scratch_lifecycle.py, 459-579).
THEOREM PipelineScratchIsExact == PipelineSpec => []ScratchIsExactCopy
<1>1. ASSUME PipelineInv, cleanup = "issued"
      PROVE  /\ scratch = pre /\ scratch = baseline
             /\ moves < 5 => scratch.head = scratch.tail
  <2>1. scratch = pre /\ scratch = baseline /\ moves >= 5 * Proof!Mixed(pre) /\ moves \in Nat
    BY <1>1 DEF PipelineInv, Proof!IInv, Proof!CopyInv, Proof!ReadInv
  <2>2. Proof!Mixed(pre) \in {0, 1} /\ (Proof!Mixed(pre) = 0 <=> pre.head = pre.tail)
    BY DEF Proof!Mixed, Proof!Differ
  <2> QED
    BY <2>1, <2>2, SMT
<1>2. PipelineInv => ScratchIsExactCopy
  BY <1>1 DEF ScratchIsExactCopy, Scratch!ScratchIsExactCopy
<1> QED
  BY <1>2, PipelineInvariant, PTL

\* ScratchPipeline!CleanupIsTruthful: how the creation ended is what is on the disk
\* (_failure, 312-328), whatever follows.
THEOREM PipelineCleanupIsTruthful == PipelineSpec => []CleanupIsTruthful
<1>1. PipelineInv => CleanupIsTruthful
  BY DEF PipelineInv, Proof!IInv, Proof!CleanupInv, CleanupIsTruthful, Scratch!CleanupIsTruthful,
         Scratch!Absent, Proof!Absent, Scratch!Whole, Proof!Whole
<1> QED
  BY <1>1, PipelineInvariant, PTL

\* The invariant holds of an analysis that has begun, and before that it has issued
\* nothing and failed at nothing.
LEMMA PipelineAnalysis ==
  ASSUME PipelineInv
  PROVE  AnalysisInv \/ (step = "bind" /\ result = "none" /\ status = "none")
  BY DEF PipelineInv, InitExecution

\* AnalysisExecution!IssuedIsOwn: up to one move of the operator's, at any time, no
\* qualified result has a row that was not computed in this execution from the
\* established scratch (execute_controlled_analysis, 1655, 1980 and 2228).
THEOREM PipelineIssuedIsOwn == PipelineSpec => [](moves <= 1 => IssuedIsOwn)
<1>1. PipelineInv => (moves <= 1 => IssuedIsOwn)
  BY PipelineAnalysis, AnalysisSays DEF IssuedIsOwn
<1> QED
  BY <1>1, PipelineInvariant, PTL

\* AnalysisExecution!IssuedLeavesScope: without a move, what a qualified result leaves
\* is exactly what it declares (2134-2165, 2235-2265).
THEOREM PipelineIssuedLeavesScope == PipelineSpec => []IssuedLeavesScope
<1>1. PipelineInv => IssuedLeavesScope
  BY PipelineAnalysis, AnalysisSays DEF IssuedLeavesScope
<1> QED
  BY <1>1, PipelineInvariant, PTL

\* AnalysisExecution!RestoredIsTruthful: an error that calls the flags restored has
\* restored them, for every handler and every answer of ETABS (1182-1305).
THEOREM PipelineRestoredIsTruthful == PipelineSpec => []RestoredIsTruthful
<1>1. PipelineInv => RestoredIsTruthful
  BY PipelineAnalysis, AnalysisSays DEF RestoredIsTruthful
<1> QED
  BY <1>1, PipelineInvariant, PTL

\* AnalysisExecution!NotRequiredBoundsDamage: an error that calls the restoration not
\* required has deleted no result and run no analysis (1807).
THEOREM PipelineNotRequired == PipelineSpec => []NotRequiredBoundsDamage
<1>1. PipelineInv => NotRequiredBoundsDamage
  BY PipelineAnalysis, AnalysisSays DEF NotRequiredBoundsDamage
<1> QED
  BY <1>1, PipelineInvariant, PTL

\* AnalysisExecution!RunsFreshScope: without a move, the analysis runs on exactly the
\* configured cases of the established scratch, all of them without a row (1842-1976).
THEOREM PipelineRunsFresh == PipelineSpec => RunsFreshScope
<1>1. ASSUME PipelineInv, step = "run", moves = 0
      PROVE  /\ active = "scratch"
             /\ flags["scratch"] = Configured
             /\ \A c \in Cases : rows["scratch"][c] = "none"
             /\ state["scratch"] = "established"
  <2>1. ElsewhereInv /\ ConfiguredInv
    BY <1>1, PipelineAnalysis DEF AnalysisInv, AloneInv
  <2> QED
    BY <1>1, <2>1 DEF ElsewhereInv, ConfiguredInv, Models
<1> QED
  BY <1>1, PipelineInvariant, PTL DEF RunsFreshScope

\* ScratchPipeline!DesignIsOwn: without a move, the rows of an issued design were
\* computed by its own StartDesign, from the analysis and for the selection the
\* scratch still has (etabs_controlled_design_execution.py, 255-266).
THEOREM PipelineDesignIsOwn == PipelineSpec => []DesignIsOwn
<1>1. PipelineInv => DesignIsOwn
  BY DEF PipelineInv, BeforeDesign, DesignInv, DesignAloneInv, DesignIsOwn, Design!DesignIsOwn
<1> QED
  BY <1>1, PipelineInvariant, PTL

\* ScratchPipeline!DesignIsSelected: up to one move, no row of the scratch is of
\* another selection than the design state's (268-279, 331-338).
THEOREM PipelineDesignIsSelected == PipelineSpec => [](moves <= 1 => DesignIsSelected)
<1>1. PipelineInv => (moves <= 1 => DesignIsSelected)
  BY DEF PipelineInv, BeforeDesign, DesignInv, SelectedInv, DesignIsSelected, Design!DesignIsSelected
<1> QED
  BY <1>1, PipelineInvariant, PTL

\* ScratchPipeline!DesignRestsOnAnalysis: from end to end, without a move, a design rests
\* on exactly the cases of the analysis's scope, of the established state, of an
\* exact copy of the source.
THEOREM PipelineDesignRests == PipelineSpec => []DesignRestsOnAnalysis
<1>1. ASSUME PipelineInv, outcome = "issued", moves = 0
      PROVE  DesignRestsOnAnalysis
  <2>1. phase = "design" /\ AnalysisInv /\ IssuedInv /\ DesignInv
    BY <1>1 DEF PipelineInv, BeforeDesign
  <2>2. result = "issued" /\ step = "done" /\ GeneratedInv
    BY <1>1, <2>1 DEF DesignInv, AnalysisInv, ResultInv, AloneInv
  <2>3. \A c \in Cases :
          rows["scratch"][c] = IF c \in Execution \cup DOMAIN removed THEN "established" ELSE "none"
    <3>1. /\ \A c \in Cases :
               /\ rows["scratch"][c] \in {"none", "established"}
               /\ rows["scratch"][c] # "none" => c \in DOMAIN flags["scratch"] \cup DOMAIN removed
          /\ post = Finished("scratch")
          /\ DOMAIN removed \subseteq post /\ post \subseteq Execution \cup DOMAIN removed
          /\ Execution \subseteq post
      BY <2>2 DEF GeneratedInv, Generated
    <3> QED
      BY <3>1 DEF Finished
  <2>4. rows["scratch"] = [c \in Cases |-> rows["scratch"][c]]
    BY <2>1 DEF AnalysisInv, TypeOK, Models
  <2>5. \A column \in Columns : captured[column].of = rows["scratch"]
    BY <1>1, <2>1 DEF DesignInv, DesignAloneInv, Design!DesignIsOwn
  <2>6. scratch = source
    BY <1>1, <2>1 DEF IssuedInv
  <2> QED
    BY <2>3, <2>4, <2>5, <2>6 DEF DesignRestsOnAnalysis
<1>2. PipelineInv => DesignRestsOnAnalysis
  BY <1>1 DEF DesignRestsOnAnalysis
<1> QED
  BY <1>2, PipelineInvariant, PTL

====
