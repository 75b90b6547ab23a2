----------------------------- MODULE AnalysisExecution -----------------------------
(***************************************************************************)
(* execute_controlled_analysis (B5, in                                     *)
(* integration/etabs_analysis_execution.py): on the owned scratch whose    *)
(* modifiers B4B established, the run flags of the load cases are narrowed *)
(* to the requested scope, every result is deleted, the analysis is run,   *)
(* its results are read, and the run flags are put back.                   *)
(*                                                                         *)
(* ETABS manages some load cases by itself: RunAnalysis retires cases, and *)
(* brings back cases the unlocking of B4B had removed.  The restoration    *)
(* has to tell those from cases that were lost.                            *)
(*                                                                         *)
(* A step is one call on the gateway session, or a few reads between which *)
(* nothing of the code is done.  As in ModifierMutation a call may fail    *)
(* after ETABS did it, or hang and be done later, and the operator works   *)
(* in the same ETABS.  Types and bindings of the arguments are checked     *)
(* before the first call and left out.                                     *)
(***************************************************************************)
EXTENDS Naturals, FiniteSets

CONSTANTS
  Cases,     \* names of load cases
  Spectra,   \* the response-spectrum cases among them
  ModalOf,   \* the modal case each of those depends on
  Needed,    \* cases whose runtime slot makes them dependencies of every run
  Managed,   \* cases whose runtime slot lets RunAnalysis retire them
  Recreated, \* cases an unlock removes and RunAnalysis brings back
  Before,    \* the run flags of the scratch before B4B
  Scopes,    \* the sets of cases that may be requested
  Contents,  \* versions of the source file
  MaxMoves   \* bound: what the operator does during the execution

ASSUME AnalysisExecutionAssumption ==
  /\ Cases \cap {"off", "delete", "run"} = {}  \* these name calls for all cases
  /\ Spectra \subseteq Cases
  /\ ModalOf \in [Spectra -> Cases]
  /\ Needed \subseteq Cases
  /\ Managed \subseteq Cases
  /\ Needed \cap Managed = {}
  /\ Recreated \subseteq Cases
  /\ Before \in [Cases -> BOOLEAN]
  /\ Scopes \subseteq (SUBSET Cases) \ {{}}
  /\ MaxMoves \in Nat

VARIABLES
  active,    \* the model open in ETABS
  flags,     \* the run flag of each load case a model has
  rows,      \* the results of each case in each model
  state,     \* the modifiers of each model
  gateway,   \* whether the session still serves calls
  late,      \* hung calls that ETABS has still to do
  source,    \* the bytes of the protected source file
  baseline,  \* its bytes when the scratch was issued (source_post)
  moves,     \* what the operator did so far
  requested, \* the cases whose results are wanted
  found,     \* the run flags of the scratch after B4B
  removed,   \* the flags, before B4B's unlock, of the cases it removed
  step,      \* where the execution stands
  snapshot,  \* run_flags_before
  enabled,   \* execution cases whose flag was set
  post,      \* the cases post_case_status found finished
  recreation,\* the flags of runtime_case_recreation
  used,      \* the results read as populations
  plan,      \* the arguments of _restore_run_flags
  goal,      \* the flags it restores
  undone,    \* cases it has still to set
  result,    \* "none", then "issued" or "error"
  status     \* the restoration status

etabs == <<active, flags, rows, state, gateway, late>>
outside == <<source, baseline, moves, requested, found, removed>>
facts == <<snapshot, enabled, post, recreation, used>>
restoration == <<plan, goal, undone>>
vars == <<etabs, outside, step, facts, restoration, result, status>>

\* Besides the scratch there is another model, as the source it was copied from.
Models == {"scratch", "other"}
ModelStates == {"established", "odd"}

\* The results of a case: none, rows from before this execution, or rows
\* computed since then from a state of the model.
Rows == {"none", "stale"} \cup ModelStates

Calls == {"off", "delete", "run"} \cup Cases

Status == {"none", "unreported", "NOT_REQUIRED", "RESTORED",
           "RESTORED_WITH_DECLARED_RETIREMENTS",
           "RESTORED_WITH_EXACT_RUNTIME_RECREATIONS", "FAILED", "BLOCKED_UNSAFE"}

Restored == {"RESTORED", "RESTORED_WITH_DECLARED_RETIREMENTS",
             "RESTORED_WITH_EXACT_RUNTIME_RECREATIONS"}

Steps == {"bind", "source_pre", "state1_bind", "state1_read", "snapshot", "universe",
          "resolve", "all_off", "enable", "verify", "delete", "cleared", "state2_bind",
          "state2_read", "run", "post", "recreation", "readiness", "populations",
          "state3_bind", "state3_read", "restore", "restore_read", "restore_off",
          "restore_on", "restore_verify", "final_bind", "final_source", "qualify", "done"}

\* Run flags of some cases.
Flags == UNION {[S -> BOOLEAN] : S \in SUBSET Cases}
NoFlags == [c \in {} |-> FALSE]

\* As the establishment of the analysis state left ETABS.
InitExecution ==
  /\ requested \in Scopes
  /\ \E S \in {{}, Recreated} :
       /\ removed = [c \in S |-> Before[c]]
       /\ found = [c \in Cases \ S |-> Before[c]]
  /\ flags = [m \in Models |-> IF m = "scratch" THEN found ELSE [c \in Cases |-> TRUE]]
  /\ rows = [m \in Models |-> [c \in Cases |-> IF c \in DOMAIN flags[m] THEN "stale" ELSE "none"]]
  /\ state = [m \in Models |-> IF m = "scratch" THEN "established" ELSE "odd"]
  /\ late = {}
  /\ step = "bind"
  /\ snapshot = NoFlags
  /\ enabled = {}
  /\ post = {}
  /\ recreation = NoFlags
  /\ used = [c \in Cases |-> "none"]
  /\ plan = [why |-> "none", retired |-> {}, exact |-> FALSE, recreated |-> NoFlags]
  /\ goal = NoFlags
  /\ undone = {}
  /\ result = "none"
  /\ status = "none"

Init ==
  /\ active \in Models
  /\ gateway = "serving"
  /\ baseline \in Contents
  /\ source = baseline
  /\ moves = 0
  /\ InitExecution

--------------------------------------------------------------------------------
(* The scope: _resolve_runtime_execution_scope.                            *)

\* The response-spectrum cases are asked for, which must be all or none.
SpectraRequested == requested \cap Spectra # {}

Dependencies ==
  LET modal == {ModalOf[c] : c \in requested \cap Spectra}
      all == Needed \cup modal \cup (IF SpectraRequested THEN Managed ELSE {})
  IN  (all \cap DOMAIN snapshot) \ requested

Execution == requested \cup Dependencies

\* The cases RunAnalysis is declared to retire.
Retirements == IF SpectraRequested THEN {} ELSE (Managed \cap DOMAIN snapshot) \ requested

ScopeResolves ==
  /\ requested \subseteq DOMAIN snapshot
  /\ SpectraRequested => requested \cap Spectra = Spectra \cap DOMAIN snapshot
  /\ \A c \in requested \cap Spectra : ModalOf[c] \in DOMAIN snapshot
  /\ Execution \cap Retirements = {}

--------------------------------------------------------------------------------
(* Calls on the gateway session.                                           *)

Answer == IF gateway = "serving" THEN {"ok", "nonzero", "raised", "hung"} ELSE {"raised"}

After(answer) == gateway' = IF answer = "hung" THEN "failed" ELSE gateway

ReadCall(answer) ==
  /\ answer \in Answer
  /\ After(answer)
  /\ UNCHANGED <<active, flags, rows, state, late>>

Override(f, g) == [c \in DOMAIN f \cup DOMAIN g |-> IF c \in DOMAIN g THEN g[c] ELSE f[c]]

\* A model whose analysis retired some cases, brought back some, and finished some.
Analysed(m, lost, new, done) ==
  [flags |-> [c \in (DOMAIN flags[m] \ lost) \cup new |-> c \in new \/ flags[m][c]],
   rows |-> [c \in Cases |-> IF c \in lost THEN "none"
                            ELSE IF c \in done THEN state[m] ELSE rows[m][c]]]

Run(m) == {c \in DOMAIN flags[m] : flags[m][c]}
Back(m) == IF m = "scratch" THEN DOMAIN removed \ DOMAIN flags[m] ELSE {}

\* The cases it was to run, or all but one of them, or one more, or those that are back.
MayFinish(m) ==
  {Run(m), Run(m) \cup Back(m)} \cup {Run(m) \ {c} : c \in Run(m)}
    \cup {Run(m) \cup {c} : c \in DOMAIN flags[m]}

\* What the analysis may leave of a model: managed cases it did not run may be
\* retired, and the cases the unlock had removed may be back.
Analyses(m) ==
  {Analysed(m, lost, new, done) :
     lost \in SUBSET ((Managed \cap DOMAIN flags[m]) \ Run(m)),
     new \in {{}, Back(m)},
     done \in MayFinish(m)}

\* What a call that changes the model may make of it; a call for all cases may
\* miss one.
Effects(call, m) ==
  CASE call = "off" ->
         {[flags |-> [c \in DOMAIN flags[m] |-> c \in kept /\ flags[m][c]], rows |-> rows[m]] :
            kept \in {{}} \cup {{c} : c \in Cases}}
    [] call = "delete" ->
         {[flags |-> flags[m], rows |-> [c \in Cases |-> IF c \in kept THEN rows[m][c] ELSE "none"]] :
            kept \in {{}} \cup {{c} : c \in Cases}}
    [] call = "run" -> Analyses(m)
    [] OTHER -> {[flags |-> [c \in DOMAIN flags[m] |-> c = call \/ flags[m][c]], rows |-> rows[m]]}

Becomes(m, e) ==
  /\ flags' = [flags EXCEPT ![m] = e.flags]
  /\ rows' = [rows EXCEPT ![m] = e.rows]

\* The call acts on the active model.  Whatever it answers, ETABS may have done
\* it or not; one that hangs may be done later.
ChangeCall(answer, call) ==
  /\ answer \in Answer
  /\ After(answer)
  /\ \/ gateway = "serving" /\ \E e \in Effects(call, active) : Becomes(active, e)
     \/ UNCHANGED <<flags, rows>>
  /\ late' = IF answer = "hung" THEN late \cup {call} ELSE late
  /\ UNCHANGED <<active, state>>

Goto(s) == step' = s /\ UNCHANGED <<restoration, result, status>>

Fail(s) ==
  /\ step' = "done"
  /\ result' = "error"
  /\ status' = s
  /\ UNCHANGED restoration

\* Before the try block: an AnalysisExecutionError calls its restoration not
\* required; other exceptions say nothing.
Refuse == \E s \in {"NOT_REQUIRED", "unreported"} : Fail(s)

\* _raise_after_run_scope_mutation: the flags are restored, then the error raised.
RecoverWith(retired, recreated) ==
  /\ step' = "restore"
  /\ plan' = [why |-> "error", retired |-> retired, exact |-> FALSE, recreated |-> recreated]
  /\ UNCHANGED <<goal, undone, result, status>>

\* The positive path restores too, and insists on the declared retirements.
RestoreToQualify ==
  /\ step' = "restore"
  /\ plan' = [why |-> "qualify", retired |-> Retirements, exact |-> TRUE,
              recreated |-> recreation]
  /\ UNCHANGED <<goal, undone, result, status>>

\* What every handler but a few passes on.
Recover == RecoverWith(Retirements, recreation)

\* Handlers that forget the cases ETABS retired and recreated.
RecoverBlindly == RecoverWith({}, NoFlags)

--------------------------------------------------------------------------------
(* Before the run flags are touched.                                       *)

Bind ==
  /\ step = "bind"
  /\ \E answer \in Answer :
       /\ ReadCall(answer)
       /\ IF answer # "ok" THEN Fail("unreported")
          ELSE IF active # "scratch" THEN Fail("NOT_REQUIRED")
          ELSE Goto("source_pre")
  /\ UNCHANGED <<outside, facts>>

SourcePre ==
  /\ step = "source_pre"
  /\ \/ source = baseline /\ Goto("state1_bind")
     \/ Refuse
  /\ UNCHANGED <<etabs, outside, facts>>

\* The revalidation of the analysis state binds the active model and the bytes
\* of the source, then reads every modifier back.  It raises errors of its own
\* kind, which the first time no handler sees.
Revalidates(bind, read, next) ==
  \/ /\ step = bind
     /\ \E answer \in Answer :
          /\ ReadCall(answer)
          /\ \/ answer = "ok" /\ active = "scratch" /\ source = baseline /\ Goto(read)
             \/ IF bind = "state1_bind" THEN Fail("unreported") ELSE Recover
  \/ /\ step = read
     /\ \E answer \in Answer :
          /\ ReadCall(answer)
          /\ \/ answer = "ok" /\ state[active] = "established"
             /\ IF next = "restore" THEN RestoreToQualify ELSE Goto(next)
             \/ IF read = "state1_read" THEN Fail("unreported") ELSE Recover

\* Mutant: nothing is revalidated once the results are read.
RevalidateTwice ==
  /\ \/ Revalidates("state1_bind", "state1_read", "snapshot")
     \/ Revalidates("state2_bind", "state2_read", "run")
     \/ step = "state3_bind" /\ RestoreToQualify /\ UNCHANGED etabs
  /\ UNCHANGED <<outside, facts>>

\* Before the flags are touched, before the run, and once its results are read.
Revalidate ==
  /\ \/ Revalidates("state1_bind", "state1_read", "snapshot")
     \/ Revalidates("state2_bind", "state2_read", "run")
     \/ Revalidates("state3_bind", "state3_read", "restore")
  /\ UNCHANGED <<outside, facts>>

\* The expected population and the defined cases are read before the flags.
Snapshot ==
  /\ step = "snapshot"
  /\ \E answer \in Answer :
       /\ ReadCall(answer)
       /\ \/ answer = "ok" /\ snapshot' = flags[active] /\ Goto("universe")
          \/ Refuse /\ UNCHANGED snapshot
  /\ UNCHANGED <<outside, enabled, post, recreation, used>>

\* Defined cases, run flags and statuses are of the same cases, and when B4B
\* unlocked the scratch they are what the unlock left.
Universe ==
  /\ step = "universe"
  /\ \E answer \in Answer :
       /\ ReadCall(answer)
       /\ \/ /\ answer = "ok"
             /\ DOMAIN flags[active] = DOMAIN snapshot
             /\ removed # NoFlags => snapshot = found
             /\ Goto("resolve")
          \/ Refuse
  /\ UNCHANGED <<outside, facts>>

\* Types, slots and modal cases are read from ETABS; a runtime that is not the
\* qualified one is refused.
Resolve ==
  /\ step = "resolve"
  /\ \E answer \in Answer :
       /\ ReadCall(answer)
       /\ \/ answer = "ok" /\ ScopeResolves /\ Goto("all_off")
          \/ Refuse
  /\ UNCHANGED <<outside, facts>>

--------------------------------------------------------------------------------
(* The run.                                                                *)

\* run_scope_mutated is set when the setter has answered: if it raises, the
\* handler takes the flags for untouched.
AllOff ==
  /\ step = "all_off"
  /\ \E answer \in Answer :
       /\ ChangeCall(answer, "off")
       /\ \/ answer = "ok" /\ Goto("enable")
          \/ answer = "nonzero" /\ Recover
          \/ answer \in {"raised", "hung"} /\ Fail("NOT_REQUIRED")
  /\ UNCHANGED <<outside, facts>>

\* Mutant: run_scope_mutated is set when the whole scope is enabled.
EnableThenMark ==
  /\ step = "enable"
  /\ \E c \in Execution \ enabled, answer \in Answer :
       /\ ChangeCall(answer, c)
       /\ enabled' = enabled \cup {c}
       /\ \/ answer = "ok" /\ Goto(IF Execution \subseteq enabled' THEN "verify" ELSE "enable")
          \/ answer = "nonzero" /\ RecoverBlindly
          \/ answer \in {"raised", "hung"} /\ Fail("NOT_REQUIRED")
  /\ UNCHANGED <<outside, snapshot, post, recreation, used>>

\* The next case of the scope; the model leaves their order open.
Enable ==
  /\ step = "enable"
  /\ \E c \in Execution \ enabled, answer \in Answer :
       /\ ChangeCall(answer, c)
       /\ enabled' = enabled \cup {c}
       /\ \/ answer = "ok" /\ Goto(IF Execution \subseteq enabled' THEN "verify" ELSE "enable")
          \/ answer = "nonzero" /\ RecoverBlindly
          \/ answer \in {"raised", "hung"} /\ Recover
  /\ UNCHANGED <<outside, snapshot, post, recreation, used>>

Configured == [c \in DOMAIN snapshot |-> c \in Execution]

Verify ==
  /\ step = "verify"
  /\ \E answer \in Answer :
       /\ ReadCall(answer)
       /\ IF answer = "ok" /\ flags[active] = Configured THEN Goto("delete") ELSE Recover
  /\ UNCHANGED <<outside, facts>>

DeleteResults ==
  /\ step = "delete"
  /\ \E answer \in Answer :
       /\ ChangeCall(answer, "delete")
       /\ IF answer = "ok" THEN Goto("cleared") ELSE Recover
  /\ UNCHANGED <<outside, facts>>

\* Mutant: only the cases of the scope are looked at after the deletion.
ClearedInScope ==
  /\ step = "cleared"
  /\ \E answer \in Answer :
       /\ ReadCall(answer)
       /\ \/ /\ answer = "ok"
             /\ \A c \in Execution : rows[active][c] = "none"
             /\ Goto("state2_bind")
          \/ answer # "ok" /\ Recover
  /\ UNCHANGED <<outside, facts>>

\* Every case of the model reads NOT_RUN; the cases of the scope are asked once
\* more, one by one, and that handler restores blindly.
Cleared ==
  /\ step = "cleared"
  /\ \E answer \in Answer :
       /\ ReadCall(answer)
       /\ \/ /\ answer = "ok"
             /\ DOMAIN flags[active] = DOMAIN snapshot
             /\ \A c \in DOMAIN snapshot : rows[active][c] = "none"
             /\ Goto("state2_bind")
          \/ Recover
          \/ RecoverBlindly
  /\ UNCHANGED <<outside, facts>>

RunAnalysis ==
  /\ step = "run"
  /\ \E answer \in Answer :
       /\ ChangeCall(answer, "run")
       /\ IF answer = "ok" THEN Goto("post") ELSE Recover
  /\ UNCHANGED <<outside, facts>>

Finished(m) == {c \in DOMAIN flags[m] : rows[m][c] # "none"}

\* Defined cases, flags and statuses after the run: exactly the declared cases
\* are gone, and exactly the cases the unlock removed are new.
Post ==
  /\ step = "post"
  /\ \E answer \in Answer :
       /\ ReadCall(answer)
       /\ \/ /\ answer = "ok"
             /\ DOMAIN snapshot \ DOMAIN flags[active] = Retirements
             /\ DOMAIN flags[active] \ DOMAIN snapshot = DOMAIN removed
             /\ post' = Finished(active)
             /\ Goto("recreation")
          \/ Recover /\ UNCHANGED post
  /\ UNCHANGED <<outside, snapshot, enabled, recreation, used>>

\* Mutant: results of cases out of the scope are overlooked.
ContaminationOverlooked ==
  /\ step = "recreation"
  /\ \E answer \in Answer :
       /\ ReadCall(answer)
       /\ \/ answer = "ok" /\ DOMAIN removed \subseteq post
             /\ recreation' = removed
             /\ Goto("readiness")
          \/ Recover /\ UNCHANGED recreation
  /\ UNCHANGED <<outside, snapshot, enabled, post, used>>

\* The recreated cases are of the known type and have finished, and no case out
\* of the scope has.  The flags to restore them with are the ones before the unlock.
QualifyRecreation ==
  /\ step = "recreation"
  /\ \E answer \in Answer :
       /\ ReadCall(answer)
       /\ \/ answer = "ok" /\ DOMAIN removed \subseteq post
             /\ recreation' = removed
             /\ IF post \subseteq Execution \cup DOMAIN removed THEN Goto("readiness")
                ELSE RecoverWith(Retirements, removed)
          \/ Recover /\ UNCHANGED recreation
  /\ UNCHANGED <<outside, snapshot, enabled, post, used>>

\* Each case of the scope is asked whether it finished.  The handlers of these
\* two checks forget what was retired and recreated.
Readiness ==
  /\ step = "readiness"
  /\ \E answer \in Answer :
       /\ ReadCall(answer)
       /\ IF answer \notin {"ok", "nonzero"} THEN Recover
          ELSE IF answer = "ok" /\ Execution \subseteq Finished(active) /\ Execution \subseteq post
          THEN Goto("populations")
          ELSE RecoverBlindly
  /\ UNCHANGED <<outside, facts>>

\* The results of every requested case are read, in a selection transaction of
\* their own (SelectionTransaction).
Populations ==
  /\ step = "populations"
  /\ \E answer \in Answer :
       /\ ReadCall(answer)
       /\ \/ /\ answer = "ok"
             /\ \A c \in requested : rows[active][c] # "none"
             /\ used' = [c \in Cases |-> IF c \in requested THEN rows[active][c] ELSE "none"]
             /\ Goto("state3_bind")
          \/ RecoverBlindly /\ UNCHANGED used
  /\ UNCHANGED <<outside, snapshot, enabled, post, recreation>>

--------------------------------------------------------------------------------
(* _restore_run_flags.                                                     *)

\* The active model is looked at once, before the first of the setters.
RestoreBegin ==
  /\ step = "restore"
  /\ \E answer \in Answer :
       /\ ReadCall(answer)
       /\ IF answer = "ok" /\ active = "scratch" THEN Goto("restore_read") ELSE Fail("BLOCKED_UNSAFE")
  /\ UNCHANGED <<outside, facts>>

\* The cases that are left must differ from the snapshot as declared.
Restorable ==
  LET retired == DOMAIN snapshot \ DOMAIN flags[active]
  IN  /\ DOMAIN flags[active] \ DOMAIN snapshot = DOMAIN plan.recreated
      /\ IF plan.exact THEN retired = plan.retired ELSE retired \subseteq plan.retired

\* Mutant: a retired case that was to be run is enabled with the others.
RestoreReadRetired ==
  /\ step = "restore_read"
  /\ \E answer \in Answer :
       /\ ReadCall(answer)
       /\ IF answer = "ok" /\ Restorable
          THEN /\ goal' = Override([c \in DOMAIN snapshot \cap DOMAIN flags[active] |-> snapshot[c]],
                                   plan.recreated)
               /\ undone' = {c \in DOMAIN snapshot : snapshot[c]} \cup
                              {c \in DOMAIN plan.recreated : plan.recreated[c]}
               /\ step' = "restore_off"
               /\ UNCHANGED <<plan, result, status>>
          ELSE Fail("FAILED")
  /\ UNCHANGED <<outside, facts>>

RestoreRead ==
  /\ step = "restore_read"
  /\ \E answer \in Answer :
       /\ ReadCall(answer)
       /\ IF answer = "ok" /\ Restorable
          THEN /\ goal' = Override([c \in DOMAIN snapshot \cap DOMAIN flags[active] |-> snapshot[c]],
                                   plan.recreated)
               /\ undone' = {c \in DOMAIN goal' : goal'[c]}
               /\ step' = "restore_off"
               /\ UNCHANGED <<plan, result, status>>
          ELSE Fail("FAILED")
  /\ UNCHANGED <<outside, facts>>

RestoreOff ==
  /\ step = "restore_off"
  /\ \E answer \in Answer :
       /\ ChangeCall(answer, "off")
       /\ IF answer = "ok"
          THEN Goto(IF undone = {} THEN "restore_verify" ELSE "restore_on")
          ELSE Fail("FAILED")
  /\ UNCHANGED <<outside, facts>>

RestoreOn ==
  /\ step = "restore_on"
  /\ \E c \in undone, answer \in Answer :
       /\ ChangeCall(answer, c)
       /\ IF answer = "ok"
          THEN /\ undone' = undone \ {c}
               /\ step' = IF undone' = {} THEN "restore_verify" ELSE "restore_on"
               /\ UNCHANGED <<plan, goal, result, status>>
          ELSE Fail("FAILED")
  /\ UNCHANGED <<outside, facts>>

\* The status of a restoration that verified.
StatusOfRestored ==
  IF plan.recreated # NoFlags THEN "RESTORED_WITH_EXACT_RUNTIME_RECREATIONS"
  ELSE IF DOMAIN snapshot \subseteq DOMAIN goal THEN "RESTORED"
  ELSE "RESTORED_WITH_DECLARED_RETIREMENTS"

\* Mutant: setters that answered well are believed.
RestoreVerifySkipped ==
  /\ step = "restore_verify"
  /\ step' = IF plan.why = "qualify" THEN "final_bind" ELSE "done"
  /\ result' = IF plan.why = "qualify" THEN "none" ELSE "error"
  /\ status' = StatusOfRestored
  /\ UNCHANGED <<etabs, outside, facts, restoration>>

RestoreVerify ==
  /\ step = "restore_verify"
  /\ \E answer \in Answer :
       /\ ReadCall(answer)
       /\ IF answer = "ok" /\ flags[active] = goal
          THEN IF plan.why = "qualify"
               THEN /\ step' = "final_bind"
                    /\ status' = StatusOfRestored
                    /\ UNCHANGED <<restoration, result>>
               ELSE Fail(StatusOfRestored)
          ELSE Fail("FAILED")
  /\ UNCHANGED <<outside, facts>>

--------------------------------------------------------------------------------
(* The result.                                                             *)

\* run_scope_mutated is reset: from here on an error does not restore, and what
\* does not name the status calls the restoration not required.
FinalBind ==
  /\ step = "final_bind"
  /\ \E answer \in Answer :
       /\ ReadCall(answer)
       /\ IF answer = "ok" /\ active = "scratch" THEN Goto("final_source")
          ELSE Fail("NOT_REQUIRED")
  /\ UNCHANGED <<outside, facts>>

FinalSource ==
  /\ step = "final_source"
  /\ \/ source = baseline /\ Goto("qualify")
     \/ source # baseline /\ Fail(status)
     \/ Fail("NOT_REQUIRED")
  /\ UNCHANGED <<etabs, outside, facts>>

Issue ==
  /\ step = "qualify"
  /\ step' = "done"
  /\ result' = "issued"
  /\ UNCHANGED <<etabs, outside, facts, restoration, status>>

\* The manifest or the lineage refuses its facts.
Disqualify ==
  /\ step = "qualify"
  /\ Fail("NOT_REQUIRED")
  /\ UNCHANGED <<etabs, outside, facts>>

--------------------------------------------------------------------------------
(* Around the execution.                                                   *)

\* ETABS does what a hung call asked for, on the model then active.
LateCall ==
  /\ \E call \in late :
       /\ \E e \in Effects(call, active) : Becomes(active, e)
       /\ late' = late \ {call}
  /\ UNCHANGED <<active, state, gateway, outside, step, facts, restoration, result, status>>

\* The operator opens the other model, edits the modifiers of the active one,
\* runs its analysis, or someone overwrites the source file.
OperatorMoves ==
  /\ step # "done"
  /\ moves < MaxMoves
  /\ moves' = moves + 1
  /\ \/ /\ active' \in Models \ {active}
        /\ UNCHANGED <<flags, rows, state, source>>
     \/ /\ state' \in {[state EXCEPT ![active] = s] : s \in ModelStates \ {state[active]}}
        /\ UNCHANGED <<active, flags, rows, source>>
     \/ /\ \E e \in Analyses(active) : Becomes(active, e)
        /\ UNCHANGED <<active, state, source>>
     \/ /\ source' \in Contents \ {source}
        /\ UNCHANGED <<active, flags, rows, state>>
  /\ UNCHANGED <<gateway, late, baseline, requested, found, removed, step, facts, restoration, result, status>>

Next ==
  \/ Bind \/ SourcePre \/ Revalidate \/ Snapshot \/ Universe \/ Resolve
  \/ AllOff \/ Enable \/ Verify \/ DeleteResults \/ Cleared \/ RunAnalysis
  \/ Post \/ QualifyRecreation \/ Readiness \/ Populations
  \/ RestoreBegin \/ RestoreRead \/ RestoreOff \/ RestoreOn \/ RestoreVerify
  \/ FinalBind \/ FinalSource \/ Issue \/ Disqualify
  \/ LateCall \/ OperatorMoves

Spec == Init /\ [][Next]_vars

--------------------------------------------------------------------------------
(* Properties.                                                             *)

\* Every variable has its type; the scope is enabled case by case, and the
\* restoration sets cases of its goal only.
TypeOK ==
  /\ active \in Models
  /\ flags \in [Models -> Flags]
  /\ rows \in [Models -> [Cases -> Rows]]
  /\ state \in [Models -> ModelStates]
  /\ gateway \in {"serving", "failed"}
  /\ late \subseteq Calls
  /\ source \in Contents /\ baseline \in Contents
  /\ moves \in 0 .. MaxMoves
  /\ requested \subseteq Cases
  /\ found \in Flags /\ removed \in Flags
  /\ step \in Steps
  /\ snapshot \in Flags
  /\ enabled \subseteq Execution
  /\ post \subseteq Cases
  /\ recreation \in {NoFlags, removed}
  /\ used \in [Cases -> Rows]
  /\ plan.why \in {"none", "error", "qualify"} /\ plan.retired \subseteq Cases
  /\ plan.exact \in BOOLEAN /\ plan.recreated \in Flags
  /\ goal \in Flags
  /\ undone \subseteq DOMAIN goal
  /\ result \in {"none", "issued", "error"}
  /\ status \in Status

\* The scratch has the flags it was found with, but for the cases the analysis
\* retired as declared, and recreated cases have their flags from before the
\* unlock; no hung call will still change it.
FlagsAsFound ==
  /\ \A c \in DOMAIN flags["scratch"] :
       flags["scratch"][c] = IF c \in DOMAIN found THEN found[c] ELSE removed[c]
  /\ DOMAIN found \ DOMAIN flags["scratch"] \subseteq Retirements
  /\ late = {}

\* A qualified result was computed in this execution from the established
\* state, although the operator did one thing meanwhile: no row of before the
\* deletion, no row of an edited model, none of another model (the three
\* revalidations, 1655, 1980 and 2228, around the deletion and the run).
IssuedIsOwn ==
  result = "issued" => \A c \in requested : used[c] = "established"

\* If the operator did nothing, a qualified result leaves a scratch with the
\* flags it had, results of exactly the execution scope, and the other model
\* alone; nothing is left to be done late (2134-2165, 2235-2265).
IssuedLeavesScope ==
  result = "issued" /\ moves = 0 =>
    /\ FlagsAsFound
    /\ DOMAIN flags["scratch"] = (DOMAIN found \ Retirements) \cup DOMAIN removed
    /\ Finished("scratch") = Execution \cup DOMAIN removed
    /\ flags["other"] = [c \in Cases |-> TRUE]
    /\ \A c \in Cases : rows["other"][c] = "stale"

\* A restored status is the truth when the operator leaves ETABS alone,
\* whichever handler asked for the restoration and whatever the analysis had
\* retired or recreated by then (_restore_run_flags, 1182-1305).
RestoredIsTruthful ==
  result = "error" /\ status \in Restored /\ moves = 0 => FlagsAsFound

\* An error that calls its restoration not required, or says nothing, left the
\* flags as found; or it comes from the first setter, which raised before
\* run_scope_mutated was set (1807): then the flags may be off, now or later,
\* but no result was deleted and no analysis was run.
NotRequiredBoundsDamage ==
  status \in {"NOT_REQUIRED", "unreported"} /\ moves = 0 =>
    \/ FlagsAsFound
    \/ /\ rows["scratch"] = [c \in Cases |-> IF c \in DOMAIN found THEN "stale" ELSE "none"]
       /\ late \subseteq {"off"}
       /\ DOMAIN flags["scratch"] = DOMAIN found
       /\ \A c \in DOMAIN found : flags["scratch"][c] => found[c]

\* The analysis is started on the scope that was verified and on a model without
\* any result: if the operator did nothing, no stale row can survive into the
\* generation, and no case out of the scope is run (1842-1976).
RunsFreshScope ==
  [][step = "run" /\ step' = "post" /\ moves = 0 =>
       /\ active = "scratch"
       /\ flags["scratch"] = Configured
       /\ \A c \in Cases : rows["scratch"][c] = "none"
       /\ state["scratch"] = "established"]_vars

================================================================================
