----------------------------- MODULE ModifierMutation -----------------------------
(***************************************************************************)
(* establish_section_modifier_analysis_state (B4B, in                      *)
(* integration/etabs_analysis_state_mutation.py): the stiffness modifiers  *)
(* of a list of sections are changed on the owned scratch model, read      *)
(* back, and either issued as an analysis state or put back.               *)
(*                                                                         *)
(* A step is one call on the gateway session, or a few reads between which *)
(* nothing of the code is done.  A call answers, fails (a nonzero code, an *)
(* exception, a call withdrawn before it began), or hangs: it times out    *)
(* while ETABS is executing it, the worker is poisoned, and what the call  *)
(* does to the model may come later.  Meanwhile the operator works in the  *)
(* same ETABS: the model a call reaches is the one active at that moment.  *)
(*                                                                         *)
(* establish_frame_modifier_analysis_state is the same sequence without    *)
(* the steps about the lock.  Contracts of the request are checked before  *)
(* the first call and left out.                                            *)
(***************************************************************************)
EXTENDS Naturals, Sequences

CONSTANTS
  Plan,      \* the targets of the requested manifest, in their order
  MaxMoves   \* bound: what the operator does during the establishment

Targets == {Plan[i] : i \in DOMAIN Plan}

ASSUME ModifierMutationAssumption ==
  /\ Plan \in Seq(Targets)
  /\ \A i, j \in DOMAIN Plan : Plan[i] = Plan[j] => i = j
  /\ Plan # <<>>
  /\ MaxMoves \in Nat

VARIABLES
  active,    \* the model open in ETABS
  locked,    \* the lock of each model
  value,     \* the modifiers of each target in each model
  gateway,   \* whether the session still serves calls
  late,      \* writes of hung calls that ETABS has still to do
  source,    \* the bytes of the protected source file
  moves,     \* what the operator did so far
  step,      \* where the establishment stands
  before,    \* the modifiers each target was read to have
  applied,   \* targets whose setter was entered
  after,     \* the modifiers read back from each target
  undo,      \* applied targets still to restore, the next one last
  result,    \* "none", then "issued" or "error"
  status     \* the restoration status of the error

etabs == <<active, locked, value, gateway, late>>
outside == <<source, moves>>
facts == <<before, applied, after>>
vars == <<etabs, outside, step, facts, undo, result, status>>

Models == {"scratch", "other"}

\* What a target's modifiers may be: as found in the scratch or in the other
\* model, as requested, or something a setter made of the request.
Modifiers == {"found", "foreign", "wanted", "odd"}
Original(m) == IF m = "scratch" THEN "found" ELSE "foreign"

Steps == {"bind", "unlock_check", "unlock_set", "unlock_verify", "reread",
          "pre", "set", "readback", "post", "source_post", "compare",
          "restore", "restore_next", "restore_set", "restore_read", "done"}

\* "unreported": the error carries no restoration status.
Status == {"none", "unreported", "NOT_REQUIRED", "RESTORED", "FAILED",
           "BLOCKED_UNSAFE"}

Init ==
  /\ active \in Models
  /\ locked \in [Models -> BOOLEAN]
  /\ value = [m \in Models |-> [t \in Targets |-> Original(m)]]
  /\ gateway = "serving"
  /\ late = {}
  /\ source = "kept"
  /\ moves = 0
  /\ step = "bind"
  /\ before = [t \in Targets |-> "none"]
  /\ applied = <<>>
  /\ after = [t \in Targets |-> "none"]
  /\ undo = <<>>
  /\ result = "none"
  /\ status = "none"

--------------------------------------------------------------------------------
(* Calls on the gateway session.                                           *)

\* The ways a call may end; after a hung one the session refuses every call.
Answer == IF gateway = "serving" THEN {"ok", "failed", "hung"} ELSE {"failed"}

After(answer) == gateway' = IF answer = "hung" THEN "failed" ELSE gateway

\* A call that reads changes nothing but, by hanging, the session.
ReadCall(answer) ==
  /\ answer \in Answer
  /\ After(answer)
  /\ UNCHANGED <<active, locked, value, late>>

\* A setter acts on the active model.  Whatever it answers, it may have written
\* the request, something else, or nothing; a hung one may write the request
\* later.
SetCall(answer, t, wish) ==
  /\ answer \in Answer
  /\ After(answer)
  /\ \E new \in {wish, "odd", value[active][t]} :
       value' = IF gateway = "serving" THEN [value EXCEPT ![active][t] = new] ELSE value
  /\ late' = IF answer = "hung" THEN late \cup {[target |-> t, wish |-> wish]} ELSE late
  /\ UNCHANGED <<active, locked>>

\* The end of the establishment by an error with this restoration status.
Fail(s) ==
  /\ step' = "done"
  /\ result' = "error"
  /\ status' = s

Goto(s) == step' = s /\ UNCHANGED <<result, status>>

\* Before the first setter: a refusal of the code says that no restoration is
\* required; an exception of a snapshot or a read that nothing wraps says nothing.
Refuse == \E s \in {"NOT_REQUIRED", "unreported"} : Fail(s)

--------------------------------------------------------------------------------
(* Before the first setter.                                                *)

\* _require_bindings: the active model must be the owned scratch.
Bind ==
  /\ step = "bind"
  /\ \E answer \in Answer :
       /\ ReadCall(answer)
       /\ IF answer # "ok" THEN Fail("unreported")
          ELSE IF active # "scratch" THEN Fail("NOT_REQUIRED")
          ELSE Goto(IF locked[active] THEN "unlock_check" ELSE "reread")
  /\ UNCHANGED <<outside, facts, undo>>

\* The protected source and the load cases are read before the unlock.
UnlockCheck ==
  /\ step = "unlock_check"
  /\ \E answer \in Answer :
       /\ ReadCall(answer)
       /\ \/ answer = "ok" /\ source = "kept" /\ Goto("unlock_set")
          \/ Refuse
  /\ UNCHANGED <<outside, facts, undo>>

UnlockSet ==
  /\ step = "unlock_set"
  /\ \E answer \in Answer :
       /\ answer \in Answer
       /\ After(answer)
       /\ locked' \in {locked, [locked EXCEPT ![active] = FALSE]}
       /\ gateway # "serving" => locked' = locked
       /\ IF answer = "ok" THEN Goto("unlock_verify") ELSE Fail("NOT_REQUIRED")
  /\ UNCHANGED <<active, value, late, outside, facts, undo>>

\* The model, its lock, its load cases and the source are read again.
UnlockVerify ==
  /\ step = "unlock_verify"
  /\ \E answer \in Answer :
       /\ ReadCall(answer)
       /\ \/ /\ answer = "ok" /\ active = "scratch" /\ ~locked[active] /\ source = "kept"
             /\ Goto("reread")
          \/ Refuse
  /\ UNCHANGED <<outside, facts, undo>>

\* The identity is read again for its lock only, then the source is compared
\* with the bytes the scratch was made from.
Reread ==
  /\ step = "reread"
  /\ \E answer \in Answer :
       /\ ReadCall(answer)
       /\ \/ answer = "ok" /\ ~locked[active] /\ source = "kept" /\ Goto("pre")
          \/ Refuse
  /\ UNCHANGED <<outside, facts, undo>>

Unread == {t \in Targets : before[t] = "none"}

\* The target the loop over the plan has come to.
IsNext(t) ==
  \E i \in DOMAIN Plan :
    /\ t = Plan[i] /\ t \in Unread
    /\ \A j \in 1 .. (i - 1) : Plan[j] \notin Unread

\* The modifiers of the next target before the mutation.
ReadBefore ==
  /\ step = "pre"
  /\ \E t \in Unread, answer \in Answer :
       /\ IsNext(t)
       /\ ReadCall(answer)
       /\ IF answer = "ok"
          THEN /\ before' = [before EXCEPT ![t] = value[active][t]]
               /\ Goto(IF Unread = {t} THEN "set" ELSE "pre")
          ELSE Refuse /\ UNCHANGED before
  /\ UNCHANGED <<outside, applied, after, undo>>

--------------------------------------------------------------------------------
(* The mutation.                                                           *)

\* Mutant: a target counts as applied once its setter has answered well.
SetTargetThenMark ==
  /\ step = "set"
  /\ LET t == Plan[Len(applied) + 1]
     IN  \E answer \in Answer :
           /\ SetCall(answer, t, "wanted")
           /\ applied' = IF answer = "ok" THEN Append(applied, t) ELSE applied
           /\ undo' = applied'
           /\ Goto(IF answer = "ok" THEN "readback" ELSE "restore")
  /\ UNCHANGED <<outside, before, after>>

\* The target is marked before its setter is entered.
SetTarget ==
  /\ step = "set"
  /\ LET t == Plan[Len(applied) + 1]
     IN  /\ applied' = Append(applied, t)
         /\ undo' = applied'
         /\ \E answer \in Answer :
              /\ SetCall(answer, t, "wanted")
              /\ Goto(IF answer = "ok" THEN "readback" ELSE "restore")
  /\ UNCHANGED <<outside, before, after>>

ReadBack ==
  /\ step = "readback"
  /\ LET t == applied[Len(applied)]
     IN  \E answer \in Answer :
           /\ ReadCall(answer)
           /\ after' = IF answer = "ok" THEN [after EXCEPT ![t] = value[active][t]] ELSE after
           /\ Goto(IF answer # "ok" THEN "restore"
                   ELSE IF applied = Plan THEN "post" ELSE "set")
  /\ UNCHANGED <<outside, before, applied, undo>>

--------------------------------------------------------------------------------
(* Qualification of the mutated state.                                     *)

\* Mutant: the model is not looked at again after the mutation.
PostconditionSkipped ==
  /\ step = "post"
  /\ Goto("source_post")
  /\ UNCHANGED <<etabs, outside, facts, undo>>

Postcondition ==
  /\ step = "post"
  /\ \E answer \in Answer :
       /\ ReadCall(answer)
       /\ Goto(IF answer = "ok" /\ active = "scratch" /\ ~locked[active]
               THEN "source_post" ELSE "restore")
  /\ UNCHANGED <<outside, facts, undo>>

\* The source is a file: its snapshot may raise, which leads to a restoration.
SourcePost ==
  /\ step = "source_post"
  /\ \E raised \in BOOLEAN :
       Goto(IF raised \/ source # "kept" THEN "restore" ELSE "compare")
  /\ UNCHANGED <<etabs, outside, facts, undo>>

Matches == \A t \in Targets : after[t] = "wanted"

\* Requested and read-back state agree: the analysis state is issued.
Issue ==
  /\ step = "compare"
  /\ Matches
  /\ step' = "done"
  /\ result' = "issued"
  /\ UNCHANGED <<etabs, outside, facts, undo, status>>

\* They differ, or building the evidence raised.  Any such error that calls its
\* restoration not required is turned into one that restores.
Disqualify ==
  /\ step = "compare"
  /\ Goto("restore")
  /\ UNCHANGED <<etabs, outside, facts, undo>>

--------------------------------------------------------------------------------
(* _section_restoration: the applied targets, the last one first.          *)

\* _active_model_is_owned_scratch: a failed read counts as another model.
RestoreGuard(next) ==
  \E answer \in Answer :
    /\ ReadCall(answer)
    /\ IF answer = "ok" /\ active = "scratch" THEN Goto(next) ELSE Fail("BLOCKED_UNSAFE")

RestoreBegin ==
  /\ step = "restore"
  /\ IF undo = <<>>
     THEN Fail("NOT_REQUIRED") /\ UNCHANGED etabs
     ELSE RestoreGuard("restore_next")
  /\ UNCHANGED <<outside, facts, undo>>

RestoreNext ==
  /\ step = "restore_next"
  /\ IF undo = <<>>
     THEN Fail("RESTORED") /\ UNCHANGED etabs
     ELSE RestoreGuard("restore_set")
  /\ UNCHANGED <<outside, facts, undo>>

RestoreSet ==
  /\ step = "restore_set"
  /\ LET t == undo[Len(undo)]
     IN  \E answer \in Answer :
           /\ SetCall(answer, t, before[t])
           /\ IF answer = "ok" THEN Goto("restore_read") ELSE Fail("FAILED")
  /\ UNCHANGED <<outside, facts, undo>>

\* Mutant: a setter that answers well is believed.
RestoreReadUnchecked ==
  /\ step = "restore_read"
  /\ undo' = SubSeq(undo, 1, Len(undo) - 1)
  /\ Goto("restore_next")
  /\ UNCHANGED <<etabs, outside, facts>>

RestoreRead ==
  /\ step = "restore_read"
  /\ LET t == undo[Len(undo)]
     IN  \E answer \in Answer :
           /\ ReadCall(answer)
           /\ IF answer = "ok" /\ value[active][t] = before[t]
              THEN /\ undo' = SubSeq(undo, 1, Len(undo) - 1)
                   /\ Goto("restore_next")
              ELSE /\ UNCHANGED undo
                   /\ Fail("FAILED")
  /\ UNCHANGED <<outside, facts>>

--------------------------------------------------------------------------------
(* Around the establishment.                                               *)

\* ETABS completes the write of a hung call, on the model then active.
LateWrite ==
  /\ \E w \in late :
       /\ value' = [value EXCEPT ![active][w.target] = w.wish]
       /\ late' = late \ {w}
  /\ UNCHANGED <<active, locked, gateway, outside, step, facts, undo, result, status>>

\* The operator opens the other model, locks or unlocks the active one (as an
\* analysis run by hand does), or someone overwrites the source file.
OperatorMoves ==
  /\ step # "done"
  /\ moves < MaxMoves
  /\ moves' = moves + 1
  /\ \/ /\ active' \in Models \ {active}
        /\ UNCHANGED <<locked, source>>
     \/ /\ locked' = [locked EXCEPT ![active] = ~@]
        /\ UNCHANGED <<active, source>>
     \/ /\ source = "kept"
        /\ source' = "changed"
        /\ UNCHANGED <<active, locked>>
  /\ UNCHANGED <<value, gateway, late, step, facts, undo, result, status>>

Next ==
  \/ Bind \/ UnlockCheck \/ UnlockSet \/ UnlockVerify \/ Reread \/ ReadBefore
  \/ SetTarget \/ ReadBack \/ Postcondition \/ SourcePost \/ Issue \/ Disqualify
  \/ RestoreBegin \/ RestoreNext \/ RestoreSet \/ RestoreRead
  \/ LateWrite \/ OperatorMoves

Spec == Init /\ [][Next]_vars

--------------------------------------------------------------------------------
(* Properties.                                                             *)

\* Every variable has its type, and the targets whose setters were entered are
\* the beginning of the plan.
TypeOK ==
  /\ active \in Models
  /\ locked \in [Models -> BOOLEAN]
  /\ value \in [Models -> [Targets -> Modifiers]]
  /\ gateway \in {"serving", "failed"}
  /\ \A w \in late : w.target \in Targets /\ w.wish \in Modifiers
  /\ source \in {"kept", "changed"}
  /\ moves \in 0 .. MaxMoves
  /\ step \in Steps
  /\ before \in [Targets -> Modifiers \cup {"none"}]
  /\ applied \in Seq(Targets) /\ Len(applied) <= Len(Plan)
  /\ \A i \in 1 .. Len(applied) : applied[i] = Plan[i]
  /\ after \in [Targets -> Modifiers \cup {"none"}]
  /\ undo \in Seq(Targets) /\ Len(undo) <= Len(applied)
  /\ \A i \in 1 .. Len(undo) : undo[i] = applied[i]
  /\ result \in {"none", "issued", "error"}
  /\ status \in Status

\* The scratch and the other model are as the establishment found them, and no
\* hung call will still change them.
Untouched(m) == \A t \in Targets : value[m][t] = Original(m)

\* An issued analysis state describes the scratch model, whatever failed on the
\* way and although the operator did one thing meanwhile: every target has the
\* requested modifiers there, no other model was changed and no write is left
\* in ETABS (establish_section_modifier_analysis_state, 1830-1996).
IssuedIsEstablished ==
  result = "issued" =>
    /\ \A t \in Targets : value["scratch"][t] = "wanted"
    /\ Untouched("other")
    /\ late = {}

\* An error whose restoration was not required, or that does not mention one,
\* left the modifiers of both models alone (the marking of a target before its
\* setter, 1752, and the wrapping of late errors, 1997-2010).
NotRequiredMeansUntouched ==
  status \in {"NOT_REQUIRED", "unreported"} =>
    Untouched("scratch") /\ Untouched("other") /\ late = {}

\* RESTORED is the truth when the operator leaves ETABS alone: the scratch is
\* as it was found, and no hung setter can still change it (1632-1656).
RestoredIsTruthful ==
  status = "RESTORED" /\ moves = 0 =>
    Untouched("scratch") /\ Untouched("other") /\ late = {}

\* A restoration does not touch another model (the test of model drift,
\* test_b4b_analysis_state_mutation.py 319, names it): only the moment between
\* the check and the setter is left to the operator.
RestorationSparesOthers ==
  [][step = "restore_set" => value'["other"] = value["other"]]_vars

================================================================================
