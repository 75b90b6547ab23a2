-------------------------- MODULE ModifierMutationProofs --------------------------
(***************************************************************************)
(* Proofs about establish_section_modifier_analysis_state for any plan.    *)
(* What the operator may do is bounded only where a property needs it.     *)
(***************************************************************************)
EXTENDS ModifierMutation, TLAPS

--------------------------------------------------------------------------------
(* The inductive invariant.                                                *)

Start == {"bind", "unlock_check", "unlock_set", "unlock_verify", "reread", "pre"}
Mutating == {"set", "readback"}
Qualifying == {"post", "source_post", "compare"}
Restoring == {"restore_next", "restore_set", "restore_read"}

\* How far the plan has been carried out where, and what is left to undo.
ProgressInv ==
  /\ step # "done" => result = "none" /\ status = "none"
  /\ result = "issued" => status = "none"
  /\ step \in Start => applied = <<>>
  /\ step = "set" => Len(applied) < Len(Plan)
  /\ step \in Qualifying => Len(applied) = Len(Plan)
  /\ step \in {"readback", "restore"} \cup Qualifying => applied # <<>>
  /\ step \notin Restoring \cup {"done"} => undo = applied
  /\ step \in {"restore_set", "restore_read"} => undo # <<>>
  /\ step \notin Start \cup {"done"} => Unread = {}

\* Nothing was changed and nothing will be.
Clean == Untouched("scratch") /\ Untouched("other") /\ late = {}

\* The models are clean until the first setter, and where an error says so.
QuietInv ==
  /\ step \in Start \/ (step = "set" /\ applied = <<>>) => Clean
  /\ NotRequiredMeansUntouched

\* Late writes belong to a session that failed; a restoration begun in such a
\* session does not get past its first check.
LateInv ==
  /\ gateway = "serving" => late = {}
  /\ step \in Restoring => gateway = "serving"
  /\ step \in Mutating \cup Qualifying => late = {}

\* What the program alone did to the models.
AloneInv ==
  moves = 0 =>
    /\ step \notin {"bind", "done"} => active = "scratch"
    /\ late # {} => active = "scratch"
    /\ Untouched("other")
    /\ \A t \in Targets : before[t] \in {"none", "found"}
    /\ step # "done" /\ gateway = "serving" =>
         \A t \in Targets :
           (\A i \in 1 .. Len(undo) : undo[i] # t) => value["scratch"][t] = "found"
    /\ status = "RESTORED" => Clean

\* Where one move of the operator has not taken the scratch away, what was read
\* back is what the scratch holds.
EstablishedInv ==
  MaxMoves <= 1 =>
    /\ \/ step \in Mutating \cup Qualifying /\ active = "scratch"
       \/ step \in {"source_post", "compare"}
       => /\ Untouched("other")
          /\ \A i \in 1 .. Len(applied) :
               \/ step = "readback" /\ i = Len(applied)
               \/ after[applied[i]] = value["scratch"][applied[i]]
    /\ IssuedIsEstablished

IInv == TypeOK /\ ProgressInv /\ QuietInv /\ LateInv /\ AloneInv /\ EstablishedInv

--------------------------------------------------------------------------------

\* The plan and its targets.
LEMMA PlanType ==
  /\ Len(Plan) \in Nat /\ Len(Plan) > 0
  /\ DOMAIN Plan = 1 .. Len(Plan)
  /\ \A i \in 1 .. Len(Plan) : Plan[i] \in Targets
  BY ModifierMutationAssumption DEF Targets

\* Every initial state satisfies the invariant.
LEMMA InitInv == Init => IInv
  BY PlanType, ModifierMutationAssumption
  DEF Init, IInv, TypeOK, ProgressInv, QuietInv, LateInv, AloneInv, EstablishedInv,
      Clean, Untouched, Original, NotRequiredMeansUntouched, IssuedIsEstablished,
      Models, Modifiers, Steps, Status, Start, Mutating, Qualifying, Restoring

\* A setter keeps the types of what it may change.
LEMMA SetCallType ==
  ASSUME TypeOK, NEW t \in Targets, NEW wish \in Modifiers, "odd" \in Modifiers,
         NEW answer \in Answer, SetCall(answer, t, wish)
  PROVE  /\ value' \in [Models -> [Targets -> Modifiers]]
         /\ \A w \in late' : w.target \in Targets /\ w.wish \in Modifiers
         /\ gateway' \in {"serving", "failed"}
  <1>1. PICK new \in {wish, "odd", value[active][t]} :
          value' = IF gateway = "serving" THEN [value EXCEPT ![active][t] = new] ELSE value
    BY DEF SetCall
  <1>2. new \in Modifiers
    BY <1>1 DEF TypeOK
  <1>3. value' \in [Models -> [Targets -> Modifiers]]
    BY <1>1, <1>2 DEF TypeOK
  <1> QED
    BY <1>3 DEF SetCall, After, TypeOK

\* A lock set or turned over is a lock.
LEMMA LockType ==
  ASSUME TypeOK
  PROVE  /\ locked \in [Models -> BOOLEAN]
         /\ [locked EXCEPT ![active] = FALSE] \in [Models -> BOOLEAN]
         /\ [locked EXCEPT ![active] = ~locked[active]] \in [Models -> BOOLEAN]
  <1>1. locked \in [Models -> BOOLEAN]
    BY DEF TypeOK
  <1>2. [locked EXCEPT ![active] = FALSE] \in [Models -> BOOLEAN]
    BY <1>1, Zenon
  <1>3. [locked EXCEPT ![active] = ~locked[active]] \in [Models -> BOOLEAN]
    BY <1>1, Zenon
  <1> QED
    BY <1>1, <1>2, <1>3

\* What is left of a sequence without its last element.
LEMMA Shortened ==
  ASSUME NEW S, NEW s \in Seq(S), s # <<>>
  PROVE  LET left == SubSeq(s, 1, Len(s) - 1)
         IN  /\ left \in Seq(S) /\ Len(left) = Len(s) - 1
             /\ \A i \in 1 .. Len(left) : left[i] = s[i]
  <1>1. Len(s) \in Nat /\ Len(s) - 1 \in Nat
    OBVIOUS
  <1>2. SubSeq(s, 1, Len(s) - 1) \in Seq(S)
    BY <1>1
  <1>3. Len(SubSeq(s, 1, Len(s) - 1)) = Len(s) - 1
    BY <1>1
  <1>4. \A i \in 1 .. Len(s) - 1 : SubSeq(s, 1, Len(s) - 1)[i] = s[i]
    BY <1>1
  <1> QED
    BY <1>2, <1>3, <1>4

\* Every step keeps the types.
LEMMA TypeStep ==
  ASSUME TypeOK, ProgressInv, [Next]_vars
  PROVE  TypeOK'
  <1> USE PlanType, ModifierMutationAssumption DEF TypeOK, ProgressInv, Start, Qualifying, Restoring, vars, etabs, outside, facts, Goto, Answer, After, Models, Modifiers, Steps, Status
  <1>1. CASE Bind
    BY <1>1 DEF Bind, Fail, ReadCall
  <1>2. CASE UnlockCheck
    BY <1>2 DEF UnlockCheck, Refuse, Fail, ReadCall
  <1>3. CASE UnlockSet
    <2>1. locked' \in {locked, [locked EXCEPT ![active] = FALSE]}
      BY <1>3 DEF UnlockSet
    <2>2. locked' \in [Models -> BOOLEAN]
      BY <2>1, LockType
    <2> QED
      BY <1>3, <2>2 DEF UnlockSet, Fail
  <1>4. CASE UnlockVerify
    BY <1>4 DEF UnlockVerify, Refuse, Fail, ReadCall
  <1>5. CASE Reread
    BY <1>5 DEF Reread, Refuse, Fail, ReadCall
  <1>6. CASE ReadBefore
    BY <1>6 DEF ReadBefore, Refuse, Fail, ReadCall, Unread, IsNext
  <1>7. CASE SetTarget
    <2> DEFINE t == Plan[Len(applied) + 1]
    <2>1. t \in Targets /\ Len(applied) + 1 \in 1 .. Len(Plan)
      BY <1>7 DEF SetTarget
    <2>2. PICK answer \in Answer : SetCall(answer, t, "wanted") /\ step' \in {"readback", "restore"}
      BY <1>7 DEF SetTarget
    <2>3. /\ value' \in [Models -> [Targets -> Modifiers]]
          /\ \A w \in late' : w.target \in Targets /\ w.wish \in Modifiers
          /\ gateway' \in {"serving", "failed"}
      BY <2>1, <2>2, SetCallType
    <2>4. /\ applied' = Append(applied, t) /\ undo' = applied'
          /\ UNCHANGED <<active, locked, source, moves, before, after, result, status>>
      BY <1>7, <2>2 DEF SetTarget, SetCall
    <2>5. /\ applied' \in Seq(Targets) /\ Len(applied') <= Len(Plan)
          /\ \A i \in 1 .. Len(applied') : applied'[i] = Plan[i]
      BY <2>1, <2>4
    <2> QED
      BY <2>2, <2>3, <2>4, <2>5
  <1>8. CASE ReadBack
    BY <1>8 DEF ReadBack, ReadCall
  <1>9. CASE Postcondition
    BY <1>9 DEF Postcondition, ReadCall
  <1>10. CASE SourcePost
    BY <1>10 DEF SourcePost
  <1>11. CASE Issue
    BY <1>11 DEF Issue, Matches
  <1>12. CASE Disqualify
    BY <1>12 DEF Disqualify
  <1>13. CASE RestoreBegin
    BY <1>13 DEF RestoreBegin, RestoreGuard, ReadCall, Fail
  <1>14. CASE RestoreNext
    BY <1>14 DEF RestoreNext, RestoreGuard, ReadCall, Fail
  <1>15. CASE RestoreSet
    <2> DEFINE t == undo[Len(undo)]
    <2>1. t \in Targets /\ before[t] \in Modifiers
      BY <1>15 DEF RestoreSet, Unread
    <2>2. PICK answer \in Answer : SetCall(answer, t, before[t])
      BY <1>15 DEF RestoreSet
    <2>3. /\ value' \in [Models -> [Targets -> Modifiers]]
          /\ \A w \in late' : w.target \in Targets /\ w.wish \in Modifiers
          /\ gateway' \in {"serving", "failed"}
      BY <2>1, <2>2, SetCallType
    <2>4. /\ UNCHANGED <<active, locked, source, moves, before, after, applied, undo>>
          /\ step' \in Steps /\ result' \in {"none", "issued", "error"} /\ status' \in Status
      BY <1>15, <2>2 DEF RestoreSet, SetCall, Fail
    <2> QED
      BY <2>3, <2>4
  <1>16. CASE RestoreRead
    <2>1. undo # <<>> /\ Len(undo) \in 1 .. Len(applied)
      BY <1>16 DEF RestoreRead
    <2>2. CASE undo' = SubSeq(undo, 1, Len(undo) - 1)
      <3>1. /\ undo' \in Seq(Targets) /\ Len(undo') = Len(undo) - 1
            /\ \A i \in 1 .. Len(undo') : undo'[i] = undo[i]
        BY <2>1, <2>2, Shortened
      <3> QED
        BY <1>16, <2>1, <3>1 DEF RestoreRead, ReadCall, Fail
    <2>3. CASE UNCHANGED undo
      BY <1>16, <2>3 DEF RestoreRead, ReadCall, Fail
    <2> QED
      BY <1>16, <2>2, <2>3 DEF RestoreRead
  <1>17. CASE LateWrite
    BY <1>17 DEF LateWrite
  <1>18. CASE OperatorMoves
    <2>1. active' \in Models /\ locked' \in {locked, [locked EXCEPT ![active] = ~locked[active]]} /\ source' \in {"kept", "changed"}
      BY <1>18 DEF OperatorMoves
    <2>3. locked' \in [Models -> BOOLEAN]
      BY <2>1, LockType
    <2>2. moves' \in 0 .. MaxMoves
      BY <1>18 DEF OperatorMoves
    <2> QED
      BY <1>18, <2>1, <2>2, <2>3 DEF OperatorMoves
  <1>19. CASE UNCHANGED vars
    BY <1>19
  <1> QED
    BY <1>1, <1>2, <1>3, <1>4, <1>5, <1>6, <1>7, <1>8, <1>9, <1>10, <1>11, <1>12, <1>13, <1>14, <1>15, <1>16, <1>17, <1>18, <1>19 DEF Next

\* Every step keeps the progress part.
LEMMA ProgressStep ==
  ASSUME TypeOK, ProgressInv, [Next]_vars
  PROVE  ProgressInv'
  <1> USE PlanType, ModifierMutationAssumption DEF TypeOK, ProgressInv, Start, Qualifying, Restoring, vars, etabs, outside, facts, Goto, Answer, After, Models, Unread
  <1>1. CASE Bind
    BY <1>1 DEF Bind, Fail, ReadCall
  <1>2. CASE UnlockCheck
    BY <1>2 DEF UnlockCheck, Refuse, Fail, ReadCall
  <1>3. CASE UnlockSet
    BY <1>3 DEF UnlockSet, Fail
  <1>4. CASE UnlockVerify
    BY <1>4 DEF UnlockVerify, Refuse, Fail, ReadCall
  <1>5. CASE Reread
    BY <1>5 DEF Reread, Refuse, Fail, ReadCall
  <1>6. CASE ReadBefore
    <2>1. CASE step' = "set"
      <3>1. PICK t \in Unread : /\ Unread = {t}
                                /\ before' = [before EXCEPT ![t] = value[active][t]]
        BY <1>6, <2>1 DEF ReadBefore, Refuse, Fail
      <3>2. value[active][t] # "none"
        BY <3>1 DEF Modifiers
      <3>3. Unread' = {}
        BY <3>1, <3>2
      <3> QED
        BY <1>6, <2>1, <3>3 DEF ReadBefore, Refuse, Fail, ReadCall
    <2>2. CASE step' # "set"
      BY <1>6, <2>2 DEF ReadBefore, Refuse, Fail, ReadCall
    <2> QED
      BY <2>1, <2>2
  <1>7. CASE SetTarget
    BY <1>7 DEF SetTarget, SetCall
  <1>8. CASE ReadBack
    BY <1>8 DEF ReadBack, ReadCall
  <1>9. CASE Postcondition
    BY <1>9 DEF Postcondition, ReadCall
  <1>10. CASE SourcePost
    BY <1>10 DEF SourcePost
  <1>11. CASE Issue
    BY <1>11 DEF Issue, Matches
  <1>12. CASE Disqualify
    BY <1>12 DEF Disqualify
  <1>13. CASE RestoreBegin
    BY <1>13 DEF RestoreBegin, RestoreGuard, ReadCall, Fail
  <1>14. CASE RestoreNext
    BY <1>14 DEF RestoreNext, RestoreGuard, ReadCall, Fail
  <1>15. CASE RestoreSet
    BY <1>15 DEF RestoreSet, SetCall, Fail
  <1>16. CASE RestoreRead
    BY <1>16 DEF RestoreRead, ReadCall, Fail
  <1>17. CASE LateWrite
    BY <1>17 DEF LateWrite
  <1>18. CASE OperatorMoves
    BY <1>18 DEF OperatorMoves
  <1>19. CASE UNCHANGED vars
    BY <1>19
  <1> QED
    BY <1>1, <1>2, <1>3, <1>4, <1>5, <1>6, <1>7, <1>8, <1>9, <1>10, <1>11, <1>12, <1>13, <1>14, <1>15, <1>16, <1>17, <1>18, <1>19 DEF Next

\* Every step keeps the quiet part.
LEMMA QuietStep ==
  ASSUME TypeOK, ProgressInv, QuietInv, [Next]_vars
  PROVE  QuietInv'
  <1> USE PlanType DEF TypeOK, ProgressInv, QuietInv, Clean, Untouched, Original, NotRequiredMeansUntouched, Start, Mutating, Qualifying, Restoring, vars, etabs, outside, facts, Goto, Answer, After, Models
  <1>1. CASE Bind
    BY <1>1 DEF Bind, Fail, ReadCall
  <1>2. CASE UnlockCheck
    BY <1>2 DEF UnlockCheck, Refuse, Fail, ReadCall
  <1>3. CASE UnlockSet
    BY <1>3 DEF UnlockSet, Fail
  <1>4. CASE UnlockVerify
    BY <1>4 DEF UnlockVerify, Refuse, Fail, ReadCall
  <1>5. CASE Reread
    BY <1>5 DEF Reread, Refuse, Fail, ReadCall
  <1>6. CASE ReadBefore
    BY <1>6 DEF ReadBefore, Refuse, Fail, ReadCall, Unread, IsNext
  <1>7. CASE SetTarget
    BY <1>7 DEF SetTarget, SetCall
  <1>8. CASE ReadBack
    BY <1>8 DEF ReadBack, ReadCall
  <1>9. CASE Postcondition
    BY <1>9 DEF Postcondition, ReadCall
  <1>10. CASE SourcePost
    BY <1>10 DEF SourcePost
  <1>11. CASE Issue
    BY <1>11 DEF Issue, Matches
  <1>12. CASE Disqualify
    BY <1>12 DEF Disqualify
  <1>13. CASE RestoreBegin
    BY <1>13 DEF RestoreBegin, RestoreGuard, ReadCall, Fail
  <1>14. CASE RestoreNext
    BY <1>14 DEF RestoreNext, RestoreGuard, ReadCall, Fail
  <1>15. CASE RestoreSet
    BY <1>15 DEF RestoreSet, SetCall, Fail
  <1>16. CASE RestoreRead
    BY <1>16 DEF RestoreRead, ReadCall, Fail
  <1>17. CASE LateWrite
    BY <1>17 DEF LateWrite
  <1>18. CASE OperatorMoves
    BY <1>18 DEF OperatorMoves
  <1>19. CASE UNCHANGED vars
    BY <1>19
  <1> QED
    BY <1>1, <1>2, <1>3, <1>4, <1>5, <1>6, <1>7, <1>8, <1>9, <1>10, <1>11, <1>12, <1>13, <1>14, <1>15, <1>16, <1>17, <1>18, <1>19 DEF Next

\* Every step keeps the part about late writes.
LEMMA LateStep ==
  ASSUME TypeOK, LateInv, [Next]_vars
  PROVE  LateInv'
  <1> USE DEF TypeOK, LateInv, Start, Mutating, Qualifying, Restoring, vars, etabs, outside, facts, Goto, Answer, After
  <1>1. CASE Bind
    BY <1>1 DEF Bind, Fail, ReadCall
  <1>2. CASE UnlockCheck
    BY <1>2 DEF UnlockCheck, Refuse, Fail, ReadCall
  <1>3. CASE UnlockSet
    BY <1>3 DEF UnlockSet, Fail
  <1>4. CASE UnlockVerify
    BY <1>4 DEF UnlockVerify, Refuse, Fail, ReadCall
  <1>5. CASE Reread
    BY <1>5 DEF Reread, Refuse, Fail, ReadCall
  <1>6. CASE ReadBefore
    BY <1>6 DEF ReadBefore, Refuse, Fail, ReadCall, Unread, IsNext
  <1>7. CASE SetTarget
    BY <1>7 DEF SetTarget, SetCall
  <1>8. CASE ReadBack
    BY <1>8 DEF ReadBack, ReadCall
  <1>9. CASE Postcondition
    BY <1>9 DEF Postcondition, ReadCall
  <1>10. CASE SourcePost
    BY <1>10 DEF SourcePost
  <1>11. CASE Issue
    BY <1>11 DEF Issue, Matches
  <1>12. CASE Disqualify
    BY <1>12 DEF Disqualify
  <1>13. CASE RestoreBegin
    BY <1>13 DEF RestoreBegin, RestoreGuard, ReadCall, Fail
  <1>14. CASE RestoreNext
    BY <1>14 DEF RestoreNext, RestoreGuard, ReadCall, Fail
  <1>15. CASE RestoreSet
    BY <1>15 DEF RestoreSet, SetCall, Fail
  <1>16. CASE RestoreRead
    BY <1>16 DEF RestoreRead, ReadCall, Fail
  <1>17. CASE LateWrite
    BY <1>17 DEF LateWrite
  <1>18. CASE OperatorMoves
    BY <1>18 DEF OperatorMoves
  <1>19. CASE UNCHANGED vars
    BY <1>19
  <1> QED
    BY <1>1, <1>2, <1>3, <1>4, <1>5, <1>6, <1>7, <1>8, <1>9, <1>10, <1>11, <1>12, <1>13, <1>14, <1>15, <1>16, <1>17, <1>18, <1>19 DEF Next

\* Every step keeps the part about the program alone.
LEMMA AloneStep ==
  ASSUME TypeOK, ProgressInv, QuietInv, LateInv, AloneInv, [Next]_vars
  PROVE  AloneInv'
  <1> USE PlanType DEF TypeOK, ProgressInv, QuietInv, LateInv, AloneInv, Clean, Untouched, Original, Start, Mutating, Qualifying, Restoring, vars, etabs, outside, facts, Goto, Answer, After, Models, Unread
  <1>1. CASE Bind
    BY <1>1 DEF Bind, Fail, ReadCall
  <1>2. CASE UnlockCheck
    BY <1>2 DEF UnlockCheck, Refuse, Fail, ReadCall
  <1>3. CASE UnlockSet
    BY <1>3 DEF UnlockSet, Fail
  <1>4. CASE UnlockVerify
    BY <1>4 DEF UnlockVerify, Refuse, Fail, ReadCall
  <1>5. CASE Reread
    BY <1>5 DEF Reread, Refuse, Fail, ReadCall
  <1>6. CASE ReadBefore
    BY <1>6 DEF ReadBefore, Refuse, Fail, ReadCall, Unread, IsNext
  <1>7. CASE SetTarget
    BY <1>7 DEF SetTarget, SetCall
  <1>8. CASE ReadBack
    BY <1>8 DEF ReadBack, ReadCall
  <1>9. CASE Postcondition
    BY <1>9 DEF Postcondition, ReadCall
  <1>10. CASE SourcePost
    BY <1>10 DEF SourcePost
  <1>11. CASE Issue
    BY <1>11 DEF Issue, Matches
  <1>12. CASE Disqualify
    BY <1>12 DEF Disqualify
  <1>13. CASE RestoreBegin
    BY <1>13 DEF RestoreBegin, RestoreGuard, ReadCall, Fail
  <1>14. CASE RestoreNext
    BY <1>14 DEF RestoreNext, RestoreGuard, ReadCall, Fail
  <1>15. CASE RestoreSet
    BY <1>15 DEF RestoreSet, SetCall, Fail
  <1>16. CASE RestoreRead
    <2> DEFINE t == undo[Len(undo)]
    <2>1. SUFFICES ASSUME moves = 0
                   PROVE  AloneInv'
      BY <1>16 DEF RestoreRead
    <2>2. /\ undo # <<>> /\ t \in Targets /\ active = "scratch" /\ gateway = "serving" /\ late = {}
          /\ before[t] = "found"
      BY <1>16, <2>1 DEF RestoreRead
    <2>3. CASE undo' = SubSeq(undo, 1, Len(undo) - 1) /\ value[active][t] = before[t]
      <3>1. Len(undo') = Len(undo) - 1 /\ \A i \in 1 .. Len(undo') : undo'[i] = undo[i]
        BY <2>2, <2>3, Shortened
      <3>2. ASSUME NEW u \in Targets, \A i \in 1 .. Len(undo') : undo'[i] # u
            PROVE  value["scratch"][u] = "found"
        <4>1. CASE u = t
          BY <2>2, <2>3, <4>1
        <4>2. CASE u # t
          <5>1. \A i \in 1 .. Len(undo) : undo[i] # u
            <6>1. Len(undo) \in Nat /\ Len(undo') = Len(undo) - 1
              BY <3>1
            <6>2. \A i \in 1 .. Len(undo) : i \in 1 .. Len(undo') \/ i = Len(undo)
              BY <6>1
            <6> QED
              BY <3>1, <3>2, <4>2, <6>2
          <5> QED
            BY <1>16, <2>1, <2>2, <5>1 DEF RestoreRead
        <4> QED
          BY <4>1, <4>2
      <3> QED
        BY <1>16, <2>1, <2>2, <3>2 DEF RestoreRead, ReadCall, Fail
    <2>4. CASE UNCHANGED undo
      BY <1>16, <2>1, <2>2, <2>4 DEF RestoreRead, ReadCall, Fail
    <2> QED
      BY <1>16, <2>3, <2>4 DEF RestoreRead
  <1>17. CASE LateWrite
    BY <1>17 DEF LateWrite
  <1>18. CASE OperatorMoves
    BY <1>18 DEF OperatorMoves
  <1>19. CASE UNCHANGED vars
    BY <1>19
  <1> QED
    BY <1>1, <1>2, <1>3, <1>4, <1>5, <1>6, <1>7, <1>8, <1>9, <1>10, <1>11, <1>12, <1>13, <1>14, <1>15, <1>16, <1>17, <1>18, <1>19 DEF Next

\* Every step keeps the part about one move of the operator.
LEMMA EstablishedStep ==
  ASSUME TypeOK, ProgressInv, QuietInv, LateInv, AloneInv, EstablishedInv, [Next]_vars
  PROVE  EstablishedInv'
  <1> USE PlanType, ModifierMutationAssumption DEF TypeOK, ProgressInv, QuietInv, LateInv, AloneInv, EstablishedInv, IssuedIsEstablished, Clean, Untouched, Original, Start, Mutating, Qualifying, Restoring, vars, etabs, outside, facts, Goto, Answer, After, Models
  <1>1. CASE Bind
    BY <1>1 DEF Bind, Fail, ReadCall
  <1>2. CASE UnlockCheck
    BY <1>2 DEF UnlockCheck, Refuse, Fail, ReadCall
  <1>3. CASE UnlockSet
    BY <1>3 DEF UnlockSet, Fail
  <1>4. CASE UnlockVerify
    BY <1>4 DEF UnlockVerify, Refuse, Fail, ReadCall
  <1>5. CASE Reread
    BY <1>5 DEF Reread, Refuse, Fail, ReadCall
  <1>6. CASE ReadBefore
    BY <1>6 DEF ReadBefore, Refuse, Fail, ReadCall, Unread, IsNext
  <1>7. CASE SetTarget
    <2> DEFINE t == Plan[Len(applied) + 1]
    <2>1. SUFFICES ASSUME MaxMoves <= 1, step' = "readback", active = "scratch"
                   PROVE  EstablishedInv'
      BY <1>7 DEF SetTarget, SetCall
    <2>2. t \in Targets /\ Len(applied) + 1 \in 1 .. Len(Plan)
      BY <1>7 DEF SetTarget
    <2>3. Untouched("other") /\ \A i \in 1 .. Len(applied) :
            after[applied[i]] = value["scratch"][applied[i]]
      BY <1>7, <2>1 DEF SetTarget
    <2>4. /\ applied' = Append(applied, t) /\ UNCHANGED <<after, result>> /\ result = "none"
          /\ \A u \in Targets \ {t} : value'["scratch"][u] = value["scratch"][u]
          /\ value'["other"] = value["other"]
      BY <1>7, <2>1, <2>2 DEF SetTarget, SetCall
    <2>5. \A i \in 1 .. Len(applied) : /\ applied'[i] = applied[i]
                                       /\ applied[i] \in Targets \ {t}
      BY <2>2, <2>4
    <2>6. Len(applied') = Len(applied) + 1
      BY <2>4
    <2> QED
      BY <2>1, <2>3, <2>4, <2>5, <2>6
  <1>8. CASE ReadBack
    BY <1>8 DEF ReadBack, ReadCall
  <1>9. CASE Postcondition
    BY <1>9 DEF Postcondition, ReadCall
  <1>10. CASE SourcePost
    BY <1>10 DEF SourcePost
  <1>11. CASE Issue
    <2>1. SUFFICES ASSUME MaxMoves <= 1
                   PROVE  EstablishedInv'
      OBVIOUS
    <2>2. /\ Untouched("other") /\ late = {}
          /\ \A i \in 1 .. Len(Plan) : after[Plan[i]] = value["scratch"][Plan[i]]
      BY <1>11, <2>1 DEF Issue
    <2>3. \A t \in Targets : value["scratch"][t] = "wanted"
      <3> SUFFICES ASSUME NEW t \in Targets PROVE value["scratch"][t] = "wanted"
        OBVIOUS
      <3>1. PICK i \in 1 .. Len(Plan) : t = Plan[i]
        BY DEF Targets
      <3> QED
        BY <1>11, <2>2, <3>1 DEF Issue, Matches
    <2> QED
      BY <1>11, <2>2, <2>3 DEF Issue
  <1>12. CASE Disqualify
    BY <1>12 DEF Disqualify
  <1>13. CASE RestoreBegin
    BY <1>13 DEF RestoreBegin, RestoreGuard, ReadCall, Fail
  <1>14. CASE RestoreNext
    BY <1>14 DEF RestoreNext, RestoreGuard, ReadCall, Fail
  <1>15. CASE RestoreSet
    BY <1>15 DEF RestoreSet, SetCall, Fail
  <1>16. CASE RestoreRead
    BY <1>16 DEF RestoreRead, ReadCall, Fail
  <1>17. CASE LateWrite
    BY <1>17 DEF LateWrite
  <1>18. CASE OperatorMoves
    BY <1>18 DEF OperatorMoves
  <1>19. CASE UNCHANGED vars
    BY <1>19
  <1> QED
    BY <1>1, <1>2, <1>3, <1>4, <1>5, <1>6, <1>7, <1>8, <1>9, <1>10, <1>11, <1>12, <1>13, <1>14, <1>15, <1>16, <1>17, <1>18, <1>19 DEF Next

--------------------------------------------------------------------------------
(* The theorems.                                                           *)

\* The invariant holds in every reachable state.
THEOREM Invariance == Spec => []IInv
  <1>1. IInv /\ [Next]_vars => IInv'
    BY TypeStep, ProgressStep, QuietStep, LateStep, AloneStep, EstablishedStep DEF IInv
  <1> QED
    BY InitInv, <1>1, PTL DEF Spec

\* Types, and the targets entered are a prefix of the plan.
THEOREM TypeCorrect == Spec => []TypeOK
  <1>1. IInv => TypeOK
    BY DEF IInv
  <1> QED
    BY Invariance, <1>1, PTL

\* An error that says nothing has to be restored left everything alone, for any
\* plan and whatever the operator does.
THEOREM NotRequired == Spec => []NotRequiredMeansUntouched
  <1>1. IInv => NotRequiredMeansUntouched
    BY DEF IInv, QuietInv
  <1> QED
    BY Invariance, <1>1, PTL

\* RESTORED is the truth, for any plan, when the operator leaves ETABS alone.
THEOREM Restored == Spec => []RestoredIsTruthful
  <1>1. IInv => RestoredIsTruthful
    BY DEF IInv, AloneInv, Clean, RestoredIsTruthful
  <1> QED
    BY Invariance, <1>1, PTL

\* What is issued is established, for any plan, when the operator moves at most
\* once; with a second move he can bring the scratch back.
THEOREM Established == Spec => [](MaxMoves <= 1 => IssuedIsEstablished)
  <1>1. IInv => (MaxMoves <= 1 => IssuedIsEstablished)
    BY DEF IInv, EstablishedInv
  <1> QED
    BY Invariance, <1>1, PTL

================================================================================
