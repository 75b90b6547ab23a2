------------------------ MODULE SelectionTransactionProofs ------------------------
(***************************************************************************)
(* Proofs about the reversible read transactions, for any number of them:  *)
(* what a fetch sees, and that they implement ReversibleRead.              *)
(***************************************************************************)
EXTENDS SelectionTransaction, TLAPS

--------------------------------------------------------------------------------
(* The inductive invariant: what holds of the transaction inside.          *)

Selecting == {"snapshot", "entered", "combo_set", "combo_verify", "case_set", "case_verify",
              "deselect", "flag_set", "flag_verify", "selected"}
Reading == {"selected", "modal_set", "modal_verify", "fetch"}
RestoringCore == {"restore_first", "restore_second", "restore_verify"}
Leaving == {"options_check", "leave"}

\* The snapshot is what the transaction found, and nothing before it changes
\* what it is a snapshot of.
SnapshotInv(t) ==
  /\ at[t] = "snapshot" => etabs = found
  /\ at[t] # "snapshot" => \A p \in Core(t) : snapshot[t][p] = found[p]

\* The modal options are as found until they are saved, as requested for the
\* fetch, and as found again after a restoration that did not fail.
OptionsInv(t) ==
  /\ modal[t] \in {"unsaved", found[Options(t)]}
  /\ modal[t] = "unsaved" => etabs[Options(t)] = found[Options(t)]
  /\ at[t] \in Selecting \/ (at[t] \in RestoringCore /\ goal[t] # "exit") => modal[t] = "unsaved"
  /\ at[t] \in {"modal_set", "modal_verify", "modal_restore", "modal_reread"} => modal[t] # "unsaved"
  /\ at[t] \in {"modal_restore", "modal_reread"} => goal[t] = "exit"
  /\ at[t] = "fetch" => etabs[Options(t)] = IF modal[t] = "unsaved" THEN found[Options(t)] ELSE t
  /\ at[t] \in RestoringCore \cup Leaving /\ ~unrestored[t] => etabs[Options(t)] = found[Options(t)]

\* The core selection is exact while it is read, and as found when nothing
\* failed at the end; the parts of the other kind of transaction are as found.
CoreInv(t) ==
  /\ at[t] \in {"combo_set", "combo_verify", "case_set", "case_verify"} => t \in TableReads
  /\ at[t] \in {"deselect", "flag_set", "flag_verify"} => t \notin TableReads
  /\ goal[t] # "exit" => t \in TableReads
  /\ \A p \in Parts \ (Core(t) \cup {Options(t)}) : etabs[p] = found[p]
  /\ at[t] \in Reading =>
       \E p \in Core(t) :
         /\ etabs[p] = t
         /\ \A q \in Core(t) \ {p} : etabs[q] = found[q]
  /\ at[t] \in Leaving /\ ~unrestored[t] => \A p \in Core(t) : etabs[p] = found[p]

InsideInv(t) == SnapshotInv(t) /\ OptionsInv(t) /\ CoreInv(t)

\* A transaction that has not begun holds nothing, and one not done is not over.
OutsideInv(t) ==
  /\ at[t] = "outside" => modal[t] = "unsaved" /\ goal[t] = "exit"
  /\ at[t] # "done" => outcome[t] = "none"

IInv ==
  /\ TypeOK
  /\ \A t \in Reads : OutsideInv(t) /\ (Inside(t) => InsideInv(t))

--------------------------------------------------------------------------------

\* Selections are never markers, and the parts of the two kinds are apart.
LEMMA Names ==
  ASSUME NEW t \in Reads
  PROVE  /\ t \notin {"found", "odd", "empty", "unread", "unsaved", Nobody}
         /\ Core(t) \subseteq Parts /\ Options(t) \in Parts \ Core(t)
         /\ "unsaved" \notin Choice
  BY SelectionAssumption DEF Core, Options, Parts, Choice

\* Every initial state satisfies the invariant.
LEMMA InitInv == Init => IInv
  BY SelectionAssumption
  DEF Init, IInv, TypeOK, OutsideInv, Inside, Untouched, Parts, Choice, Step

\* A setter leaves a choice in every part.
LEMMA WriteType ==
  ASSUME etabs \in [Parts -> Choice], NEW part \in Parts, NEW wish \in Choice, Write(part, wish)
  PROVE  /\ etabs' \in [Parts -> Choice]
         /\ \A p \in Parts \ {part} : etabs'[p] = etabs[p]
  BY DEF Write, Choice

\* A step of a transaction keeps the types.
LEMMA TypeStep ==
  ASSUME NEW t \in Reads, Transaction(t), TypeOK, OutsideInv(t), Inside(t) => InsideInv(t)
  PROVE  TypeOK'
  <1> USE SelectionAssumption, Names DEF TypeOK, Inside, Step, Goto, vars, local
  <1>1. CASE TakeSnapshot(t)
    <2>1. PICK options \in {etabs["table_options"], "unread"} :
             snapshot' = [snapshot EXCEPT ![t] = [etabs EXCEPT !["table_options"] = options]]
      BY <1>1 DEF TakeSnapshot
    <2>2. [etabs EXCEPT !["table_options"] = options] \in [Parts -> Choice \cup {"unread"}]
      BY DEF Parts
    <2>3. snapshot' \in [Reads -> [Parts -> Choice \cup {"unread"}]]
      BY <2>1, <2>2
    <2> QED
      BY <1>1, <2>3 DEF TakeSnapshot
  <1>2. CASE SnapshotFails(t)
    BY <1>2 DEF SnapshotFails
  <1>3. CASE SnapshotOnly(t)
    BY <1>3 DEF SnapshotOnly
  <1>4. CASE BeginSelect(t)
    BY <1>4 DEF BeginSelect
  <1>5. CASE SelectSetter(t)
    <2>1. /\ \E part \in Parts, wish \in Choice : Write(part, wish)
          /\ \E next \in Step : AfterSetter(t, next)
          /\ at[t] \notin {"outside", "done"}
          /\ UNCHANGED <<lock, found, snapshot, modal, unrestored, outcome>>
      BY <1>5 DEF SelectSetter, Parts, Choice
    <2>2. etabs' \in [Parts -> Choice]
      BY <2>1, WriteType
    <2>3. /\ at' \in [Reads -> Step] /\ at'[t] \notin {"outside", "done"}
          /\ \A u \in Reads \ {t} : at'[u] = at[u]
      BY <1>5 DEF SelectSetter, AfterSetter, RollBack, BodyRaises
    <2>4. goal' \in [Reads -> {"combo", "case", "exit"}]
      BY <2>1 DEF AfterSetter, RollBack, BodyRaises
    <2>5. raised' \in [Reads -> BOOLEAN]
      BY <2>1 DEF AfterSetter, RollBack, BodyRaises
    <2> QED
      BY <2>1, <2>2, <2>3, <2>4, <2>5
  <1>6. CASE Verify(t)
    BY <1>6 DEF Verify, Selected, Wanted, RollBack, BodyRaises
  <1>7. CASE AfterSelection(t)
    <2>1. etabs[Options(t)] \in Choice
      OBVIOUS
    <2>2. modal' \in [Reads -> Choice \cup {"unsaved"}]
      BY <1>7, <2>1 DEF AfterSelection
    <2>3. /\ at[t] = "selected" /\ \E next \in {"modal_set", "fetch", "exit"} : Goto(t, next)
          /\ UNCHANGED <<etabs, lock, found, snapshot, goal, unrestored, outcome>>
      BY <1>7 DEF AfterSelection, BodyRaises
    <2>4. raised' \in [Reads -> BOOLEAN]
      BY <1>7 DEF AfterSelection, BodyRaises
    <2>5. /\ at' \in [Reads -> Step] /\ at'[t] \notin {"outside", "done"}
          /\ \A u \in Reads \ {t} : at'[u] = at[u]
      BY <2>3
    <2> QED
      BY <2>2, <2>3, <2>4, <2>5
  <1>8. CASE ModalSet(t)
    <2>1. etabs' \in [Parts -> Choice]
      BY <1>8, WriteType DEF ModalSet, Choice
    <2> QED
      BY <1>8, <2>1 DEF ModalSet, BodyRaises
  <1>9. CASE ModalVerify(t)
    BY <1>9 DEF ModalVerify, BodyRaises
  <1>10. CASE Fetch(t)
    BY <1>10 DEF Fetch, BodyRaises
  <1>11. CASE BeginExit(t)
    BY <1>11 DEF BeginExit
  <1>12. CASE ModalRestore(t)
    <2>1. modal[t] \in Choice
      BY <1>12 DEF ModalRestore, InsideInv, OptionsInv
    <2>2. etabs' \in [Parts -> Choice]
      BY <1>12, <2>1, WriteType DEF ModalRestore
    <2> QED
      BY <1>12, <2>2 DEF ModalRestore, OptionsFail
  <1>13. CASE ModalReread(t)
    BY <1>13 DEF ModalReread, OptionsFail
  <1>14. CASE RestoreFirst(t)
    <2>1. InsideInv(t) /\ at[t] = "restore_first"
      BY <1>14 DEF RestoreFirst
    <2>2. snapshot[t]["cases"] \in Choice \/ t \notin TableReads
      BY <2>1 DEF InsideInv, SnapshotInv, Core, Parts
    <2>3. snapshot[t]["flags"] \in Choice \/ t \in TableReads
      BY <2>1 DEF InsideInv, SnapshotInv, Core, Parts
    <2>4. \E part \in Parts, wish \in Choice : Write(part, wish)
      BY <1>14, <2>2, <2>3 DEF RestoreFirst, Parts, Choice
    <2>5. etabs' \in [Parts -> Choice]
      BY <2>4, WriteType
    <2> QED
      BY <1>14, <2>1, <2>5 DEF RestoreFirst, CoreFails, BodyRaises
  <1>15. CASE RestoreSecond(t)
    <2>1. InsideInv(t) /\ at[t] = "restore_second"
      BY <1>15 DEF RestoreSecond
    <2>2. snapshot[t]["combos"] \in Choice \/ t \notin TableReads
      BY <2>1 DEF InsideInv, SnapshotInv, Core, Parts
    <2>3. snapshot[t]["flags"] \in Choice \/ t \in TableReads
      BY <2>1 DEF InsideInv, SnapshotInv, Core, Parts
    <2>4. \E part \in Parts, wish \in Choice : Write(part, wish)
      BY <1>15, <2>2, <2>3 DEF RestoreSecond, Parts, Choice
    <2>5. etabs' \in [Parts -> Choice]
      BY <2>4, WriteType
    <2> QED
      BY <1>15, <2>1, <2>5 DEF RestoreSecond, CoreFails, BodyRaises
  <1>16. CASE RestoreVerify(t)
    BY <1>16 DEF RestoreVerify, CoreRestored, AfterRestore, CoreFails, BodyRaises
  <1>17. CASE OptionsCheck(t)
    BY <1>17 DEF OptionsCheck
  <1>18. CASE Leave(t)
    <2>1. snapshot' \in [Reads -> [Parts -> Choice \cup {"unread"}]]
      BY <1>18 DEF Leave, Untouched, Choice
    <2>2. outcome' \in [Reads -> {"none", "refused", "clean", "raised", "restore_error"}]
      BY <1>18 DEF Leave
    <2>3. /\ modal' \in [Reads -> Choice \cup {"unsaved"}]
          /\ raised' \in [Reads -> BOOLEAN] /\ unrestored' \in [Reads -> BOOLEAN]
      BY <1>18 DEF Leave
    <2>4. /\ at[t] = "leave" /\ lock = t /\ lock' = Nobody
          /\ at' \in [Reads -> Step] /\ at'[t] = "done"
          /\ \A u \in Reads \ {t} : at'[u] = at[u]
          /\ UNCHANGED <<etabs, found, goal>>
      BY <1>18 DEF Leave
    <2>5. \A u \in Reads : Inside(u)' <=> lock' = u
      BY <2>4
    <2> QED
      BY <2>1, <2>2, <2>3, <2>4, <2>5
  <1> QED
    BY <1>1, <1>2, <1>3, <1>4, <1>5, <1>6, <1>7, <1>8, <1>9, <1>10, <1>11, <1>12, <1>13, <1>14, <1>15, <1>16, <1>17, <1>18 DEF Transaction

\* A step of a transaction keeps what holds of it outside.
LEMMA OutsideStep ==
  ASSUME NEW t \in Reads, Transaction(t), TypeOK, OutsideInv(t)
  PROVE  OutsideInv(t)'
  <1> USE DEF TypeOK, OutsideInv, Inside, Step, Goto, vars, local
  <1>1. CASE TakeSnapshot(t)
    BY <1>1 DEF TakeSnapshot
  <1>2. CASE SnapshotFails(t)
    BY <1>2 DEF SnapshotFails
  <1>3. CASE SnapshotOnly(t)
    BY <1>3 DEF SnapshotOnly
  <1>4. CASE BeginSelect(t)
    BY <1>4 DEF BeginSelect
  <1>5. CASE SelectSetter(t)
    BY <1>5 DEF SelectSetter, Write, AfterSetter, RollBack, BodyRaises
  <1>6. CASE Verify(t)
    BY <1>6 DEF Verify, Selected, Wanted, RollBack, BodyRaises
  <1>7. CASE AfterSelection(t)
    BY <1>7 DEF AfterSelection, BodyRaises
  <1>8. CASE ModalSet(t)
    BY <1>8 DEF ModalSet, Write, BodyRaises
  <1>9. CASE ModalVerify(t)
    BY <1>9 DEF ModalVerify, BodyRaises
  <1>10. CASE Fetch(t)
    BY <1>10 DEF Fetch, BodyRaises
  <1>11. CASE BeginExit(t)
    BY <1>11 DEF BeginExit
  <1>12. CASE ModalRestore(t)
    BY <1>12 DEF ModalRestore, Write, OptionsFail
  <1>13. CASE ModalReread(t)
    BY <1>13 DEF ModalReread, OptionsFail
  <1>14. CASE RestoreFirst(t)
    BY <1>14 DEF RestoreFirst, Write, CoreFails, BodyRaises
  <1>15. CASE RestoreSecond(t)
    BY <1>15 DEF RestoreSecond, Write, CoreFails, BodyRaises
  <1>16. CASE RestoreVerify(t)
    BY <1>16 DEF RestoreVerify, CoreRestored, AfterRestore, CoreFails, BodyRaises
  <1>17. CASE OptionsCheck(t)
    BY <1>17 DEF OptionsCheck
  <1>18. CASE Leave(t)
    BY <1>18 DEF Leave
  <1> QED
    BY <1>1, <1>2, <1>3, <1>4, <1>5, <1>6, <1>7, <1>8, <1>9, <1>10, <1>11, <1>12, <1>13, <1>14, <1>15, <1>16, <1>17, <1>18 DEF Transaction

\* A step of a transaction keeps its snapshot.
LEMMA SnapshotStep ==
  ASSUME NEW t \in Reads, Transaction(t), TypeOK, Inside(t)', SnapshotInv(t)
  PROVE  SnapshotInv(t)'
  <1> USE Names DEF TypeOK, SnapshotInv, Inside, Goto, vars, local, Core, Parts, Untouched
  <1>1. CASE TakeSnapshot(t)
    BY <1>1 DEF TakeSnapshot
  <1>2. CASE SnapshotFails(t)
    BY <1>2 DEF SnapshotFails
  <1>3. CASE SnapshotOnly(t)
    BY <1>3 DEF SnapshotOnly
  <1>4. CASE BeginSelect(t)
    BY <1>4 DEF BeginSelect
  <1>5. CASE SelectSetter(t)
    BY <1>5 DEF SelectSetter, Write, AfterSetter, RollBack, BodyRaises
  <1>6. CASE Verify(t)
    BY <1>6 DEF Verify, Selected, Wanted, RollBack, BodyRaises
  <1>7. CASE AfterSelection(t)
    BY <1>7 DEF AfterSelection, BodyRaises
  <1>8. CASE ModalSet(t)
    BY <1>8 DEF ModalSet, Write, BodyRaises
  <1>9. CASE ModalVerify(t)
    BY <1>9 DEF ModalVerify, BodyRaises
  <1>10. CASE Fetch(t)
    BY <1>10 DEF Fetch, BodyRaises
  <1>11. CASE BeginExit(t)
    BY <1>11 DEF BeginExit
  <1>12. CASE ModalRestore(t)
    BY <1>12 DEF ModalRestore, Write, OptionsFail
  <1>13. CASE ModalReread(t)
    BY <1>13 DEF ModalReread, OptionsFail
  <1>14. CASE RestoreFirst(t)
    BY <1>14 DEF RestoreFirst, Write, CoreFails, BodyRaises
  <1>15. CASE RestoreSecond(t)
    BY <1>15 DEF RestoreSecond, Write, CoreFails, BodyRaises
  <1>16. CASE RestoreVerify(t)
    BY <1>16 DEF RestoreVerify, CoreRestored, AfterRestore, CoreFails, BodyRaises
  <1>17. CASE OptionsCheck(t)
    BY <1>17 DEF OptionsCheck
  <1>18. CASE Leave(t)
    BY <1>18 DEF Leave
  <1> QED
    BY <1>1, <1>2, <1>3, <1>4, <1>5, <1>6, <1>7, <1>8, <1>9, <1>10, <1>11, <1>12, <1>13, <1>14, <1>15, <1>16, <1>17, <1>18 DEF Transaction

\* A step of a transaction keeps the options part.
LEMMA OptionsStep ==
  ASSUME NEW t \in Reads, Transaction(t), TypeOK, Inside(t)', InsideInv(t)
  PROVE  OptionsInv(t)'
  <1> USE Names DEF TypeOK, InsideInv, SnapshotInv, OptionsInv, Inside, Goto, vars, local, Selecting, RestoringCore, Leaving, Core, Options, Parts, Step
  <1>1. CASE TakeSnapshot(t)
    BY <1>1 DEF TakeSnapshot
  <1>2. CASE SnapshotFails(t)
    BY <1>2 DEF SnapshotFails
  <1>3. CASE SnapshotOnly(t)
    BY <1>3 DEF SnapshotOnly
  <1>4. CASE BeginSelect(t)
    BY <1>4 DEF BeginSelect
  <1>5. CASE SelectSetter(t)
    BY <1>5 DEF SelectSetter, Write, AfterSetter, RollBack, BodyRaises
  <1>6. CASE Verify(t)
    BY <1>6 DEF Verify, Selected, Wanted, RollBack, BodyRaises
  <1>7. CASE AfterSelection(t)
    BY <1>7 DEF AfterSelection, BodyRaises
  <1>8. CASE ModalSet(t)
    BY <1>8 DEF ModalSet, Write, BodyRaises
  <1>9. CASE ModalVerify(t)
    BY <1>9 DEF ModalVerify, BodyRaises
  <1>10. CASE Fetch(t)
    BY <1>10 DEF Fetch, BodyRaises
  <1>11. CASE BeginExit(t)
    BY <1>11 DEF BeginExit
  <1>12. CASE ModalRestore(t)
    <2>2. modal[t] # "unsaved" /\ UNCHANGED <<modal, goal, found>>
      BY <1>12 DEF ModalRestore
    <2>3. at'[t] \in {"modal_reread", "restore_first"} /\ (at'[t] = "restore_first" => unrestored'[t])
      BY <1>12 DEF ModalRestore, OptionsFail
    <2>4. goal[t] = "exit"
      BY <1>12 DEF ModalRestore
    <2> QED
      BY <2>2, <2>3, <2>4
  <1>13. CASE ModalReread(t)
    <2>1. modal[t] # "unsaved" /\ goal[t] = "exit" /\ UNCHANGED <<modal, goal, found, etabs>>
      BY <1>13 DEF ModalReread
    <2>2. /\ at'[t] = "restore_first"
          /\ etabs[Options(t)] = modal[t] \/ unrestored'[t]
      BY <1>13 DEF ModalReread, OptionsFail
    <2> QED
      BY <2>1, <2>2
  <1>14. CASE RestoreFirst(t)
    BY <1>14 DEF RestoreFirst, Write, CoreFails, BodyRaises
  <1>15. CASE RestoreSecond(t)
    BY <1>15 DEF RestoreSecond, Write, CoreFails, BodyRaises
  <1>16. CASE RestoreVerify(t)
    BY <1>16 DEF RestoreVerify, CoreRestored, AfterRestore, CoreFails, BodyRaises
  <1>17. CASE OptionsCheck(t)
    BY <1>17 DEF OptionsCheck
  <1>18. CASE Leave(t)
    BY <1>18 DEF Leave
  <1> QED
    BY <1>1, <1>2, <1>3, <1>4, <1>5, <1>6, <1>7, <1>8, <1>9, <1>10, <1>11, <1>12, <1>13, <1>14, <1>15, <1>16, <1>17, <1>18 DEF Transaction

\* A step of a transaction keeps the core part.
LEMMA CoreStep ==
  ASSUME NEW t \in Reads, Transaction(t), TypeOK, Inside(t)', InsideInv(t)
  PROVE  CoreInv(t)'
  <1> USE Names DEF TypeOK, InsideInv, SnapshotInv, CoreInv, Inside, Goto, vars, local, Reading, Leaving, Core, Options, Parts, Step
  <1>1. CASE TakeSnapshot(t)
    BY <1>1 DEF TakeSnapshot
  <1>2. CASE SnapshotFails(t)
    BY <1>2 DEF SnapshotFails
  <1>3. CASE SnapshotOnly(t)
    BY <1>3 DEF SnapshotOnly
  <1>4. CASE BeginSelect(t)
    BY <1>4 DEF BeginSelect
  <1>5. CASE SelectSetter(t)
    <2>1. \A p \in Parts \ Core(t) : etabs'[p] = etabs[p]
      BY <1>5 DEF SelectSetter, Write
    <2>2. at'[t] \notin Reading \cup Leaving /\ UNCHANGED found
      BY <1>5 DEF SelectSetter, AfterSetter, RollBack, BodyRaises
    <2>3. /\ at'[t] \in {"combo_verify", "case_verify"} \/ goal'[t] # "exit" => t \in TableReads
          /\ at'[t] \in {"flag_set", "flag_verify"} => t \notin TableReads
          /\ at'[t] \notin {"combo_set", "case_set", "deselect"}
      BY <1>5 DEF SelectSetter, AfterSetter, RollBack, BodyRaises
    <2> QED
      BY <2>1, <2>2, <2>3
  <1>6. CASE Verify(t)
    <2>1. UNCHANGED <<etabs, found, unrestored>> /\ at'[t] \notin Leaving
          /\ (at'[t] \in Reading => Selected(t) /\ at[t] \in {"combo_verify", "case_verify", "flag_verify"})
      BY <1>6 DEF Verify, RollBack, BodyRaises
    <2>2. ASSUME Selected(t), at[t] \in {"combo_verify", "case_verify", "flag_verify"}
          PROVE  \E p \in Core(t) : etabs[p] = t /\ \A q \in Core(t) \ {p} : etabs[q] = found[q]
      <3>1. CASE at[t] = "combo_verify"
        <4>1. "combos" \in Core(t) /\ etabs["combos"] = t
          BY <2>2, <3>1 DEF Selected, Wanted
        <4>2. \A q \in Core(t) \ {"combos"} : etabs[q] = Wanted(t)[q] /\ Wanted(t)[q] = snapshot[t][q]
          BY <2>2, <3>1 DEF Selected, Wanted
        <4>3. \A q \in Core(t) : snapshot[t][q] = found[q]
          BY <2>2
        <4> QED
          BY <4>1, <4>2, <4>3
      <3>2. CASE at[t] = "case_verify"
        <4>1. "cases" \in Core(t) /\ etabs["cases"] = t
          BY <2>2, <3>2 DEF Selected, Wanted
        <4>2. \A q \in Core(t) \ {"cases"} : etabs[q] = Wanted(t)[q] /\ Wanted(t)[q] = snapshot[t][q]
          BY <2>2, <3>2 DEF Selected, Wanted
        <4>3. \A q \in Core(t) : snapshot[t][q] = found[q]
          BY <2>2
        <4> QED
          BY <4>1, <4>2, <4>3
      <3>3. CASE at[t] = "flag_verify"
        <4>1. "flags" \in Core(t) /\ etabs["flags"] = t
          BY <2>2, <3>3 DEF Selected, Wanted
        <4> QED
          BY <4>1
      <3> QED
        BY <2>2, <3>1, <3>2, <3>3
    <2>3. /\ at'[t] \notin {"combo_set", "combo_verify", "case_set", "case_verify", "deselect",
                          "flag_set", "flag_verify"}
          /\ goal'[t] # "exit" => t \in TableReads
      BY <1>6 DEF Verify, RollBack, BodyRaises
    <2> QED
      BY <2>1, <2>2, <2>3
  <1>7. CASE AfterSelection(t)
    BY <1>7 DEF AfterSelection, BodyRaises
  <1>8. CASE ModalSet(t)
    BY <1>8 DEF ModalSet, Write, BodyRaises
  <1>9. CASE ModalVerify(t)
    BY <1>9 DEF ModalVerify, BodyRaises
  <1>10. CASE Fetch(t)
    BY <1>10 DEF Fetch, BodyRaises
  <1>11. CASE BeginExit(t)
    BY <1>11 DEF BeginExit
  <1>12. CASE ModalRestore(t)
    BY <1>12 DEF ModalRestore, Write, OptionsFail
  <1>13. CASE ModalReread(t)
    BY <1>13 DEF ModalReread, OptionsFail
  <1>14. CASE RestoreFirst(t)
    BY <1>14 DEF RestoreFirst, Write, CoreFails, BodyRaises
  <1>15. CASE RestoreSecond(t)
    BY <1>15 DEF RestoreSecond, Write, CoreFails, BodyRaises
  <1>16. CASE RestoreVerify(t)
    BY <1>16 DEF RestoreVerify, CoreRestored, AfterRestore, CoreFails, BodyRaises
  <1>17. CASE OptionsCheck(t)
    BY <1>17 DEF OptionsCheck
  <1>18. CASE Leave(t)
    BY <1>18 DEF Leave
  <1> QED
    BY <1>1, <1>2, <1>3, <1>4, <1>5, <1>6, <1>7, <1>8, <1>9, <1>10, <1>11, <1>12, <1>13, <1>14, <1>15, <1>16, <1>17, <1>18 DEF Transaction

\* A step of one transaction leaves the others' variables alone.
LEMMA OthersStep ==
  ASSUME TypeOK, NEW t \in Reads, Acquire(t) \/ Transaction(t), NEW u \in Reads, u # t
  PROVE  /\ UNCHANGED <<at[u], modal[u], goal[u], outcome[u]>>
         /\ ~Inside(u)
  <1>1. CASE Acquire(t)
    BY <1>1, SelectionAssumption DEF Acquire, Goto, TypeOK
  <1>2. CASE Transaction(t)
    <2>1. Inside(t)
      BY <1>2 DEF Transaction, TakeSnapshot, SnapshotFails, SnapshotOnly, BeginSelect, SelectSetter,
         Verify, AfterSelection, ModalSet, ModalVerify, Fetch, BeginExit, ModalRestore, ModalReread,
         RestoreFirst, RestoreSecond, RestoreVerify, OptionsCheck, Leave, Inside
    <2>2. ~Inside(u)
      BY <2>1 DEF TypeOK
    <2>3. UNCHANGED <<at[u], modal[u], goal[u], outcome[u]>>
      BY <1>2 DEF Transaction, TakeSnapshot, SnapshotFails, SnapshotOnly, BeginSelect, SelectSetter,
         Verify, AfterSelection, ModalSet, ModalVerify, Fetch, BeginExit, ModalRestore, ModalReread,
         RestoreFirst, RestoreSecond, RestoreVerify, OptionsCheck, Leave, Goto, AfterSetter,
         RollBack, BodyRaises, OptionsFail, CoreFails, AfterRestore, TypeOK
    <2> QED
      BY <2>2, <2>3
  <1> QED
    BY <1>1, <1>2

\* A transaction that acts is inside.
LEMMA ActsInside ==
  ASSUME NEW t \in Reads, Transaction(t)
  PROVE  Inside(t)
  BY DEF Transaction, TakeSnapshot, SnapshotFails, SnapshotOnly, BeginSelect, SelectSetter,
     Verify, AfterSelection, ModalSet, ModalVerify, Fetch, BeginExit, ModalRestore, ModalReread,
     RestoreFirst, RestoreSecond, RestoreVerify, OptionsCheck, Leave, Inside

\* Every step keeps the invariant.
LEMMA NextInv ==
  ASSUME IInv, [Next]_vars
  PROVE  IInv'
  <1>1. ASSUME NEW t \in Reads, Acquire(t)
        PROVE  IInv'
    <2>1. TypeOK'
      BY <1>1, SelectionAssumption DEF IInv, TypeOK, Acquire, Goto, Inside, Step
    <2>2. OutsideInv(t)' /\ InsideInv(t)'
      BY <1>1, Names DEF IInv, TypeOK, Acquire, Goto, OutsideInv, InsideInv, SnapshotInv,
         OptionsInv, CoreInv, Selecting, Reading, RestoringCore, Leaving
    <2>3. ASSUME NEW u \in Reads, u # t
          PROVE  OutsideInv(u)' /\ ~Inside(u)'
      BY <1>1, <2>3, OthersStep DEF IInv, OutsideInv, Inside
    <2> QED
      BY <2>1, <2>2, <2>3 DEF IInv
  <1>2. ASSUME NEW t \in Reads, Transaction(t)
        PROVE  IInv'
    <2>1. Inside(t) /\ InsideInv(t) /\ OutsideInv(t) /\ TypeOK
      BY <1>2, ActsInside DEF IInv
    <2>2. TypeOK' /\ OutsideInv(t)'
      BY <1>2, <2>1, TypeStep, OutsideStep
    <2>3. Inside(t)' => InsideInv(t)'
      BY <1>2, <2>1, SnapshotStep, OptionsStep, CoreStep DEF InsideInv
    <2>4. ASSUME NEW u \in Reads, u # t
          PROVE  OutsideInv(u)' /\ ~Inside(u)'
      BY <1>2, <2>1, <2>4, OthersStep DEF IInv, OutsideInv, Inside
    <2> QED
      BY <2>2, <2>3, <2>4 DEF IInv
  <1>3. CASE UNCHANGED vars
    BY <1>3 DEF vars, local, IInv, TypeOK, OutsideInv, InsideInv, SnapshotInv, OptionsInv, CoreInv,
       Inside
  <1> QED
    BY <1>1, <1>2, <1>3 DEF Next

--------------------------------------------------------------------------------
(* The theorems.                                                           *)

\* The invariant holds in every reachable state.
THEOREM Invariance == Spec => []IInv
  BY InitInv, NextInv, PTL DEF Spec

\* Types, and that whoever is inside holds the lock.
THEOREM TypeCorrect == Spec => []TypeOK
  <1>1. IInv => TypeOK
    BY DEF IInv
  <1> QED
    BY Invariance, <1>1, PTL

\* Every fetch sees the selection of its own transaction, for any number of
\* transactions and along every failure of the setters.
THEOREM FetchExact == Spec => []FetchSeesSelection
  <1>1. ASSUME IInv
        PROVE  FetchSeesSelection
    <2> SUFFICES ASSUME NEW t \in Reads, at[t] = "fetch"
                 PROVE  /\ \E p \in Core(t) :
                             /\ etabs[p] = t
                             /\ \A q \in Core(t) \ {p} : etabs[q] = found[q]
                        /\ \A q \in Parts \ Core(t) :
                             etabs[q] = IF q = Options(t) /\ modal[t] # "unsaved"
                                        THEN t ELSE found[q]
      BY DEF FetchSeesSelection
    <2>1. OptionsInv(t) /\ CoreInv(t)
      BY <1>1 DEF IInv, Inside, InsideInv
    <2> QED
      BY <2>1 DEF OptionsInv, CoreInv, Reading
  <1> QED
    BY Invariance, <1>1, PTL

\* The initial states are those of the abstraction.
LEMMA InitRefines == Init => Reversible!Init
  BY DEF Init, Ended, Reversible!Init

\* An outcome recorded is an end of the abstraction.
LEMMA Ends ==
  ASSUME TypeOK, NEW t \in Reads, NEW ending \in {"refused", "clean", "raised", "restore_error"},
         NEW how \in {"restored", "broken"}, how = "broken" <=> ending = "restore_error",
         outcome' = [outcome EXCEPT ![t] = ending]
  PROVE  Ended' = [Ended EXCEPT ![t] = how]
  BY DEF Ended, TypeOK

\* Entering is a begin, the two ends are ends, and everything between is a
\* change by the holder of the lock.
LEMMA StepRefines ==
  ASSUME IInv, [Next]_vars
  PROVE  [Reversible!Next]_Reversible!vars
  <1>1. ASSUME NEW t \in Reads, Acquire(t)
        PROVE  Reversible!Begin(t)
    BY <1>1 DEF Acquire, IInv, OutsideInv, Ended, Reversible!Begin
  <1>2. ASSUME NEW t \in Reads, SnapshotFails(t)
        PROVE  Reversible!End(t, "restored")
    <2>1. lock = t /\ etabs = found
      BY <1>2 DEF SnapshotFails, IInv, TypeOK, Inside, InsideInv, SnapshotInv
    <2> QED
      BY <1>2, <2>1, Ends DEF SnapshotFails, IInv, Reversible!End
  <1>3. ASSUME NEW t \in Reads, Leave(t)
        PROVE  \E how \in {"restored", "broken"} : Reversible!End(t, how)
    <2>1. lock = t /\ InsideInv(t) /\ at[t] = "leave" /\ TypeOK
      BY <1>3 DEF Leave, IInv, TypeOK, Inside
    <2>2. CASE unrestored[t]
      <3>1. outcome' = [outcome EXCEPT ![t] = "restore_error"]
        BY <1>3, <2>2 DEF Leave
      <3>2. Reversible!End(t, "broken")
        BY <1>3, <2>1, <3>1, Ends DEF Leave, Reversible!End
      <3> QED
        BY <3>2
    <2>3. CASE ~unrestored[t]
      <3>1. PICK ending \in {"raised", "clean"} : outcome' = [outcome EXCEPT ![t] = ending]
        BY <1>3, <2>3 DEF Leave
      <3>2. etabs = found
        <4>1. \A p \in Parts : etabs[p] = found[p]
          BY <2>1, <2>3 DEF InsideInv, OptionsInv, CoreInv, Leaving
        <4> QED
          BY <2>1, <4>1 DEF TypeOK
      <3>3. Reversible!End(t, "restored")
        BY <1>3, <2>1, <3>1, <3>2, Ends DEF Leave, Reversible!End
      <3> QED
        BY <3>3
    <2> QED
      BY <2>2, <2>3
  <1>4. ASSUME NEW t \in Reads, Transaction(t), ~SnapshotFails(t), ~Leave(t)
        PROVE  Reversible!Change
    <2>1. lock # Nobody
      BY <1>4, ActsInside, SelectionAssumption DEF IInv, TypeOK
    <2>2. UNCHANGED <<lock, found, outcome>>
      BY <1>4 DEF Transaction, TakeSnapshot, SnapshotOnly, BeginSelect, SelectSetter,
         Verify, AfterSelection, ModalSet, ModalVerify, Fetch, BeginExit, ModalRestore,
         ModalReread, RestoreFirst, RestoreSecond, RestoreVerify, OptionsCheck
    <2> QED
      BY <2>1, <2>2 DEF Ended, Reversible!Change
  <1>5. CASE UNCHANGED vars
    BY <1>5 DEF vars, local, Ended, Reversible!vars
  <1> QED
    BY <1>1, <1>2, <1>3, <1>4, <1>5 DEF Next, Reversible!Next

\* The transactions implement ReversibleRead: one at a time, and each leaves
\* ETABS as it found it or reports that it did not.
THEOREM Refinement == Spec => ImplementsReversibleRead
  BY Invariance, InitRefines, StepRefines, PTL
  DEF Spec, ImplementsReversibleRead, Reversible!Spec

================================================================================
