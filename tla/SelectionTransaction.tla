--------------------------- MODULE SelectionTransaction ---------------------------
(***************************************************************************)
(* DatabaseTablesReadTransaction and ResultsSetupReadTransaction           *)
(* (etabs/_safety_legacy.py): a read of ETABS results selects a load case  *)
(* or combination for output, fetches, and puts the selection back as it   *)
(* was found.  Several sessions of the process, each with its own worker   *)
(* thread, are attached to the same ETABS; a process-local lock keeps      *)
(* their transactions apart.                                               *)
(*                                                                         *)
(* A step is one call on ETABS, or consecutive reads: while the lock is    *)
(* held nothing else of the program changes what they read.  What the      *)
(* operator does in ETABS meanwhile is left out: no lock reaches it.       *)
(* A transaction reads through the DatabaseTables ("table") or through     *)
(* Results.Setup ("results"); its name stands for the selection it makes.  *)
(***************************************************************************)
EXTENDS FiniteSets

CONSTANTS
  TableReads,    \* transactions on DatabaseTables
  ResultReads,   \* transactions on Results.Setup
  Nobody         \* the lock is free

Reads == TableReads \cup ResultReads

ASSUME SelectionAssumption ==
  /\ TableReads \cap ResultReads = {}
  /\ Nobody \notin Reads
  /\ Reads \cap {"found", "odd", "empty", "unread", "unsaved"} = {}

VARIABLES
  etabs,     \* selections and modal output options ETABS holds
  lock,      \* the transaction that holds _PROCESS_LOCAL_ACQUISITION_LOCK
  at,        \* where each transaction stands
  snapshot,  \* the selections each transaction found
  modal,     \* the modal options it saved, or "unsaved"
  goal,      \* why its core selection is being restored
  raised,    \* its body raised
  unrestored, \* its exit recorded a failed restoration
  outcome,   \* how it ended
  found      \* history: what ETABS held when the lock was last taken

local == <<at, snapshot, modal, goal, raised, unrestored, outcome>>
vars == <<etabs, lock, found, local>>

\* The parts of the state of ETABS that a transaction may change.
Parts == {"cases", "combos", "table_options", "flags", "mode_options"}

\* What a part may hold: what the operator had chosen, what a transaction
\* chose, nothing, or a mixture some call left behind.
Choice == {"found", "odd", "empty"} \cup Reads

Core(t) == IF t \in TableReads THEN {"cases", "combos"} ELSE {"flags"}
Options(t) == IF t \in TableReads THEN "table_options" ELSE "mode_options"

Step == {"outside", "snapshot", "entered", "combo_set", "combo_verify",
         "case_set", "case_verify", "deselect", "flag_set", "flag_verify",
         "selected", "modal_set", "modal_verify", "fetch", "exit",
         "modal_restore", "modal_reread", "restore_first", "restore_second",
         "restore_verify", "options_check", "leave", "done"}

Untouched == [p \in Parts |-> "found"]

Init ==
  /\ etabs = Untouched
  /\ lock = Nobody
  /\ at = [t \in Reads |-> "outside"]
  /\ snapshot = [t \in Reads |-> Untouched]
  /\ modal = [t \in Reads |-> "unsaved"]
  /\ goal = [t \in Reads |-> "exit"]
  /\ raised = [t \in Reads |-> FALSE]
  /\ unrestored = [t \in Reads |-> FALSE]
  /\ outcome = [t \in Reads |-> "none"]
  /\ found = Untouched

--------------------------------------------------------------------------------

Goto(t, step) == at' = [at EXCEPT ![t] = step]

\* A setter of this part is called: whatever it answers, the part may hold what
\* was wished, what it held before, or something else.
Write(part, wish) ==
  \E new \in {wish, etabs[part], "odd"} : etabs' = [etabs EXCEPT ![part] = new]

\* A read, a setter or a comparison in the body of the transaction raises.
BodyRaises(t) ==
  /\ raised' = [raised EXCEPT ![t] = TRUE]
  /\ Goto(t, "exit")

--------------------------------------------------------------------------------
(* __enter__                                                               *)

Acquire(t) ==
  /\ at[t] = "outside"
  /\ lock = Nobody
  /\ lock' = t
  /\ found' = etabs
  /\ Goto(t, "snapshot")
  /\ UNCHANGED <<etabs, snapshot, modal, goal, raised, unrestored, outcome>>

\* The output options of the tables are read only where ETABS offers them, and
\* a failed read of them is no error.
TakeSnapshot(t) ==
  /\ at[t] = "snapshot"
  /\ \E options \in {etabs["table_options"], "unread"} :
       snapshot' = [snapshot EXCEPT ![t] = [etabs EXCEPT !["table_options"] = options]]
  /\ Goto(t, "entered")
  /\ UNCHANGED <<etabs, lock, found, modal, goal, raised, unrestored, outcome>>

\* A read of the snapshot fails: the lock is released and nothing restored.
SnapshotFails(t) ==
  /\ at[t] = "snapshot"
  /\ lock' = Nobody
  /\ outcome' = [outcome EXCEPT ![t] = "refused"]
  /\ Goto(t, "done")
  /\ UNCHANGED <<etabs, found, snapshot, modal, goal, raised, unrestored>>

--------------------------------------------------------------------------------
(* The body: select, read with modal options or without, or only snapshot. *)

\* The reads of the selection alone use the snapshot and leave.
SnapshotOnly(t) ==
  /\ at[t] = "entered"
  /\ Goto(t, "exit")
  /\ UNCHANGED <<etabs, lock, found, snapshot, modal, goal, raised, unrestored, outcome>>

\* select_output tries the combination first; select_case and select_combo
\* deselect everything first.
BeginSelect(t) ==
  /\ at[t] = "entered"
  /\ Goto(t, IF t \in TableReads THEN "combo_set" ELSE "deselect")
  /\ UNCHANGED <<etabs, lock, found, snapshot, modal, goal, raised, unrestored, outcome>>

\* A failed attempt of select_output is rolled back by restoring the core.
RollBack(t, attempt) ==
  /\ goal' = [goal EXCEPT ![t] = attempt]
  /\ Goto(t, "restore_first")
  /\ UNCHANGED raised

\* What follows a setter: the next step, or the way out when it failed.
AfterSetter(t, next) ==
  \/ Goto(t, next) /\ UNCHANGED <<goal, raised>>
  \/ IF at[t] = "combo_set" THEN RollBack(t, "combo")
     ELSE IF at[t] = "case_set" THEN RollBack(t, "case")
     ELSE BodyRaises(t) /\ UNCHANGED goal

SelectSetter(t) ==
  /\ \/ at[t] = "combo_set" /\ Write("combos", t) /\ AfterSetter(t, "combo_verify")
     \/ at[t] = "case_set" /\ Write("cases", t) /\ AfterSetter(t, "case_verify")
     \/ at[t] = "deselect" /\ Write("flags", "empty") /\ AfterSetter(t, "flag_set")
     \/ at[t] = "flag_set" /\ Write("flags", t) /\ AfterSetter(t, "flag_verify")
  /\ UNCHANGED <<lock, found, snapshot, modal, unrestored, outcome>>

\* The core selection a successful attempt must have established.
Wanted(t) ==
  CASE at[t] = "combo_verify" -> [p \in Core(t) |-> IF p = "combos" THEN t ELSE snapshot[t][p]]
    [] at[t] = "case_verify" -> [p \in Core(t) |-> IF p = "cases" THEN t ELSE snapshot[t][p]]
    [] OTHER -> [p \in Core(t) |-> t]

Selected(t) == \A p \in Core(t) : etabs[p] = Wanted(t)[p]

\* Mutant: an attempt that did not raise is taken for established.
VerifyNothing(t) ==
  /\ at[t] \in {"combo_verify", "case_verify", "flag_verify"}
  /\ Goto(t, "selected")
  /\ UNCHANGED <<etabs, lock, found, snapshot, modal, goal, raised, unrestored, outcome>>

\* The selection is read back and compared exactly; the read may fail.
Verify(t) ==
  /\ \/ /\ at[t] \in {"combo_verify", "case_verify", "flag_verify"}
        /\ Selected(t)
        /\ Goto(t, "selected")
        /\ UNCHANGED <<goal, raised>>
     \/ at[t] = "combo_verify" /\ RollBack(t, "combo")
     \/ at[t] = "case_verify" /\ RollBack(t, "case")
     \/ at[t] = "flag_verify" /\ BodyRaises(t) /\ UNCHANGED goal
  /\ UNCHANGED <<etabs, lock, found, snapshot, modal, unrestored, outcome>>

\* select_modal_modes saves the options before it writes them; most reads go on
\* without it, and the body may raise for reasons of its own.
AfterSelection(t) ==
  /\ at[t] = "selected"
  /\ \/ /\ modal' = [modal EXCEPT ![t] = etabs[Options(t)]]
        /\ Goto(t, "modal_set")
        /\ UNCHANGED raised
     \/ Goto(t, "fetch") /\ UNCHANGED <<modal, raised>>
     \/ BodyRaises(t) /\ UNCHANGED modal
  /\ UNCHANGED <<etabs, lock, found, snapshot, goal, unrestored, outcome>>

ModalSet(t) ==
  /\ at[t] = "modal_set"
  /\ Write(Options(t), t)
  /\ \/ Goto(t, "modal_verify") /\ UNCHANGED raised
     \/ BodyRaises(t)
  /\ UNCHANGED <<lock, found, snapshot, modal, goal, unrestored, outcome>>

ModalVerify(t) ==
  /\ at[t] = "modal_verify"
  /\ \/ etabs[Options(t)] = t /\ Goto(t, "fetch") /\ UNCHANGED raised
     \/ BodyRaises(t)
  /\ UNCHANGED <<etabs, lock, found, snapshot, modal, goal, unrestored, outcome>>

Fetch(t) ==
  /\ at[t] = "fetch"
  /\ \/ Goto(t, "exit") /\ UNCHANGED raised
     \/ BodyRaises(t)
  /\ UNCHANGED <<etabs, lock, found, snapshot, modal, goal, unrestored, outcome>>

--------------------------------------------------------------------------------
(* __exit__: the modal options, then the core selection, whatever happens. *)

BeginExit(t) ==
  /\ at[t] = "exit"
  /\ goal' = [goal EXCEPT ![t] = "exit"]
  /\ Goto(t, IF modal[t] = "unsaved" THEN "restore_first" ELSE "modal_restore")
  /\ UNCHANGED <<etabs, lock, found, snapshot, modal, raised, unrestored, outcome>>

\* A restoration of the options that fails does not keep the core from being
\* restored.
OptionsFail(t) ==
  /\ unrestored' = [unrestored EXCEPT ![t] = TRUE]
  /\ Goto(t, "restore_first")

ModalRestore(t) ==
  /\ at[t] = "modal_restore"
  /\ Write(Options(t), modal[t])
  /\ \/ Goto(t, "modal_reread") /\ UNCHANGED unrestored
     \/ OptionsFail(t)
  /\ UNCHANGED <<lock, found, snapshot, modal, goal, raised, outcome>>

ModalReread(t) ==
  /\ at[t] = "modal_reread"
  /\ \/ etabs[Options(t)] = modal[t] /\ Goto(t, "restore_first") /\ UNCHANGED unrestored
     \/ OptionsFail(t)
  /\ UNCHANGED <<etabs, lock, found, snapshot, modal, goal, raised, outcome>>

\* A failed restoration of the core ends select_output with an error when it
\* was a roll-back, and is recorded when it was the exit.
CoreFails(t) ==
  IF goal[t] = "exit"
  THEN /\ unrestored' = [unrestored EXCEPT ![t] = TRUE]
       /\ Goto(t, "leave")
       /\ UNCHANGED raised
  ELSE BodyRaises(t) /\ UNCHANGED unrestored

\* The first setter of the restoration writes the cases, or deselects all.
RestoreFirst(t) ==
  /\ at[t] = "restore_first"
  /\ IF t \in TableReads THEN Write("cases", snapshot[t]["cases"]) ELSE Write("flags", "empty")
  /\ \/ Goto(t, "restore_second") /\ UNCHANGED <<raised, unrestored>>
     \/ CoreFails(t)
  /\ UNCHANGED <<lock, found, snapshot, modal, goal, outcome>>

\* The second writes the combinations, or sets the flags found.
RestoreSecond(t) ==
  /\ at[t] = "restore_second"
  /\ IF t \in TableReads THEN Write("combos", snapshot[t]["combos"]) ELSE Write("flags", snapshot[t]["flags"])
  /\ \/ Goto(t, "restore_verify") /\ UNCHANGED <<raised, unrestored>>
     \/ CoreFails(t)
  /\ UNCHANGED <<lock, found, snapshot, modal, goal, outcome>>

CoreRestored(t) == \A p \in Core(t) : etabs[p] = snapshot[t][p]

\* What follows a verified restoration of the core.
AfterRestore(t) ==
  \/ goal[t] = "combo" /\ Goto(t, "case_set") /\ UNCHANGED raised
  \/ goal[t] = "case" /\ BodyRaises(t)
  \/ /\ goal[t] = "exit"
     /\ Goto(t, IF t \in TableReads THEN "options_check" ELSE "leave")
     /\ UNCHANGED raised

\* Mutant: the restored selection is not read back.
RestoreUnverified(t) ==
  /\ at[t] = "restore_verify"
  /\ AfterRestore(t)
  /\ UNCHANGED <<etabs, lock, found, snapshot, modal, goal, unrestored, outcome>>

RestoreVerify(t) ==
  /\ at[t] = "restore_verify"
  /\ \/ CoreRestored(t) /\ AfterRestore(t) /\ UNCHANGED unrestored
     \/ CoreFails(t)
  /\ UNCHANGED <<etabs, lock, found, snapshot, modal, goal, outcome>>

\* The patterns and options of a table transaction must be those of the
\* snapshot; a failed read of the options counts as a difference.
OptionsCheck(t) ==
  /\ at[t] = "options_check"
  /\ \/ /\ snapshot[t]["table_options"] \in {etabs["table_options"], "unread"}
        /\ UNCHANGED unrestored
     \/ /\ snapshot[t]["table_options"] # "unread"
        /\ unrestored' = [unrestored EXCEPT ![t] = TRUE]
  /\ Goto(t, "leave")
  /\ UNCHANGED <<etabs, lock, found, snapshot, modal, goal, raised, outcome>>

\* Mutant: the lock is not released when the restoration failed.
LeaveLocked(t) ==
  /\ at[t] = "leave"
  /\ lock' = IF unrestored[t] THEN lock ELSE Nobody
  /\ outcome' = [outcome EXCEPT ![t] =
       IF unrestored[t] THEN "restore_error" ELSE IF raised[t] THEN "raised" ELSE "clean"]
  /\ Goto(t, "done")
  /\ UNCHANGED <<etabs, found, snapshot, modal, goal, raised, unrestored>>

\* The lock is released; what the transaction object held is not used again.
Leave(t) ==
  /\ at[t] = "leave"
  /\ lock' = Nobody
  /\ outcome' = [outcome EXCEPT ![t] =
       IF unrestored[t] THEN "restore_error" ELSE IF raised[t] THEN "raised" ELSE "clean"]
  /\ Goto(t, "done")
  /\ snapshot' = [snapshot EXCEPT ![t] = Untouched]
  /\ modal' = [modal EXCEPT ![t] = "unsaved"]
  /\ raised' = [raised EXCEPT ![t] = FALSE]
  /\ unrestored' = [unrestored EXCEPT ![t] = FALSE]
  /\ UNCHANGED <<etabs, found, goal>>

--------------------------------------------------------------------------------

Transaction(t) ==
  \/ TakeSnapshot(t) \/ SnapshotFails(t) \/ SnapshotOnly(t) \/ BeginSelect(t)
  \/ SelectSetter(t) \/ Verify(t) \/ AfterSelection(t) \/ ModalSet(t) \/ ModalVerify(t)
  \/ Fetch(t) \/ BeginExit(t) \/ ModalRestore(t) \/ ModalReread(t)
  \/ RestoreFirst(t) \/ RestoreSecond(t) \/ RestoreVerify(t) \/ OptionsCheck(t)
  \/ Leave(t)

Next == \E t \in Reads : Acquire(t) \/ Transaction(t)

Spec == Init /\ [][Next]_vars

--------------------------------------------------------------------------------
(* Properties.                                                             *)

Inside(t) == at[t] \notin {"outside", "done"}

\* Every variable has its type, and the one transaction inside its with block
\* holds the lock.
TypeOK ==
  /\ etabs \in [Parts -> Choice]
  /\ found \in [Parts -> Choice]
  /\ lock \in Reads \cup {Nobody}
  /\ at \in [Reads -> Step]
  /\ snapshot \in [Reads -> [Parts -> Choice \cup {"unread"}]]
  /\ modal \in [Reads -> Choice \cup {"unsaved"}]
  /\ goal \in [Reads -> {"combo", "case", "exit"}]
  /\ raised \in [Reads -> BOOLEAN]
  /\ unrestored \in [Reads -> BOOLEAN]
  /\ outcome \in [Reads -> {"none", "refused", "clean", "raised", "restore_error"}]
  /\ \A t \in Reads : Inside(t) <=> lock = t

\* A fetch happens under exactly the selection the transaction asked for: its
\* case or combination, the other domain of the tables as found, nothing else
\* selected in Results.Setup, and the modal options as found or as requested
\* (select_output, 1200-1308; select_case and select_combo, 1565-1627).
FetchSeesSelection ==
  \A t \in Reads : at[t] = "fetch" =>
    /\ \E p \in Core(t) :
         /\ etabs[p] = t
         /\ \A q \in Core(t) \ {p} : etabs[q] = found[q]
    /\ \A q \in Parts \ Core(t) :
         etabs[q] = IF q = Options(t) /\ modal[t] # "unsaved" THEN t ELSE found[q]

\* How an outside observer sees each transaction ended.
Ended ==
  [t \in Reads |->
    CASE outcome[t] = "none" -> "not_yet"
      [] outcome[t] = "restore_error" -> "broken"
      [] OTHER -> "restored"]

\* A transaction is atomic to every other one: it begins on a state nobody else
\* is changing, and unless its end reports a failed restoration, it leaves the
\* selections and options as it found them (__exit__, 1339-1359, 1690-1705).
Reversible == INSTANCE ReversibleRead WITH
  Readers <- Reads,
  world <- etabs,
  holder <- lock,
  ended <- Ended

ImplementsReversibleRead == Reversible!Spec

\* Threads are scheduled and ETABS answers the calls made on it.
FairSpec == Spec /\ \A t \in Reads : WF_vars(Acquire(t)) /\ WF_vars(Transaction(t))

\* Then every transaction comes to its end, along each of its failures, and
\* the lock to the next one.
EveryReadEnds == \A t \in Reads : <>(at[t] = "done")

================================================================================
