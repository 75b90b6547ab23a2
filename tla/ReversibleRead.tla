----------------------------- MODULE ReversibleRead -----------------------------
(***************************************************************************)
(* What a transaction that must change shared state in order to read       *)
(* promises: one reader at a time, and each leaves the state as it found   *)
(* it or says that it did not.  Nobody changes the state between readers.  *)
(***************************************************************************)
CONSTANTS Readers, Nobody

VARIABLES
  world,   \* the shared state
  holder,  \* the reader inside, or Nobody
  found,   \* the state the last reader to enter found
  ended    \* how each reader ended

vars == <<world, holder, found, ended>>

Init ==
  /\ holder = Nobody
  /\ found = world
  /\ ended = [r \in Readers |-> "not_yet"]

Begin(r) ==
  /\ holder = Nobody
  /\ ended[r] = "not_yet"
  /\ holder' = r
  /\ found' = world
  /\ UNCHANGED <<world, ended>>

Change ==
  /\ holder # Nobody
  /\ UNCHANGED <<holder, found, ended>>

End(r, how) ==
  /\ holder = r
  /\ how = "restored" => world = found
  /\ holder' = Nobody
  /\ ended' = [ended EXCEPT ![r] = how]
  /\ UNCHANGED <<world, found>>

Next ==
  \/ Change
  \/ \E r \in Readers : Begin(r) \/ End(r, "restored") \/ End(r, "broken")

Spec == Init /\ [][Next]_vars

================================================================================
