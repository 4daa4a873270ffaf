----------------------------- MODULE OneDatabase -----------------------------
(***************************************************************************)
(* What the database handoff of src/scripts/staging-db-cutover.py promises *)
(* the application: its transactions see one database that moves once.     *)
(* Every transaction sees all that committed before it, wherever it runs.  *)
(***************************************************************************)
CONSTANT Txns

VARIABLES
  home,    \* the database that accepts commits
  place,   \* place[t]: the database t committed in, or "none"
  saw      \* saw[t]: the transactions t's database held when t committed

vars == <<home, place, saw>>

Committed == {t \in Txns : place[t] # "none"}

Init ==
  /\ home = "V1"
  /\ place = [t \in Txns |-> "none"]
  /\ saw = [t \in Txns |-> {}]

Commit(t) ==
  /\ place[t] = "none"
  /\ place' = [place EXCEPT ![t] = home]
  /\ saw' = [saw EXCEPT ![t] = Committed]
  /\ UNCHANGED home

\* V2 takes over with everything V1 committed; there is no way back.
Move ==
  /\ home = "V1"
  /\ home' = "V2"
  /\ UNCHANGED <<place, saw>>

Next == Move \/ \E t \in Txns : Commit(t)

Spec == Init /\ [][Next]_vars
=============================================================================
