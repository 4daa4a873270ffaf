-------------------------- MODULE AuthorityHandover --------------------------
(***************************************************************************)
(* What the request cutover promises, without holds, journals or crashes:  *)
(* authentication authority belongs to exactly one application generation, *)
(* every request is served by the generation that owns it when the request *)
(* is admitted, and ownership moves once, from V1 to V2, at an instant at  *)
(* which V1 serves nobody.  RequestGate is shown to implement it.          *)
(***************************************************************************)

CONSTANT Requests

VARIABLES
  owner,     \* "V1" or "V2"
  serving    \* serving[r] : "none" (not admitted), "V1", "V2" or "ended"

vars == <<owner, serving>>

Init ==
  /\ owner = "V1"
  /\ serving = [r \in Requests |-> "none"]

\* The owner, and nobody else, starts to serve r.
Admit(r) ==
  /\ serving[r] = "none"
  /\ serving' = [serving EXCEPT ![r] = owner]
  /\ UNCHANGED owner

\* Requests end: one at a time, or all of them when the proxy dies.
End(S) ==
  /\ \A r \in S : serving[r] \in {"V1", "V2"}
  /\ serving' = [r \in Requests |-> IF r \in S THEN "ended" ELSE serving[r]]
  /\ UNCHANGED owner

HandOver ==
  /\ owner = "V1"
  /\ \A r \in Requests : serving[r] # "V1"
  /\ owner' = "V2"
  /\ UNCHANGED serving

Next ==
  \/ \E r \in Requests : Admit(r)
  \/ \E S \in SUBSET Requests : End(S)
  \/ HandOver

Spec == Init /\ [][Next]_vars

=============================================================================
