---------------------------- MODULE MCRequestGate ----------------------------
(* Instances of RequestGate for TLC: bodies of one, one and two units, and  *)
(* one request that no hold can keep.                                       *)
EXTENDS RequestGate

CONSTANTS r1, r2, r3, r4

MCSize == [r \in Requests |-> IF r = r3 THEN 2 ELSE 1]

=============================================================================
