------------------------------ MODULE MCBridge ------------------------------
(***************************************************************************)
(* Instances of Bridge: one text, so that an agent's message and a manual  *)
(* one collide in the registry; deliveries are interchangeable.            *)
(***************************************************************************)
EXTENDS Bridge, TLC

CONSTANTS d1, d2, d3, d4, contact, phone, hello

TwoDeliveries == {d1, d2}
ThreeDeliveries == {d1, d2, d3}
FourDeliveries == {d1, d2, d3, d4}

MCTextOf == [w \in FromContact \cup FromPhone |-> hello]

Symmetry == Permutations(Deliveries)

=============================================================================
