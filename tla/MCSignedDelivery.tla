-------------------------- MODULE MCSignedDelivery --------------------------
(***************************************************************************)
(* Instance of SignedDelivery: c1 and c3 deliver one event of a Chatwoot   *)
(* message, c2 the other, signed a second later.                           *)
(***************************************************************************)
EXTENDS SignedDelivery, MCIdempotency

CONSTANT c3

MCSignedAt == [a \in Attempts |-> IF a = c2 THEN 2 ELSE 1]

=============================================================================
