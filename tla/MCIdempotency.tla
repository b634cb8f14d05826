---------------------------- MODULE MCIdempotency ----------------------------
(***************************************************************************)
(* Instances of Idempotency: redeliveries c1 and c2 of one Chatwoot        *)
(* webhook, and a manual WhatsApp message o whose suppression s claims the *)
(* same C2W key.                                                           *)
(***************************************************************************)
EXTENDS Idempotency

CONSTANTS c1, c2, o, s, kc, ko

SlowAttempts == {c1, c2, o, s}

KeyOfAll == [a \in Attempts |-> IF a = o THEN ko ELSE kc]

KindOfAll ==
    [a \in Attempts |-> CASE a = s -> "suppress" [] a = o -> "own"
                          [] OTHER -> "c2w"]

=============================================================================
