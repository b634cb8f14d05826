------------------------------ MODULE Signature ------------------------------
(***************************************************************************)
(* The decision of VerifySignature (internal/chatwoot/hmac.go).  HMAC is   *)
(* taken as unforgeable: whether the digest matches is whether the sender  *)
(* knew the tenant's secret.  Times are integers; `at` is the timestamp    *)
(* Chatwoot put under the signature, t the connector's time.Now().         *)
(***************************************************************************)
EXTENDS Integers

\* Mutated form: only timestamps ahead of the clock are refused.
VerifySignatureNoExpiry(authentic, at, t, window) ==
    /\ authentic /\ window > 0
    /\ at - t <= window

\* Headers, secret and window are there, the timestamp is inside the window
\* on either side, and the digest is the secret's over timestamp and body.
VerifySignature(authentic, at, t, window) ==
    /\ authentic /\ window > 0
    /\ t - at <= window
    /\ at - t <= window

=============================================================================
