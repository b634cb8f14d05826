--------------------------- MODULE SignedDelivery ---------------------------
(***************************************************************************)
(* The claim protocol behind the signature check of the Chatwoot endpoint  *)
(* (internal/httpapi/webhook_chatwoot.go).  The table forgets a key after  *)
(* IdempotencyTTL; what keeps a webhook that comes back later from being   *)
(* sent again is the replay window of its signature.  Every step of        *)
(* Idempotency keeps its meaning; attempts of kind "c2w" pass the check    *)
(* before they may claim.  A key is one Chatwoot message.  An attempt is   *)
(* one delivery of one signed request: deliveries again of one request     *)
(* carry one timestamp, the events message_created and message_outgoing of *)
(* one message are requests of their own, signed at their own times.       *)
(***************************************************************************)
EXTENDS Idempotency, Signature

CONSTANTS SignedAt,      \* X-Chatwoot-Timestamp of the request of each attempt
          EventSpread,   \* how far the requests of one message lie apart
          ReplayWindow,  \* HMAC_REPLAY_WINDOW
          ClockOffset    \* the connector's clock minus the database's

\* Chatwoot signs its webhooks.
Signed(a) == KindOf[a] = "c2w"

ASSUME SignedAssumption ==
    /\ SignedAt \in [Attempts -> Int]
    /\ EventSpread \in Nat
    /\ \A a, b \in Attempts :
          Signed(a) /\ Signed(b) /\ KeyOf[a] = KeyOf[b]
             => SignedAt[a] - SignedAt[b] <= EventSpread
    /\ ReplayWindow \in Nat /\ ClockOffset \in Int

VARIABLES verified,  \* Attempts -> time its signature was accepted, or -1
          sends      \* history: attempts after which the message may be out

signedVars == <<now, table, pc, began, bridgeLog, lastGrant, verified, sends>>

Unverified == -1

SignedInit ==
    /\ Init
    /\ verified = [a \in Attempts |-> Unverified]
    /\ sends = {}

\* The endpoint accepts the signature; a refused webhook gets 401 and has no
\* effect at all.
Verify(a) ==
    /\ Signed(a) /\ pc[a] = "idle" /\ verified[a] = Unverified
    /\ VerifySignature(TRUE, SignedAt[a], now + ClockOffset, ReplayWindow)
    /\ verified' = [verified EXCEPT ![a] = now]
    /\ UNCHANGED vars /\ UNCHANGED sends

\* The handler ends before it claims: a filter, an error, or 25 seconds of
\* waiting for a manual publication.  Nothing of it remains.
GiveUp(a) ==
    /\ pc[a] = "idle" /\ verified[a] # Unverified
    /\ verified' = [verified EXCEPT ![a] = Unverified]
    /\ UNCHANGED vars /\ UNCHANGED sends

\* A marked row precedes the call to Evolution Go; ReleaseIdempotency after a
\* mark follows a definite refusal of that call.
Freed(a) ==
    /\ pc[a] = "marked" /\ ActiveClaim(Row(a), a)
    /\ table'[KeyOf[a]].status = "failed"

RecordSends ==
    sends' = (sends \cup {a \in Attempts : pc[a] = "holding" /\ pc'[a] = "marked"})
               \ {a \in Attempts : Freed(a)}

SignedStep(a) ==
    /\ Signed(a) => verified[a] # Unverified
    /\ Step(a)
    /\ RecordSends
    /\ UNCHANGED verified

\* The 25 + 5 seconds of a handler begin when its signature is accepted.
AtWork(a) == verified[a] # Unverified /\ (pc[a] = "idle" \/ Running(a))

SignedTick ==
    /\ \A a \in Attempts : AtWork(a) => now < verified[a] + HandlerTTL
    /\ Tick
    /\ UNCHANGED <<verified, sends>>

SignedPurge == PurgeExpired /\ UNCHANGED <<verified, sends>>

SignedNext ==
    \/ SignedTick \/ SignedPurge
    \/ \E a \in Attempts : Verify(a) \/ GiveUp(a) \/ SignedStep(a)

SignedSpec == SignedInit /\ [][SignedNext]_signedVars

\* Time passes, and contexts end handlers, those that have not claimed yet
\* included; nobody is obliged to redeliver.
SignedAbandon(a) == Abandon(a) /\ RecordSends /\ UNCHANGED verified

SignedFairSpec ==
    /\ SignedSpec
    /\ WF_signedVars(SignedTick)
    /\ \A a \in Attempts : WF_signedVars(GiveUp(a)) /\ WF_signedVars(SignedAbandon(a))

-----------------------------------------------------------------------------

SignedTypeOK ==
    /\ TypeOK
    /\ verified \in [Attempts -> Int]
    /\ sends \subseteq Attempts

\* The claim protocol is unchanged behind the check.
ImplementsClaims == Spec

\* IDEMPOTENCY_TTL outlasts every moment at which a request of the message is
\* accepted and the handler it may still be running: 24 hours against 2 * 5
\* minutes + 30 seconds by default, and the time between the events.
TTLOutlastsReplay == 2 * ReplayWindow + EventSpread + HandlerTTL < IdempotencyTTL

\* The signed webhooks of one message send it to WhatsApp at most once, for
\* ever: whatever is delivered again or by the other event, crashes between
\* mark and completion, lapses or is purged, a second attempt gets no further than the claim, unless Evolution
\* Go refused the first, as far as its handler could tell.
SentOnceEver ==
    TTLOutlastsReplay =>
        \A a, b \in sends : KeyOf[a] = KeyOf[b] => a = b

=============================================================================
