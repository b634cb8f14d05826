----------------------------- MODULE Idempotency -----------------------------
(***************************************************************************)
(* The claim protocol of internal/store/store.go as the handlers of        *)
(* internal/bridge/bridge.go drive it.  An attempt is one execution of a   *)
(* handler (or, for kind "suppress", the second claim a manual publication *)
(* takes inside its handler): it draws a fresh claim token, so the attempt *)
(* itself stands for the token.  Attempts of one key are redeliveries of   *)
(* one webhook and run concurrently.  The remote effect between claim and  *)
(* completion is in module Bridge; here only its result decides whether an *)
(* attempt completes, releases or walks away from its claim.               *)
(***************************************************************************)
EXTENDS IdempotencyRow

CONSTANTS Keys,            \* idempotency keys, direction included
          Attempts,        \* handler executions, each with its own token
          KeyOf,           \* the key of the webhook an attempt handles
          KindOf,          \* which code path the attempt is on
          ClaimTTL,        \* the 2 minutes of a plain claim
          IdempotencyTTL,  \* Core.IdempotencyTTL (IDEMPOTENCY_TTL)
          HandlerTTL,      \* the longest a handler runs: 25s + 5s to persist
          MaxNow           \* bound of the model: the clock stops here

Kinds == {"c2w", "w2c", "own", "suppress"}

ASSUME ConstantsAssumption ==
    /\ NoToken \notin Attempts
    /\ NoMessage \notin Keys
    /\ KeyOf \in [Attempts -> Keys]
    /\ KindOf \in [Attempts -> Kinds]
    /\ ClaimTTL \in Nat /\ IdempotencyTTL \in Nat /\ HandlerTTL \in Nat
    /\ MaxNow \in Nat

VARIABLES now,        \* now() of the database
          table,      \* Keys -> row of `idempotency`
          pc,         \* Attempts -> where the attempt is
          began,      \* Attempts -> time of its claim statement
          bridgeLog,  \* rows of `bridge_log` written by completions
          lastGrant   \* history: the attempt that last acquired each key

vars == <<now, table, pc, began, bridgeLog, lastGrant>>

-----------------------------------------------------------------------------

Init ==
    /\ now = 0
    /\ table = [k \in Keys |-> AbsentRow]
    /\ pc = [a \in Attempts |-> "idle"]
    /\ began = [a \in Attempts |-> 0]
    /\ bridgeLog = {}
    /\ lastGrant = [k \in Keys |-> NoToken]

\* An attempt whose handler is still executing.
Running(a) == pc[a] \in {"lost", "holding", "marked"}

Row(a) == table[KeyOf[a]]

\* Own messages and their suppression claim for IdempotencyTTL, the rest for
\* two minutes.
TTLOf(a) == IF KindOf[a] \in {"own", "suppress"} THEN IdempotencyTTL
                                                 ELSE ClaimTTL

\* A statement the database executed, whose answer reaches the handler (it
\* goes on to `next`) or is lost on the way (it gives up and answers 5xx).
Answered(a, next) == \E p \in {next, "gone"} : pc' = [pc EXCEPT ![a] = p]

Refused(a) ==
    /\ pc' = [pc EXCEPT ![a] = "gone"]
    /\ UNCHANGED <<table, bridgeLog>>

-----------------------------------------------------------------------------

ClaimAcquire(a) ==
    /\ pc[a] = "idle"
    /\ Claimable(Row(a), now)
    /\ table' = [table EXCEPT ![KeyOf[a]] = ClaimedRow(a, now + TTLOf(a))]
    /\ lastGrant' = [lastGrant EXCEPT ![KeyOf[a]] = a]
    /\ began' = [began EXCEPT ![a] = now]
    /\ Answered(a, "holding")
    /\ UNCHANGED <<now, bridgeLog>>

\* The upsert returned no row: the status is read by a second statement, and
\* the row may have changed in between.
ClaimConflict(a) ==
    /\ pc[a] = "idle"
    /\ ~Claimable(Row(a), now)
    /\ began' = [began EXCEPT ![a] = now]
    /\ pc' = [pc EXCEPT ![a] = "lost"]
    /\ UNCHANGED <<now, table, bridgeLog, lastGrant>>

\* Mutated form: a claim that is still processing is reported as completed.
StatusAnswerOptimistic(status) ==
    CASE status = "absent" -> "gone"
      [] OTHER             -> "completed"

StatusAnswer(status) ==
    CASE status = "sent"   -> "completed"
      [] status = "absent" -> "gone"
      [] OTHER             -> "in_progress"

ClaimReadStatus(a) ==
    /\ pc[a] = "lost"
    /\ pc' = [pc EXCEPT ![a] = StatusAnswer(Row(a).status)]
    /\ UNCHANGED <<now, table, began, bridgeLog, lastGrant>>

\* Before the remote call, C2W only.
MarkC2WOrigin(a) ==
    /\ pc[a] = "holding" /\ KindOf[a] = "c2w"
    /\ \/ /\ ActiveClaim(Row(a), a)
          /\ table' = [table EXCEPT ![KeyOf[a]] =
                         MarkedRow(a, KeyOf[a], now + IdempotencyTTL)]
          /\ Answered(a, "marked")
          /\ UNCHANGED bridgeLog
       \/ ~ActiveClaim(Row(a), a) /\ Refused(a)
    /\ UNCHANGED <<now, began, lastGrant>>

\* Mutated form: completing leaves the claim's expires_at alone.
CompletedRowKeepsExpiry(a) ==
    SentRow(IF KindOf[a] = "c2w" THEN KeyOf[a] ELSE NoMessage, Row(a).expires)

\* The row a completion of attempt a leaves: a C2W delivery keeps the message
\* ID in the new detail, the other details carry none.
CompletedRow(a) ==
    SentRow(IF KindOf[a] = "c2w" THEN KeyOf[a] ELSE NoMessage,
            now + IdempotencyTTL)

AuditOf(a) == [key |-> KeyOf[a], token |-> a, at |-> now]

ReadyToComplete(a) ==
    \/ pc[a] = "marked" /\ KindOf[a] = "c2w"
    \/ pc[a] = "holding" /\ KindOf[a] = "w2c"

\* One transaction: the row becomes sent and the audit row is inserted.
CompleteDelivery(a) ==
    /\ ReadyToComplete(a)
    /\ \/ /\ ActiveClaim(Row(a), a)
          /\ table' = [table EXCEPT ![KeyOf[a]] = CompletedRow(a)]
          /\ bridgeLog' = bridgeLog \cup {AuditOf(a)}
          /\ Answered(a, "delivered")
       \/ ~ActiveClaim(Row(a), a) /\ Refused(a)
    /\ UNCHANGED <<now, began, lastGrant>>

\* Mutated form: the pair's second completion reuses the first audit entry.
CompleteManualOutgoingOneAudit(a, b) ==
    /\ pc[a] = "holding" /\ KindOf[a] = "own"
    /\ pc[b] = "holding" /\ KindOf[b] = "suppress"
    /\ KeyOf[a] # KeyOf[b]
    /\ ActiveClaim(Row(a), a) /\ ActiveClaim(Row(b), b)
    /\ table' = [table EXCEPT ![KeyOf[a]] = CompletedRow(a),
                              ![KeyOf[b]] = CompletedRow(b)]
    /\ bridgeLog' = bridgeLog \cup {AuditOf(a)}
    /\ pc' = [pc EXCEPT ![a] = "delivered", ![b] = "delivered"]
    /\ UNCHANGED <<now, began, lastGrant>>

\* One transaction over the manual message's key (attempt a) and the key of
\* the Chatwoot message it became (attempt b); both run in one handler.
CompleteManualOutgoing(a, b) ==
    /\ pc[a] = "holding" /\ KindOf[a] = "own"
    /\ pc[b] = "holding" /\ KindOf[b] = "suppress"
    /\ KeyOf[a] # KeyOf[b]
    /\ \/ /\ ActiveClaim(Row(a), a) /\ ActiveClaim(Row(b), b)
          /\ table' = [table EXCEPT ![KeyOf[a]] = CompletedRow(a),
                                    ![KeyOf[b]] = CompletedRow(b)]
          /\ bridgeLog' = bridgeLog \cup {AuditOf(a), AuditOf(b)}
          /\ \E p \in {"delivered", "gone"} :
                pc' = [pc EXCEPT ![a] = p, ![b] = p]
       \/ /\ ~(ActiveClaim(Row(a), a) /\ ActiveClaim(Row(b), b))
          /\ pc' = [pc EXCEPT ![a] = "gone", ![b] = "gone"]
          /\ UNCHANGED <<table, bridgeLog>>
    /\ UNCHANGED <<now, began, lastGrant>>

\* A definite failure: rate limit, HTTP error from the other side.
ReleaseIdempotency(a) ==
    /\ pc[a] \in {"holding", "marked"} /\ KindOf[a] # "suppress"
    /\ \/ /\ ActiveClaim(Row(a), a)
          /\ table' = [table EXCEPT ![KeyOf[a]] = ReleasedRow(Row(a))]
          /\ Answered(a, "released")
          /\ UNCHANGED bridgeLog
       \/ ~ActiveClaim(Row(a), a) /\ Refused(a)
    /\ UNCHANGED <<now, began, lastGrant>>

\* The handler ends with the claim in place: the process crashed, the remote
\* result is ambiguous, or a statement failed before it had any effect.
Abandon(a) ==
    /\ Running(a)
    /\ pc' = [pc EXCEPT ![a] = "gone"]
    /\ UNCHANGED <<now, table, began, bridgeLog, lastGrant>>

\* The operators' DELETE FROM idempotency WHERE expires_at < now().
PurgeExpired ==
    /\ \E k \in Keys : table[k].status # "absent" /\ table[k].expires < now
    /\ table' = [k \in Keys |-> IF table[k].expires < now THEN AbsentRow
                                                         ELSE table[k]]
    /\ UNCHANGED <<now, pc, began, bridgeLog, lastGrant>>

\* Time passes, but no handler outlives its context.
Tick ==
    /\ now < MaxNow
    /\ \A a \in Attempts : Running(a) => now < began[a] + HandlerTTL
    /\ now' = now + 1
    /\ UNCHANGED <<table, pc, began, bridgeLog, lastGrant>>

Step(a) ==
    \/ ClaimAcquire(a) \/ ClaimConflict(a) \/ ClaimReadStatus(a)
    \/ MarkC2WOrigin(a) \/ CompleteDelivery(a) \/ ReleaseIdempotency(a)
    \/ Abandon(a)
    \/ \E b \in Attempts : CompleteManualOutgoing(a, b)

Next == Tick \/ PurgeExpired \/ \E a \in Attempts : Step(a)

Spec == Init /\ [][Next]_vars

-----------------------------------------------------------------------------

TypeOK ==
    /\ now \in Nat
    /\ table \in [Keys -> Rows(Attempts, Keys)]
    /\ pc \in [Attempts -> {"idle", "lost", "holding", "marked", "delivered",
                            "released", "completed", "in_progress", "gone"}]
    /\ began \in [Attempts -> Nat]
    /\ bridgeLog \subseteq [key : Keys, token : Attempts, at : Nat]
    /\ lastGrant \in [Keys -> Attempts \cup {NoToken}]

\* What is confirmed is not confirmed again inside the idempotency window:
\* two confirmations of one key are IdempotencyTTL apart, however slow a
\* handler is and however claims expire, are purged or are taken over.
DeliveriesSpaced ==
    \A e, f \in bridgeLog :
        e.key = f.key /\ e # f => \/ e.at + IdempotencyTTL <= f.at
                                  \/ f.at + IdempotencyTTL <= e.at

\* Fencing: the attempt that completes or releases a key is the one that
\* acquired it last.  A slow handler whose claim was taken over can neither
\* confirm its delivery nor free the key under its successor.
SupersededNeverFinishes ==
    [][\A a \in Attempts :
          Running(a) /\ pc'[a] \in {"delivered", "released"}
              => lastGrant[KeyOf[a]] = a]_vars

\* "evitando estado sent sem trilha de auditoria": a row is sent only with
\* the audit row of that very confirmation, also when one transaction
\* confirms two keys.
SentIsAudited ==
    \A k \in Keys : table[k].status = "sent" =>
        \E e \in bridgeLog : /\ e.key = k
                             /\ e.at + IdempotencyTTL = table[k].expires

\* A handler that answers 200 for a duplicate ("completed") relies on a
\* confirmation that was still inside its window when the handler asked, or
\* came later, although the status it read belongs to a second statement.
CompletedAnswerIsBacked ==
    \A a \in Attempts : pc[a] = "completed" =>
        \E e \in bridgeLog : /\ e.key = KeyOf[a]
                             /\ began[a] <= e.at + IdempotencyTTL

\* While handlers end before claims lapse (25s + 5s against 2 minutes and
\* IDEMPOTENCY_TTL), one handler at a time is between claim and completion
\* of a key: the remote effect is never performed concurrently.
OneHolder ==
    \A a, b \in Attempts :
        /\ pc[a] \in {"holding", "marked"} /\ pc[b] \in {"holding", "marked"}
        /\ KeyOf[a] = KeyOf[b]
        => a = b

\* A claim whose handler is gone does not block its key for ever: it lapses
\* (the bound on the clock leaves out expiries the run cannot reach).
Orphaned(k) ==
    /\ table[k].status = "processing"
    /\ table[k].expires <= MaxNow
    /\ \A a \in Attempts : table[k].token = a => ~Running(a)

OrphanedClaimLapses ==
    \A k \in Keys : Orphaned(k) ~> Claimable(table[k], now)

\* The abstract ledger this protocol implements.
Promise == INSTANCE DeliveryLedger
             WITH Window <- IdempotencyTTL, clock <- now, ledger <- bridgeLog

ImplementsLedger == Promise!Ledger

=============================================================================
