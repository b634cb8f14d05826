--------------------------- MODULE IdempotencyRow ---------------------------
(***************************************************************************)
(* One row of the table `idempotency` (migrations/001_init.up.sql) and     *)
(* what each statement of internal/store/store.go does to it.  The columns *)
(* that decide anything are `status`, `detail.claim_token` (the fencing    *)
(* token), `detail.evo_message_id` (how the bridge recognises the echo of  *)
(* what it sent) and `expires_at`; time is an integer and the database's   *)
(* now() is passed in.  The operators have no state of their own: the      *)
(* modules Idempotency and Bridge apply them to their tables.              *)
(***************************************************************************)
EXTENDS Integers

CONSTANTS NoToken,    \* detail without a claim_token
          NoMessage   \* detail without an evo_message_id

Statuses == {"absent", "processing", "sent", "failed"}

Rows(Tokens, Messages) ==
    [status  : Statuses,
     token   : Tokens \cup {NoToken},
     evo     : Messages \cup {NoMessage},
     expires : Int]

\* No row for this (direction, key).
AbsentRow ==
    [status |-> "absent", token |-> NoToken, evo |-> NoMessage, expires |-> 0]

\* Mutated forms of Claimable: the status list of the WHERE clause one word
\* too long (twice), and the expiry left out.
ClaimableSentToo(row, t) ==
    row.status \in {"absent", "failed", "sent"} \/ row.expires <= t

ClaimableNeverExpires(row, t) == row.status \in {"absent", "failed"}

ClaimableProcessingToo(row, t) ==
    row.status \in {"absent", "failed", "processing"} \/ row.expires <= t

\* The upsert of ClaimIdempotency writes: there is no conflicting row, or the
\* conflicting row failed or has expired.
Claimable(row, t) ==
    \/ row.status \in {"absent", "failed"}
    \/ row.expires <= t

\* ... and what it writes, for a fresh token.
ClaimedRow(token, until) ==
    [status |-> "processing", token |-> token, evo |-> NoMessage,
     expires |-> until]

\* Mutated form of ActiveClaim: the fencing token is not compared.
ActiveClaimAnyToken(row, token) == row.status = "processing"

\* status = 'processing' AND detail->>'claim_token' = token: the condition on
\* which mark, complete and release all depend.  It does not look at expires.
ActiveClaim(row, token) ==
    /\ row.status = "processing"
    /\ row.token = token

\* MarkC2WOrigin keeps the token, adds the message ID and moves the expiry.
MarkedRow(token, message, until) ==
    [status |-> "processing", token |-> token, evo |-> message,
     expires |-> until]

\* CompleteDelivery and CompleteManualOutgoing replace the whole detail: the
\* token is gone, so nobody can complete or release the row again.
SentRow(message, until) ==
    [status |-> "sent", token |-> NoToken, evo |-> message, expires |-> until]

\* Mutated form of ReleasedRow: a status the readers do not know.
ReleasedRowUnknownStatus(row) ==
    [status |-> "error", token |-> NoToken, evo |-> NoMessage,
     expires |-> row.expires]

\* ReleaseIdempotency empties the detail and leaves expires_at alone.
ReleasedRow(row) ==
    [status |-> "failed", token |-> NoToken, evo |-> NoMessage,
     expires |-> row.expires]

\* Mutated form of RecognisesEcho: deliveries still in progress do not count.
RecognisesEchoSentOnly(row, message, t) ==
    row.status = "sent" /\ row.expires > t /\ row.evo = message

\* HasCompletedC2WMessage, for one row of direction c2w.
RecognisesEcho(row, message, t) ==
    /\ row.status \in {"processing", "sent"}
    /\ row.expires > t
    /\ row.evo = message

=============================================================================
