# Verification of evogo-connect

TLA+ models of the evogo-connect bridge between Chatwoot and Evolution Go
(WhatsApp), TLC configurations that check them on small instances, and TLAPS
proofs of every safety property that a passing run checks, for all values of the
constants. Paths are relative to the repository. Each definition's source lines
are in `PROJECT.json`, under `map`.

## 1. The system

Chatwoot and Evolution Go call the connector by webhook; the connector calls
them by HTTP. One Go process serves all webhooks concurrently; the CLI
`connect` works on the same PostgreSQL database.

| Component | State | Operations | What is hard |
|---|---|---|---|
| Idempotency table, `internal/store/store.go` | rows (direction, key) -> status, claim token, message ID, expiry; audit log | claim, mark, complete, complete a pair, release, recognise an echo | redeliveries race; claims lapse under slow handlers; the claim is two statements; answers of statements are lost |
| Chatwoot -> WhatsApp, `HandleChatwootWebhook` in `internal/bridge/bridge.go` | none of its own | admit, wait for a manual publication, claim, limit, mark, send, complete or release | the echo overtakes the answer; ambiguous results; crashes between mark and completion |
| WhatsApp -> Chatwoot, `HandleEvogoWebhook` | none of its own | admit, recognise own echo, claim, find contact and conversation, publish, complete | a message typed on the phone becomes a Chatwoot message whose webhook must not go back to WhatsApp |
| Manual publication registry, `beginManualOutgoing`, `waitForManualOutgoing` | in memory: a count per tenant, JID and text | begin, finish, wait | must be balanced on every path; is lost in a crash |
| HTTP endpoints, `internal/httpapi` | none | authenticate, decode, resolve the tenant, call the bridge, choose the status code | a 200 ends redelivery |
| Kill switch | row of `bridge_paused`, `BRIDGE_PAUSED` | pause, resume, read at the start of a handler | check and use are apart |
| Chatwoot client, `internal/chatwoot/client.go` | none | inbox, contact, binding, conversation, messages | find-or-create without a transaction; which failures are definite |
| Evolution Go client, `internal/evogo/client.go` | none | send text or media, connect, status | which failures are definite |
| Evolution Go events, `internal/evogo/types.go`, `jid.go` | none | normalise event, text, JID, own or not | several payload contracts |
| Rate limiter | token bucket per tenant and direction | Allow | asked before duplicates are recognised in one direction, after the claim in the other |
| Contact map | `contact_map`, and Chatwoot's contacts | upsert by handler and `add-contact`; read by `start-conversation` | stale IDs; concurrent creation |
| Provisioning, `connect setup` | `tenants`; inbox in Chatwoot; webhook URL in Evolution Go | create, update, rotate the secret | one secret in two systems; failure at every call |
| Webhook signature, `internal/chatwoot/hmac.go` | secret per tenant, replay window | verify | the only thing that keeps a webhook out after its row is forgotten |
| Encryption, configuration, logs, metrics, server | keys and settings | pure functions and I/O | no protocol decision |

What makes each correct: the table grants a key to one handler at a time and
never confirms a key twice inside its window; behind the signature a webhook is
sent once for ever; the two handlers never loop a message and never duplicate
or falsely acknowledge one; the registry counts exactly; every webhook is
answered; a webhook is worked for the tenant whose secret it carries, about the
contact of its chat, never about a group; the limiter lets through what its
rate and burst allow and no less; contacts and conversations that are used are
bound to the inbox; a successful `setup` leaves webhooks that are let in.

## 2. Modules

| Module | Models | Correspondence |
|---|---|---|
| `IdempotencyRow` | one row and what each SQL statement does to it | `Claimable` is the upsert's `WHERE`, `ActiveClaim` the condition of mark, complete and release, `MarkedRow`, `SentRow`, `ReleasedRow` the columns they write, `RecognisesEcho` the query for echoes |
| `Idempotency` | the claim protocol over time, extends `IdempotencyRow` | an *attempt* is one execution of a handler and stands for its claim token; one action per method of the store; `Tick` is the database's clock, `PurgeExpired` the operators' `DELETE` of docs/USAGE.md, `Abandon` a handler that ends with its claim in place |
| `DeliveryLedger` | abstract specification: a ledger of confirmations, each attempt once and two of a key at least `Window` apart | implemented by `Idempotency` under the mapping clock = `now`, ledger = `bridgeLog` |
| `IdempotencyProofs` | theorems about `Idempotency` | section 5 |
| `Signature` | `VerifySignature` | HMAC as "the sender knows the secret", timestamp and window as integers |
| `SignedDelivery` | the Chatwoot endpoint in front of the claim protocol, extends `Idempotency` | an attempt of kind "c2w" is one delivery of one signed request; a key is one message, for which the fork emits two events (`message_created`, `message_outgoing`), each a request signed at its own time; the attempt may take its steps only after `Verify`; `GiveUp` is a handler that ends before its claim; `SignedTick` counts a handler's time from the signature |
| `SignedDeliveryProofs` | theorems about `SignedDelivery` | section 5 |
| `Events` | `DirectTextWithReason` and what it calls, `ParseDirectJID`; the payloads of Evolution Go | operators on records; a JID is its user and its server; `Payloads(m)` are the reports of message `m` by either contract, with LIDs, alternates and missing flags |
| `TokenBucket` | the limiter `getLimiter` configures | credit in sixtieths of a token |
| `Endpoints` | both endpoints and the front half of both handlers, uses `Events`, `Signature`, `TokenBucket` | a *request* is at the endpoint (`Authenticate`), in the filters (`Decide`), answered, or at the limiter; `getLimiter` is two steps, `limiters.Load` and `LoadOrStore` |
| `Bridge` | the two handlers, the registry, the kill switch, both platforms; uses the row operators of `IdempotencyRow` on its own table | a *delivery* is one webhook call; `pc` is the place in the handler or its answer; every statement and every remote call is one action; prefix `C2W` and `W2C` for the two handlers, unprefixed actions are shared |
| `KillSwitch` | what a pause promises of handlers already under way; extends `Bridge` | adds to `Bridge` one history variable, `underWay`: the messages that handlers had in work when the present pause began. A handler reads the switch once, at its start |
| `BridgeProofs` | theorems about `Bridge` and `KillSwitch` under every failure they know; extends `KillSwitch` | section 5 |
| `BridgeOnceProofs` | nothing twice and no echo, when no answer is garbled; extends `BridgeProofs` | section 5 |
| `Crossing` | abstract specification of the bridge: what people say is copied once, and acknowledged only when copied | implemented by `Bridge` where no answer is lost: `Said`, `Copies`, `Receipted` |
| `CrossingProofs` | no loop back to WhatsApp, one publication, and the refinement, when nothing is lost; extends `BridgeOnceProofs` | section 5 |
| `Contacts` | contact, binding, conversation and contact map of one number | the three programs (handler, `add-contact`, `start-conversation`) share the actions of the client calls; `AfterBinding` and `AfterRefusal` say where they differ |
| `ContactsProofs` | theorems about `Contacts` | section 5 |
| `Setup` | runs of `connect setup` for several tenants and instances | one action per call with an effect; a run is given a name, an instance and a token, which may be another instance's (`MixedUp`): `Connect` changes the webhook of the token's instance, the row names the instance of the command line; secrets are named after what drew them, the run or the inbox; `Accepted` and `SignatureAccepted` are the checks of the two endpoints |
| `SetupProofs`, `EndpointsProofs` | theorems about `Setup` and `Endpoints` | section 5 |
| `MC*` | instances for TLC | |

`Bridge` and `Idempotency` share the rows, not the clock. `Bridge` has a horizon
below IDEMPOTENCY_TTL: rows marked or sent for that long do not lapse, two-minute
claims do (`ClaimLapses`). That a claim does not lapse under a living handler is
theorem `Exclusion` of `IdempotencyProofs`; `MayStall` drops it for a machine
that stops for minutes.

A call to a platform ends in one of five ways (`AllOutcomes`): performed and
answered; performed with `Do` failing ("lost"); performed, but answered with
something else ("garbled": a body that cannot be read, or an HTTP error that a
proxy puts in the answer's place); refused by HTTP status; never arrived. The
code tells them apart only by `TransportError`, which only `Do` produces
(`Transport`); both kinds of garbled answer are definite failures to it.

Operators named `...Short`, `...Spins`, `...AnyToken` and so on, under the words
"Mutated form", are plausible bugs of the definition that follows. They are
used in no specification; substituted for it, each makes the property named
in `PROJECT.json` fail.

## 3. Runs

| Run | Shows | Bounds |
|---|---|---|
| `idempotency_slow` | types; confirmations spaced by the window; a superseded attempt never completes or releases; a sent row has its audit row; "duplicate" is answered only for a confirmed delivery; the ledger is implemented | two redeliveries, one manual message and its suppression for the same C2W key; handlers of any length; clock 0..4 with TTLs 2 and 3, so claims and sent rows lapse and are taken again |
| `signed_webhooks` | one holder per key; one send per signed message for ever; orphaned claims lapse | one message with two events, the second signed a second after the first; three deliveries, two of them of the first event; handlers of length 1, window 1, claims of 2 and an IDEMPOTENCY_TTL of 5, the least that `TTLOutlastsReplay` allows; the clock reaches 7: every moment at which a request is accepted, the lapse of claims and of marked rows, and their purge |
| `endpoints` | no webhook is worked for a tenant whose secret it lacks; groups stay out; texts reach the right conversation and are not dropped; limiters are exact | three tenants (one without secrets), one contact; the first request is any webhook (inbox in four places, signer and age, event, type and source; every payload of every message), those after it go straight to the limiter; 3 requests at once, 4 calls, 3 seconds, a burst of 2 and a token every 3 seconds, so that the bucket empties and refills |
| `bridge_normal` | `Crossing` is implemented: each message crosses once, none comes back, a 200 only for what arrived; the loop and the duplicate that `bridge_faults` cannot rule out; during a pause nothing crosses but the messages handlers had in work when it began | one agent's, one contact's and one manual message, all with one text so that they meet in the registry; four deliveries, enough for a message, its echo, its redelivery and an unrelated one; refusals, pauses at any moment with a flag that can be read (the rate limit is in `bridge_faults` and, for these properties, in the theorems) |
| `bridge_faults` | no echo as a new message, one send, one publication of a manual message, no false 200, the pair of keys atomic, the registry exact: what survives lost answers, calls that never arrive, failing statements, a crash and stalled handlers; what a 200 ended is not taken up again | three deliveries, one crash, rate limit |
| `bridge_answers` | every handler answers or dies with the process | two deliveries (one waits for the other), all failures, pauses |
| `bridge_garbled`, `bridge_lost_publish` | findings 1 and 2 | only the failure that matters |
| `contacts_shared` | what is opened is bound; the map names nothing unbound; redelivered handlers get through | two handlers, one `add-contact`, one `start-conversation`, one failed call, one deletion of the contact |
| `contacts_two_open` | finding 3 | two handlers, no fault |
| `setup_runs` | after an undisturbed successful run the webhooks of both sides are let in; the database never locks one out; no second inbox for a registered tenant | two tenants (each possibly older than webhooks), two instances, three runs, failing or killed at any call; the token of the second instance may be given for the first |
| `setup_rerun` | finding 4 | two runs, each with the token of its instance |

Every run sets `CHECK_DEADLOCK FALSE`: the clock, the deliveries, the programs
and the runs of the models are bounded, and when they are used up nothing
happens any more. In `bridge_*` deliveries and in `setup_*` runs are
interchangeable and declared symmetric, never where liveness is checked.

`bridge_faults` leaves out `NoLoopToWhatsApp` and `IncomingPublishedAtMostOnce`:
with lost answers both are false. The first is finding 2. The second follows
from a choice of the code: an incoming message is claimed for two minutes so
that an unanswered publication can be tried again, at the price of a duplicate
when it had succeeded. `AcknowledgedIsFinal` is what remains of it: the
repetitions end with the first acknowledged one. It speaks of handlers that
hold their claim; one that stalls past its claim may still act.

In `endpoints` one request at a time is between its arrival and the limiter:
there a handler works on its own webhook and on tenant rows, and nothing is
shared. The limiters are, and their steps interleave. A request that comes after
another cannot behave differently before the limiter, so it need not be any
webhook again.

### Fairness

`SignedDelivery`: weak fairness of `SignedTick` (time passes) and of
`SignedAbandon` and `GiveUp` (the 25-second context of the endpoint and the
5-second persistence context end every handler). `Bridge`: weak fairness of each handler's next step, since the
runtime schedules goroutines and every call has a context. `Contacts`: the same,
and of redelivery, which a 5xx answer requests. No fairness is assumed of
people or of faults. In `Bridge` the platforms are not obliged to deliver or to
deliver again, hence liveness is "every handler answers".

## 4. Findings

1. *Unreadable answers.* A send that succeeded but whose answer cannot be read,
   or is replaced by a proxy's HTTP error, counts as a definite failure: the
   claim and with it the message ID are dropped, and the echo is published in
   Chatwoot. (`bridge_garbled`)
2. *Lost answer of a publication.* If Chatwoot stored a manual message and the
   answer is lost, waiting webhooks are let go without a suppression and the
   message goes to WhatsApp again. (`bridge_lost_publish`)
3. *Two conversations.* Two messages of one contact that arrive together open
   two conversations. (`contacts_two_open`)
4. *Somebody else's instance.* `setup` with an instance that belongs to another
   tenant redirects its webhook, is then refused by the unique index, and
   advises a rerun that cannot succeed; the instance goes on calling with a URL
   that no row agrees with. (`setup_rerun`)

Three more disagreements need no run of their own, because a property that
passes carries a condition that excludes them; TLC refutes it at once without:

- *Unreadable pause flag.* When `bridge_paused` cannot be read, the handler goes
  by the environment alone (`bridge.go:129`, `160-163`) and sends although the
  bridge is paused; `docs/security.md:83` promises a 503. `PauseHoldsBack`
  fails with `MayFailDB`.
- *Somebody else's token.* `setup` validates the token (`setup.go:94-104`) but
  not that it belongs to `--evo-instance`. With another instance's it changes
  that one's webhook, reports success, and the webhooks of the instance it named
  are never let in. `SuccessIsAccepted` fails without `OwnToken`.
- *A LID without a number.* A direct text that names its contact by LID only is
  answered 503 and comes back (`types.go:99`), where
  `spec-sync-manual-whatsapp-outgoing.md:35` wants it skipped without retry. The
  later `spec-resolve-evogo-alternate-recipient-jid.md:36` wants the error: the
  two specifications contradict each other. `DirectTextsArrive` asks for a
  number in the payload (`NamesContact`).

Noted while reading, without a run: the comment at
`internal/bridge/bridge.go:222` says processing claims expire quickly, but
`MarkC2WOrigin` extends a C2W claim to IDEMPOTENCY_TTL before every send, so a
crash during the send blocks redelivery that long (theorem `SentOnce` rests on
just this); a textual JID with a device part is chosen by `selectInfoJID` and
then refused by `ParseDirectJID`, with a 503 at every redelivery; `IsPaused` ORs database and environment
although its comment gives the database priority; the comment above `IsFromMe`
says own messages are never forwarded to Chatwoot, which the manual
synchronisation now does; the handler's upsert empties the `display_name` that
`add-contact` stored; when the answer of `CreateTenant` is lost, `setup` advises to
remove an inbox that the tenant now uses (`setup.go:181`); two overlapping runs of `setup` for one tenant can leave
the secret of one in the database and of the other in Evolution Go (the
condition `alone` in `SuccessIsAccepted` is there for it).

## 5. Proofs

Every theorem is about any sets of messages, contacts, tenants, attempts,
handlers and runs and any limits and TTLs, within the named assumptions on the
constants (section 6). Each proof module has one inductive invariant, which its
head states in named conjuncts; one lemma per action or per conjunct shows that
a step preserves it, and the theorems follow from it.

| Module | Theorem | Property | Hypotheses of the theorem |
|---|---|---|---|
| `IdempotencyProofs` | `TypeCorrect`, `Spaced`, `Audited`, `AnswerBacked`, `Fencing`, `Refinement` | `TypeOK`, `DeliveriesSpaced`, `SentIsAudited`, `CompletedAnswerIsBacked`, `SupersededNeverFinishes`, `ImplementsLedger` | |
| | `Exclusion` | `OneHolder` | `TimelyHandlers`: `HandlerTTL` below both TTLs |
| `SignedDeliveryProofs` | `Implementation`, `SentOnce` | `ImplementsClaims` (all of the above holds behind the signature check), `SentOnceEver` | inside `SentOnceEver`: `TTLOutlastsReplay` |
| `BridgeProofs` | `TypeCorrect`, `RegistryExact`, `ManualPairAtomic`, `AcknowledgedDelivered`, `AcknowledgedFinal` | `TypeOK`, `RegistryIsExact`, `ManualPairIsAtomic`, `AcknowledgedIsDelivered`, `AcknowledgedIsFinal` | |
| | `PauseHolds` | `PauseHoldsBack`, of `SwitchSpec` | `~MayFailDB \/ EnvPaused` |
| `BridgeOnceProofs` | `SentOnce`, `NoEchoPublished`, `ManualOnce` | `SentAtMostOnce`, `NoLoopToChatwoot`, `ManualPublishedAtMostOnce` | `"garbled" \notin Outcomes` |
| `CrossingProofs` | `NoCopySentBack` | `NoLoopToWhatsApp` | `Calm` |
| | `IncomingOnce`, `CrossingImplemented` | `IncomingPublishedAtMostOnce`, `ImplementsCrossing` | `Calm`, `~MayStall` |
| `ContactsProofs` | `TypeCorrect`, `Answerable`, `MapIsBound` | `TypeOK`, `ConversationsAreAnswerable`, `MapNamesBoundContact` | |
| `SetupProofs` | `TypeCorrect`, `InboxKept`, `DatabaseLocksNobodyOut`, `SuccessLetsIn` | `TypeOK`, `RegisteredInboxIsKept`, `OnlyEvolutionLocksOut`, `SuccessIsAccepted` | inside the last two: `OwnToken`, for Evolution Go's webhooks |
| `EndpointsProofs` | `TypeCorrect`, `TenantServed`, `GroupsOut`, `ConversationRight`, `TextsArrive`, `LimiterExact` | `TypeOK`, `AuthenticatedTenantIsServed`, `GroupsStayOut`, `RightConversation`, `DirectTextsArrive`, `LimiterIsExact` | |

### The claim protocol

The inductive invariant joins to the types: claims began in the past; the token
in a row is the last grant of its key; every audit row belongs to an attempt
that finished and was made in the past; inside the window after a confirmation
the row is still sent, with the expiry of that confirmation; a sent row has its
audit row; an attempt that lost its claim saw a row that was live when it began;
a "completed" answer is backed. None of the stated properties is inductive
alone: spacing needs that nothing but the passing of the window makes a sent
row claimable (completion drops the token, so mark, complete and release no
longer match it), and that the token in a row determines the attempt that may
finish it. `Exclusion` adds that running attempts are within `HandlerTTL` and
that a holder's row is its own and does not lapse before the handler ends: the
claim's expiry is at least `began + min(ClaimTTL, IdempotencyTTL)`, and marking
only moves it further. The refinement takes `DeliveriesSpaced` and the window
invariant to show that every completion is a `Record` step of the ledger.

`SentOnce` needs both halves of the design. A signature is accepted only within
`ReplayWindow` of its timestamp, on either side, and the requests of one message
are signed at most `EventSpread` apart, so any two acceptances for it are at
most `2 * ReplayWindow + EventSpread` apart, and a handler acts within
`HandlerTTL` of its own. From the mark on the row is closed until
`IdempotencyTTL` after it: marked rows stay until a completion, which extends
them, or a release, which takes the attempt out of `sends`. Hence no second
attempt can claim while it is still let in. The invariant `SInv` says so:
acceptances are in the window (`VerifiedInWindow`), an attempt that claims has
one (`ClaimsAreVerified`), what was sent was marked or concluded
(`SendsAreMarked`) and its row is closed beyond the last possible acceptance
plus `HandlerTTL` (`SendsAreClosed`). The two constants come from the
environment without a bound on either (`internal/config/config.go:38-41`); the
defaults, 24 hours and 5 minutes, satisfy the hypothesis.

### The bridge

`BridgeProofs` assumes nothing about failures. Its invariant says that a
webhook tells of something that happened (`EventsAreAnnounced`), which handler
can be at which place (`PlacesFitEvents`), that the message a handler
suppresses is the one it published (`MadeIsMine`), that a row becomes sent only
when its message has arrived (`SentMeansArrived`), and what a handler knows
when it confirms or answers (`ConfirmersArrived`). `AcknowledgedIsDelivered`
needs the last two together: a 200 is answered on the word of a row, and the row
may be another handler's. `PauseHoldsBack` needs of it that whatever appears on
a platform is the message its handler was called for (`CopyIsOfSubject`), and
besides that during a pause every handler past the switch works on a message in
`underWay` (`AdmittedBefore`), which holds because nobody passes the switch
while it is read as it is (`AdmittedInTime`). Its hypothesis is the code's: when
the flag cannot be read the environment decides (section 4).

`BridgeOnceProofs` adds that from the mark on the row of a Chatwoot message is
its handler's and keeps the message's ID for good (`SendsAreMarked`), so the
echo is recognised whenever it comes (`EchoesStop`), and that the claim of an own
message is given back only while the message is not in Chatwoot
(`OwnClaimsHold`). Lost answers, calls that never arrive, failing statements,
crashes and stalled handlers are all allowed: an ambiguous failure keeps the
claim. A garbled answer, unreadable or an HTTP error in its place, counts as a definite failure in the code, gives the
claim back, and breaks all three properties (finding 1).

`CrossingProofs` supposes `Calm`: no answer lost or garbled, no crash, no
failing statement. Refusals, calls that never arrive, the limiter, the pause,
and late, repeated and reordered webhooks remain. A copy in Chatwoot of a
message typed on the phone is guarded at every moment, by its publisher that is
still registered or by its suppressed key (`CopiesAreGuarded`); hence
Chatwoot's webhook for it reaches the claim only when the claim must fail
(`CopiesAreNotClaimed`; `RegistryIsExact` is what makes the wait long enough).
This needs no clock. That a contact's message is published once does, because
its claim is for two minutes only: `~MayStall` is what `Exclusion` proves of
handlers that respect their contexts. None of the hypotheses can be dropped:
with a lost or a garbled answer, one crash or one failing statement TLC finds
`NoLoopToWhatsApp` and `IncomingPublishedAtMostOnce` violated on the instance of
`bridge_normal` with three deliveries, and the second also with one stall.
`CrossingImplemented` shows that a message that appears is a `Say`, a send or a
publication a `Copy` of something said and not yet copied, and a new
acknowledgement a `Receipt` of something copied; every other step stutters.

### The endpoints

What a request has at the desk is tied to its webhook: `Knows` says that it was
admitted for the tenant whose secret it carries, and that what the handler
decided is `Handle` of just this webhook. The properties before the limiter are
then facts about operators: `HookShapes` (what can arrive), `GateAdmits` (whom
the endpoints let in), `ReportIsUnderstood` (what `DirectTextWithReason` makes of
any payload of a message: it rests on `DirectJIDs` and `GroupJIDs`, for any
numbers, LIDs and alternates). `LimiterIsExact` needs the books of every lane:
`Balanced` bounds what was granted since any earlier answer together with what
the bucket holds now, from above always and from below since some answer or
else the bucket is full. The lemmas `Filling`, `Taking` and `BornFull` about the
bucket, and `BalancedLater` and `BalancedAnswer` about the books, carry it
through time and calls, and `LanesKeepTheirLimiter` says that the race to create
a limiter leaves each lane one for good, which every request of the lane asks.

### Contacts and setup

`ContactsProofs`: Chatwoot never uses a contact's number again
(`NumbersAreSpent`), a program past the search works with a contact
(`WorksWithContact`), and what it has seen bound is bound as long as the contact
exists (`SeenBoundIsBound`), through any deletions.

`SetupProofs`: rows are never deleted and their inbox never changes, so what a
run read of its row stays true whatever other runs do (`RunsHoldWhatTheyNeed`);
while a run that nobody overlapped is under way no other works with its name or
its token (`NobodyNear`), so what it has done is still so at its next call
(`OwnWorkStands`).

### Only model-checked

All liveness (`OrphanedClaimLapses`, `HandlersAnswer`, `RetriesConverge`) rests
on fairness and is out of the prover's reach. The violations of section 4 are
TLC's. The theorems are about the models: what the `map` of `PROJECT.json` says
of their correspondence to the code is read, not proved.

## 6. Assumptions

- The database's clock does not go back; a statement or transaction is atomic.
- Deterministic message IDs (truncated SHA-256) are injective and no phone
  produces one, nor the empty one (`NoMessageAssumption`).
- One connector process: the registry of manual publications is in memory.
- In `W2CSuppress` the two statements of the suppressing claim are one step; any
  answer but "acquired" has the same consequence.
- Chatwoot refuses a second contact with one identifier and a second binding
  with one `source_id`, deletes a contact with its conversations, and filters
  conversations by contact as the client asks it to.
- Evolution Go stores one webhook URL per instance.
- HMAC-SHA256 cannot be forged; the signed requests of one Chatwoot message are
  signed at most `EventSpread` apart (`SignedAssumption`); the offset of the
  connector's clock to the database's is constant.
- For the theorems of `BridgeOnceProofs` and `CrossingProofs`, an HTTP error
  means that the call was not performed. `bridge_garbled` shows what happens
  otherwise.
- For Evolution Go's half of `SuccessIsAccepted` and `OnlyEvolutionLocksOut`, the
  token given to `setup` is that of `--evo-instance` (`OwnToken`); runs before may
  have had another's (section 4).
- Nobody writes with the connected number itself, and no contact's number is
  empty (`EventsAssumption`).
- `setup` is run finitely often, and there is a name to run it with
  (`SetupAssumption`).
- Tenant rows do not change while a request is authenticated.
- Evolution Go's reports of a message agree with it wherever they say anything:
  a flag or number may be absent, not wrong, except that the legacy flag may be
  false beside a native flag that is true. An own message carries at least one
  flag that says so, and no JID has a device part (what the code does with one
  is noted in section 4).
- The library's limiter earns credit continuously; the model counts it at whole
  seconds, at which a rate per minute is a whole number of sixtieths.

## 7. Not modelled

Attachments differ from text only in the endpoint called. Encryption,
formatting, logs and metrics take no protocol decision. Bodies that cannot be
read or decoded are answered 400 before anything else. Which Chatwoot token and
base URLs `setup` stores decides nothing here. Shutdown ends handlers as `Crash`
does.

## 8. Plan

1. Done: every module of section 2 with its runs, and theorems for all safety
   properties of the passing runs.
2. Open: the hazards of `PROJECT.json` that carry a note instead of a property;
   payloads whose JIDs have a device part; tenant rows that `setup` changes
   while a request is authenticated.
