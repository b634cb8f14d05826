------------------------------ MODULE Endpoints ------------------------------
(***************************************************************************)
(* The two webhook endpoints (internal/httpapi) and the front half of the  *)
(* handlers of internal/bridge/bridge.go: who is speaking, for which       *)
(* tenant, about which contact, and whether the rate limiter lets it       *)
(* through.  What a handler does between the limiter and its answer is in  *)
(* module Bridge; so are the claim that precedes the limiter of a Chatwoot *)
(* webhook and the kill switch, which appear here by their answers.        *)
(*   Until the limiter a handler works on its own webhook and on rows that *)
(* do not change, so one request at a time is in that part (AtDesk); the   *)
(* limiters are shared and their steps interleave.                         *)
(***************************************************************************)
EXTENDS Events, TokenBucket, Signature, FiniteSets, Functions

CONSTANTS Requests,      \* HTTP requests in flight
          Tenants,       \* rows of `tenants`, each with its inbox and instance
          Unsecured,     \* tenants without stored webhook secrets
          NoTenant,
          LimitPerMin,   \* RATE_LIMIT_PER_MINUTE
          ReplayWindow,  \* HMAC_REPLAY_WINDOW
          MaxNow,        \* bound of the model: the clock stops here
          MaxCalls       \* bound of the model: calls of limiters

ASSUME EndpointsAssumption ==
    /\ Unsecured \subseteq Tenants /\ NoTenant \notin Tenants
    /\ LimitPerMin \in Nat \ {0}
    /\ ReplayWindow \in Nat /\ MaxNow \in Nat /\ MaxCalls \in Nat

VARIABLES now,       \* seconds, the clock of the limiters
          req,       \* Requests -> what its handler knows
          limiters,  \* Core.limiters: lanes -> limiter or none
          bucket,    \* the limiters made so far
          log        \* history: lanes -> answers of Allow, in order

vars == <<now, req, limiters, bucket, log>>

Directions == {"c2w", "w2c"}

\* limiterKey: one limiter per tenant and direction.
Lanes == [tenant : Tenants, dir : Directions]

NoLimiter == 0

Free == [stage |-> "free"]

Init ==
    /\ now = 0
    /\ req = [r \in Requests |-> Free]
    /\ limiters = [l \in Lanes |-> NoLimiter]
    /\ bucket = <<>>
    /\ log = [l \in Lanes |-> <<>>]

AtDesk(r) == req[r].stage \in {"received", "admitted", "decided", "answered"}

-----------------------------------------------------------------------------
(* The webhooks that arrive (external).                                    *)

\* Where a Chatwoot payload may name the inbox: any place may be left out, and
\* nothing makes them agree.  An inbox stands for the tenant it belongs to.
Inboxes == Tenants \cup {"none", "elsewhere"}

InboxFields ==
    [top : Inboxes, conversation : Inboxes, contactInbox : Inboxes, body : Inboxes]

Everywhere(t) ==
    [top |-> t, conversation |-> t, contactInbox |-> t, body |-> t]

\* A public message of an agent to contact c, as Chatwoot sends it.
AgentMessage(t, c) ==
    [endpoint |-> "chatwoot", signedBy |-> t, age |-> 0, inbox |-> Everywhere(t),
     event |-> "message_created", type |-> "outgoing", private |-> FALSE, id |-> 1,
     to |-> c, sourceID |-> Direct(c), identifier |-> Direct(c)]

\* Webhook w with other parts.
Naming(w, i)          == [w EXCEPT !.inbox = i]
Signed(w, s, n)       == [w EXCEPT !.signedBy = s, !.age = n]
OfKind(w, e, y, p, n) == [w EXCEPT !.event = e, !.type = y, !.private = p, !.id = n]
Addressed(w, s, j)    == [w EXCEPT !.sourceID = s, !.identifier = j]
SentTo(w, p, b, i, e) == [w EXCEPT !.path = p, !.secret = b, !.instance = i, !.event = e]

\* What source_id and the contact's identifier may be: nothing, the number in
\* one form or another, or something that is no number.
SourceIDs(c)   == {NoJID, JID(c, ""), JID(NoUser, "uuid")}
Identifiers(c) == {NoJID, Direct(c), JID(NoUser, "e-mail")}

\* An agent's message, with one aspect of it as it may also be.
AgentMessages(t, c) ==
    LET plain == AgentMessage(t, c)
    IN  {Naming(plain, i) : i \in InboxFields}
        \cup {Signed(plain, s, n) : s \in Tenants \cup {NoTenant},
                                    n \in {ReplayWindow, ReplayWindow + 1}}
        \cup {OfKind(plain, e, y, p, n) :
                e \in {"message_created", "message_outgoing", "message_updated"},
                y \in {"incoming", "outgoing"}, p \in BOOLEAN, n \in {0, 1}}
        \cup {Addressed(plain, s, j) : s \in SourceIDs(c), j \in Identifiers(c)}

ChatwootHooks == UNION {AgentMessages(t, c) : t \in Tenants, c \in Contacts}

\* Message m, reported with payload d at the URL of tenant t.
Report(t, m, d) ==
    [endpoint |-> "evolution", path |-> t, secret |-> TRUE, instance |-> t,
     event |-> "message", said |-> m, data |-> d]

PlainText(c) == [chat |-> "direct", contact |-> c, own |-> FALSE, text |-> TRUE]

PlainReport(t, c) ==
    Report(t, PlainText(c),
           [key |-> [remoteJid |-> Direct(c), fromMe |-> "false", id |-> "id"],
            info |-> NoInfo,
            message |-> [conversation |-> "text", extended |-> "absent"]])

\* Plain reports at other URLs, with other secrets, instances and events.
OddReports(t, c) ==
    {SentTo(PlainReport(t, c), p, b, i, e) :
        p \in Tenants \cup {NoTenant}, b \in BOOLEAN, i \in Tenants \cup {NoTenant},
        e \in {"message", "connection"}}

EvolutionHooks ==
    (UNION {{Report(t, m, d) : d \in Payloads(m) \cup {NoData}} :
               t \in Tenants, m \in Messages})
    \cup (UNION {OddReports(t, c) : t \in Tenants, c \in Contacts})

Webhooks == ChatwootHooks \cup EvolutionHooks

\* Webhooks that go straight to the limiter of their lane.
PlainWebhooks ==
    UNION {{AgentMessage(t, c), PlainReport(t, c)} : t \in Tenants \ Unsecured,
                                                      c \in Contacts}

-----------------------------------------------------------------------------
(* Who is speaking.                                                        *)

\* The inbox by which the endpoint finds the tenant: the first place that
\* names one; the body probe looks at the conversation again and then at the
\* contact_inbox beside it.
InboxID(inbox) ==
    LET named == SelectSeq(<<inbox.top, inbox.conversation, inbox.contactInbox, inbox.body>>,
                           LAMBDA i : i # "none")
    IN  IF named = <<>> THEN "none" ELSE Head(named)

GetTenantByChatwootInbox(inbox) == IF inbox \in Tenants THEN inbox ELSE NoTenant

\* HTTP status of a refusal; 0 lets the webhook in, for the tenant found.
ChatwootGate(w) ==
    LET inbox == InboxID(w.inbox)
        tenant == GetTenantByChatwootInbox(inbox)
    IN  [tenant |-> tenant,
         status |-> IF inbox = "none" THEN 400
                    ELSE IF tenant = NoTenant THEN 404
                    ELSE IF tenant \in Unsecured THEN 503
                    ELSE IF ~VerifySignature(w.signedBy = tenant, now - w.age, now,
                                             ReplayWindow) THEN 401
                    ELSE 0]

EvolutionGate(w) ==
    [tenant |-> w.path,
     status |-> IF \/ w.path \notin Tenants \ Unsecured
                   \/ ~w.secret
                   \/ w.instance \notin {NoTenant, w.path}
                THEN 401 ELSE 0]

Gate(w) == IF w.endpoint = "chatwoot" THEN ChatwootGate(w) ELSE EvolutionGate(w)

-----------------------------------------------------------------------------
(* What the handler makes of it.                                           *)

Refused(status) == [status |-> status]

Decided(tenant, dir, contact, own) ==
    [status |-> 0, lane |-> [tenant |-> tenant, dir |-> dir],
     contact |-> contact, own |-> own]

\* Mutated form: the assignment env.Conversation.InboxID = inboxID is missing.
CoreInboxAsSent(w) == w.inbox.conversation

\* The inbox HandleChatwootWebhook reads: the endpoint wrote its own finding
\* into the envelope.
CoreInbox(w) == InboxID(w.inbox)

\* source_id of the contact's inbox, or the contact's identifier.
SourceID(w) == IF w.sourceID = NoJID THEN w.identifier ELSE w.sourceID

HandleChatwootWebhook(w) ==
    LET tenant == GetTenantByChatwootInbox(CoreInbox(w))
        contact == ParseDirectJID(SourceID(w))
    IN  IF \/ w.event \notin {"message_created", "message_outgoing"}
           \/ w.type # "outgoing"
           \/ w.private
        THEN Refused(200)
        ELSE IF w.id <= 0 \/ tenant = NoTenant \/ contact = NoUser
        THEN Refused(500)
        ELSE Decided(tenant, "c2w", contact, FALSE)

HandleEvogoWebhook(w, tenant) ==
    LET text == DirectTextWithReason(w.event, w.data)
    IN  IF text.result = "skip" THEN Refused(200)
        ELSE IF text.result = "error" \/ ParseDirectJID(text.remoteJid) = NoUser
        THEN Refused(503)
        ELSE Decided(tenant, "w2c", ParseDirectJID(text.remoteJid), text.own)

Handle(w, tenant) ==
    IF w.endpoint = "chatwoot" THEN HandleChatwootWebhook(w)
                               ELSE HandleEvogoWebhook(w, tenant)

-----------------------------------------------------------------------------

Quiet == now = 0 /\ \A l \in Lanes : log[l] = <<>>

Calls ==
    MapThenSumSet(LAMBDA l : Len(log[l]), Lanes)
    + Cardinality({r \in Requests : req[r].stage # "free"})

\* The first request may be any webhook; those after it, which are there for
\* the limiters, go straight to their lane.
Receive(r) ==
    /\ req[r] = Free
    /\ \A q \in Requests : ~AtDesk(q)
    /\ Calls < MaxCalls
    /\ \E w \in IF Quiet /\ \A q \in Requests : req[q] = Free
                THEN Webhooks ELSE PlainWebhooks :
          req' = [req EXCEPT ![r] = [stage |-> "received", hook |-> w]]
    /\ UNCHANGED <<now, limiters, bucket, log>>

Answered(w, tenant, status) ==
    [stage |-> "answered", hook |-> w, tenant |-> tenant, status |-> status]

\* The endpoint: tenant, secret or signature, instance.
Authenticate(r) ==
    /\ req[r].stage = "received"
    /\ LET w == req[r].hook
           gate == Gate(w)
       IN  req' = [req EXCEPT ![r] =
             IF gate.status = 0
             THEN [stage |-> "admitted", hook |-> w, tenant |-> gate.tenant]
             ELSE Answered(w, NoTenant, gate.status)]
    /\ UNCHANGED <<now, limiters, bucket, log>>

\* The kill switch is on.
Paused(r) ==
    /\ req[r].stage = "admitted"
    /\ req' = [req EXCEPT ![r] = Free]
    /\ UNCHANGED <<now, limiters, bucket, log>>

\* The filters of the handler, the tenant and the contact.
Decide(r) ==
    /\ req[r].stage = "admitted"
    /\ LET w == req[r].hook
           tenant == req[r].tenant
           outcome == Handle(w, tenant)
       IN  req' = [req EXCEPT ![r] =
             IF outcome.status = 0
             THEN [stage |-> "decided", hook |-> w, tenant |-> tenant,
                   lane |-> outcome.lane, contact |-> outcome.contact,
                   own |-> outcome.own]
             ELSE Answered(w, tenant, outcome.status)]
    /\ UNCHANGED <<now, limiters, bucket, log>>

Respond(r) ==
    /\ req[r].stage = "answered"
    /\ req' = [req EXCEPT ![r] = Free]
    /\ UNCHANGED <<now, limiters, bucket, log>>

\* A Chatwoot webhook that ends at a manual publication or at its claim.
EndAtClaim(r) ==
    /\ req[r].stage = "decided" /\ req[r].lane.dir = "c2w"
    /\ req' = [req EXCEPT ![r] = Free]
    /\ UNCHANGED <<now, limiters, bucket, log>>

Allowing(lane, limiter) == [stage |-> "allowing", lane |-> lane, limiter |-> limiter]

\* getLimiter: the fast path, limiters.Load(key).
LoadLimiter(r) ==
    /\ req[r].stage = "decided"
    /\ LET lane == req[r].lane
       IN  req' = [req EXCEPT ![r] =
             IF limiters[lane] = NoLimiter
             THEN [stage |-> "creating", lane |-> lane]
             ELSE Allowing(lane, limiters[lane])]
    /\ UNCHANGED <<now, limiters, bucket, log>>

\* Mutated form: the last limiter stored wins.
LoadOrStoreLast(lane, new) == [limiters EXCEPT ![lane] = new]

\* limiters.LoadOrStore(key, lim): the first limiter stored stays.
LoadOrStore(lane, new) ==
    IF limiters[lane] = NoLimiter THEN [limiters EXCEPT ![lane] = new] ELSE limiters

\* getLimiter: a new limiter, and the one that is to be used.
StoreLimiter(r) ==
    /\ req[r].stage = "creating"
    /\ LET lane == req[r].lane
       IN  /\ bucket' = Append(bucket, NewLimiter(LimitPerMin, now))
           /\ limiters' = LoadOrStore(lane, Len(bucket) + 1)
           /\ req' = [req EXCEPT ![r] = Allowing(lane, limiters'[lane])]
    /\ UNCHANGED <<now, log>>

\* Allow(): the handler goes on, or ends with 429.
Allow(r) ==
    /\ req[r].stage = "allowing"
    /\ LET b == bucket[req[r].limiter]
       IN  /\ log' = [log EXCEPT ![req[r].lane] =
                        Append(@, [at |-> now, ok |-> Allows(b, LimitPerMin, now)])]
           /\ bucket' = [bucket EXCEPT ![req[r].limiter] = AfterAllow(b, LimitPerMin, now)]
    /\ req' = [req EXCEPT ![r] = Free]
    /\ UNCHANGED <<now, limiters>>

Tick ==
    /\ now < MaxNow
    /\ now' = now + 1
    /\ UNCHANGED <<req, limiters, bucket, log>>

Next ==
    \/ Tick
    \/ \E r \in Requests :
          \/ Receive(r) \/ Authenticate(r) \/ Paused(r) \/ Decide(r) \/ Respond(r)
          \/ EndAtClaim(r) \/ LoadLimiter(r) \/ StoreLimiter(r) \/ Allow(r)

Spec == Init /\ [][Next]_vars

-----------------------------------------------------------------------------

TypeOK ==
    /\ now \in 0..MaxNow
    /\ \A r \in Requests :
          req[r].stage \in {"free", "received", "admitted", "decided", "answered",
                            "creating", "allowing"}
    /\ \A r \in Requests : req[r].stage \in {"decided", "creating", "allowing"}
                              => req[r].lane \in Lanes
    /\ limiters \in [Lanes -> 0..Len(bucket)]
    /\ \A b \in Range(bucket) : b.credit \in 0..Token * Burst(LimitPerMin)
                                /\ b.last \in 0..now
    /\ \A l \in Lanes : \A e \in Range(log[l]) : e.at \in 0..now /\ e.ok \in BOOLEAN

\* The secret that admitted a webhook is the secret of the tenant it is worked
\* for, whatever the payload says in its other fields: a Chatwoot webhook with
\* four places for the inbox, an Evolution Go event with an instance in it.
AuthenticatedTenantIsServed ==
    \A r \in Requests : req[r].stage = "decided" =>
        LET w == req[r].hook
            served == req[r].lane.tenant
        IN  /\ served \notin Unsecured
            /\ w.endpoint = "chatwoot" =>
                  w.signedBy = served /\ w.age <= ReplayWindow
            /\ w.endpoint = "evolution" =>
                  w.path = served /\ w.secret /\ w.instance \in {NoTenant, served}

\* Evolution Go's messages that have got past the endpoint and were then
\* answered without going on.
EndedReport(r) ==
    /\ req[r].stage = "answered" /\ req[r].tenant # NoTenant
    /\ req[r].hook.endpoint = "evolution" /\ req[r].hook.data # NoData

\* Groups and broadcasts: "Skip seguro, sem retry".  Whatever alternates name
\* their members, they do not go on, and they are acknowledged, never answered
\* with an error that would bring them back.
GroupsStayOut ==
    \A r \in Requests :
        /\ EndedReport(r) /\ req[r].hook.said.chat # "direct" => req[r].status = 200
        /\ req[r].stage = "decided" /\ req[r].hook.endpoint = "evolution"
              => req[r].hook.said.chat = "direct"

\* "não encaminhar a mensagem manual para o remetente (número conectado)": what
\* goes on is a text, with the contact of its chat and on the right side of it,
\* whichever contract, LID and alternates Evolution Go used.
RightConversation ==
    \A r \in Requests : req[r].stage = "decided" =>
        LET w == req[r].hook
        IN  IF w.endpoint = "chatwoot" THEN req[r].contact = w.to
            ELSE /\ w.said.text
                 /\ req[r].contact = w.said.contact
                 /\ req[r].own = w.said.own

\* A direct text whose payload gives the contact's number in any place (as a
\* number, without a device part) is not dropped, and not refused again at
\* every redelivery.
NamesContact(w) ==
    Direct(w.said.contact) \in
        {w.data.key.remoteJid, w.data.info.chat, w.data.info.sender,
         w.data.info.senderAlt, w.data.info.recipientAlt}

DirectTextsArrive ==
    \A r \in Requests :
        LET w == req[r].hook
        IN  EndedReport(r) /\ w.event \in MessageEvents
                => ~(w.said.chat = "direct" /\ w.said.text /\ NamesContact(w))

\* "Por (tenant_id, direction) — token bucket": in every stretch of time a
\* tenant and direction get at most a burst and what the rate earns, however
\* their first requests race to create the limiter; and whoever is refused is
\* refused because of what its own tenant and direction already got.
Granted(l, i, j) == Cardinality({k \in i..j : log[l][k].ok})

Earned(l, i, j) ==
    Token * Burst(LimitPerMin) + LimitPerMin * (log[l][j].at - log[l][i].at)

LimiterIsExact ==
    \A l \in Lanes : \A j \in DOMAIN log[l] :
        /\ \A i \in 1..j : Token * Granted(l, i, j) <= Earned(l, i, j)
        /\ ~log[l][j].ok =>
              \E i \in 1..j : Token * (Granted(l, i, j) + 1) > Earned(l, i, j)

=============================================================================
