-------------------------------- MODULE Bridge --------------------------------
(***************************************************************************)
(* The two webhook handlers of internal/bridge/bridge.go between Chatwoot  *)
(* and Evolution Go (WhatsApp), for one tenant and one conversation.  A    *)
(* delivery is one HTTP webhook call; the same event may be delivered      *)
(* again, late or out of order, and deliveries run concurrently.  Every    *)
(* statement to the database and every call to a platform is one step, so  *)
(* other handlers run in between.  The in-memory registry of manual        *)
(* publications is lost in a crash, the tables are not.                    *)
(*                                                                         *)
(* The horizon is shorter than IDEMPOTENCY_TTL: a row marked or sent for   *)
(* that long does not lapse here, the two-minute claims do (module         *)
(* Idempotency has the clock and the purge).                               *)
(***************************************************************************)
EXTENDS IdempotencyRow, FiniteSets

CONSTANTS Deliveries,     \* webhook calls; each draws a fresh claim token
          AgentTexts,     \* what the agent may write
          AgentMax,       \* bound: messages the agent writes
          FromContact,    \* WhatsApp messages a contact writes
          FromPhone,      \* WhatsApp messages written on the connected phone
          TextOf,         \* their texts
          Outcomes,       \* how a call to a platform may end
          MaxCrashes,     \* bound: crashes of the connector
          MayLimit,       \* the rate limiter may refuse
          MayFailDB,      \* a database statement may fail without effect
          MayStall,       \* a handler may outlive its two-minute claim
          MayPause,       \* the administrator uses the kill switch
          EnvPaused       \* BRIDGE_PAUSED

WaIds == FromContact \cup FromPhone

\* The answer of a garbled call cannot be read, or is the HTTP error of a proxy
\* that gave up waiting: to the clients both are definite failures.
AllOutcomes == {"ok",        \* performed and answered
                "lost",      \* performed, but Do returns an error
                "garbled",   \* performed, but answered with something else
                "rejected",  \* not performed, HTTP error
                "unsent"}    \* not performed, Do returns an error

ASSUME BridgeAssumption ==
    /\ AgentMax \in Nat /\ MaxCrashes \in Nat
    /\ IsFiniteSet(Deliveries) /\ NoToken \notin Deliveries
    /\ TextOf \in [WaIds -> AgentTexts]
    /\ FromContact \cap FromPhone = {}
    /\ Outcomes \subseteq AllOutcomes /\ Outcomes # {}
    /\ {MayLimit, MayFailDB, MayStall, MayPause, EnvPaused} \subseteq BOOLEAN

Performed(out) == out \in {"ok", "lost", "garbled"}

\* Mutated form: every failure is definite.
TransportNever(out) == FALSE

\* errors.As(err, &TransportError): only httpClient.Do's own error is one.
Transport(out) == out \in {"lost", "unsent"}

\* Chatwoot numbers its messages; each delivery publishes at most one.
ChatIds == 1..(AgentMax + Cardinality(Deliveries))

\* deterministicMessageID: the WhatsApp message ID of a Chatwoot message
\* (a truncated SHA-256, taken as injective and never a phone's own ID).
EvoId(c) == [chatwoot |-> c]
NativeId(w) == [whatsapp |-> w]
MessageIds == {EvoId(c) : c \in ChatIds} \cup {NativeId(w) : w \in WaIds}

ASSUME NoMessageAssumption == NoMessage \notin MessageIds

C2WKey(c) == <<"c2w", c>>
W2CKey(id, own) == <<IF own THEN "w2c-own" ELSE "w2c", id>>

Keys == {C2WKey(c) : c \in ChatIds}
          \cup {W2CKey(id, own) : id \in MessageIds, own \in BOOLEAN}

\* How long a row lives, and the "now" it is compared with.
Lapsed == 0
TwoMinutes == 1
IdempotencyTTL == 2
Now == 0

ChatwootEvents == [from : {"chatwoot"}, chat : ChatIds]
EvolutionEvents == [from : {"evolution"}, id : MessageIds, own : BOOLEAN]
NoEvent == [from |-> "nowhere"]

\* Who wrote a Chatwoot message: the agent, or the handler of a WhatsApp one.
Agent == [agent |-> TRUE]
NoChat == [dir |-> "none"]
Chats == [dir : {"in", "out"}, by : MessageIds \cup {Agent}, text : AgentTexts]

VARIABLES chat,      \* Chatwoot: ChatIds -> message
          written,   \* WhatsApp: the messages people wrote
          sent,      \* WhatsApp: ChatIds -> how often it was accepted
          table,     \* Keys -> row of `idempotency`
          audit,     \* rows of `bridge_log`: what was concluded for which key
          dbPaused,  \* the row of `bridge_paused`
          pending,   \* manualOutgoing: texts -> count, in memory
          pc,        \* Deliveries -> where the handler is, or its answer
          event,     \* Deliveries -> the webhook it handles
          made,      \* Deliveries -> ID CreateOutgoingMessage returned (or 0)
          after,     \* Deliveries -> what follows finishManual
          crashes    \* crashes so far

platforms == <<chat, written, sent>>
vars == <<chat, written, sent, table, audit, dbPaused, pending, pc, event, made,
          after, crashes>>

Init ==
    /\ chat = [c \in ChatIds |-> NoChat]
    /\ written = {}
    /\ sent = [c \in ChatIds |-> 0]
    /\ table = [k \in Keys |-> AbsentRow]
    /\ audit = {}
    /\ dbPaused = FALSE
    /\ pending = [t \in AgentTexts |-> 0]
    /\ pc = [d \in Deliveries |-> "idle"]
    /\ event = [d \in Deliveries |-> NoEvent]
    /\ made = [d \in Deliveries |-> 0]
    /\ after = [d \in Deliveries |-> "ok"]
    /\ crashes = 0

-----------------------------------------------------------------------------
\* The answers of the handlers; everything else is a handler at work.

Answers == {"ok", "duplicate", "skipped", "paused", "limited", "busy", "error"}

\* HTTP 200: nil and ErrSkipped.  ErrRateLimited is 429, ErrPaused and
\* ErrInProgress are 503, and the rest is 500 (Chatwoot) or 503 (Evolution).
Acknowledges(answer) == answer \in {"ok", "duplicate", "skipped"}

Working(d) == pc[d] \notin Answers \cup {"idle", "crashed"}

IsC2W(d) == event[d].from = "chatwoot"
IsOwn(d) == event[d].from = "evolution" /\ event[d].own

KeyOf(d) == IF IsC2W(d) THEN C2WKey(event[d].chat)
                        ELSE W2CKey(event[d].id, event[d].own)

\* The text of a message, which with tenant and JID is manualOutgoingKey.
TextOfId(id) == IF "chatwoot" \in DOMAIN id THEN chat[id.chatwoot].text
                                            ELSE TextOf[id.whatsapp]
Text(d) == IF IsC2W(d) THEN chat[event[d].chat].text ELSE TextOfId(event[d].id)

Goto(d, l) == pc' = [pc EXCEPT ![d] = l]
Holds(d) == ActiveClaim(table[KeyOf(d)], d)
SetRow(k, row) == table' = [table EXCEPT ![k] = row]

\* A statement fails: the handler gives up and leaves what it holds.
DBFails(d, l) == MayFailDB /\ Goto(d, l) /\ UNCHANGED table

NewChat(c, message) ==
    /\ chat[c] = NoChat
    /\ \A i \in 1..(c - 1) : chat[i] # NoChat
    /\ chat' = [chat EXCEPT ![c] = message]

Log(k, status) == audit' = audit \cup {[key |-> k, status |-> status]}

-----------------------------------------------------------------------------
\* The world outside.

AgentWrites ==
    /\ Cardinality({c \in ChatIds : chat[c] # NoChat /\ chat[c].by = Agent}) < AgentMax
    /\ \E c \in ChatIds, t \in AgentTexts :
          NewChat(c, [dir |-> "out", by |-> Agent, text |-> t])
    /\ UNCHANGED <<written, sent, table, audit, dbPaused, pending, pc, event,
                   made, after, crashes>>

PersonWrites(w) ==
    /\ w \notin written
    /\ written' = written \cup {w}
    /\ UNCHANGED <<chat, sent, table, audit, dbPaused, pending, pc, event,
                   made, after, crashes>>

\* Chatwoot calls for every message; Evolution Go for every WhatsApp message,
\* those the connector sent included (own, with the deterministic ID).
Announced ==
    [from : {"chatwoot"}, chat : {c \in ChatIds : chat[c] # NoChat}]
      \cup {[from |-> "evolution", id |-> NativeId(w), own |-> w \in FromPhone] :
               w \in written}
      \cup {[from |-> "evolution", id |-> EvoId(c), own |-> TRUE] :
               c \in {x \in ChatIds : sent[x] > 0}}

\* A webhook arrives: for the first time, again, or after later ones.
Deliver(d) ==
    /\ pc[d] = "idle"
    /\ \E e \in Announced : event' = [event EXCEPT ![d] = e]
    /\ Goto(d, "start")
    /\ UNCHANGED <<platforms, table, audit, dbPaused, pending, made, after, crashes>>

\* POST /admin/pause and /admin/resume.
SetPaused ==
    /\ MayPause
    /\ dbPaused' = ~dbPaused
    /\ UNCHANGED <<platforms, table, audit, pending, pc, event, made, after, crashes>>

\* The process dies and is restarted: handlers and registry are gone.
Crash ==
    /\ crashes < MaxCrashes
    /\ \E d \in Deliveries : Working(d)
    /\ crashes' = crashes + 1
    /\ pc' = [d \in Deliveries |-> IF Working(d) THEN "crashed" ELSE pc[d]]
    /\ pending' = [t \in AgentTexts |-> 0]
    /\ UNCHANGED <<platforms, table, audit, dbPaused, event, made, after>>

\* Two minutes pass.  A handler lives at most 30 seconds, so only the claim of
\* one that is gone lapses (theorem Exclusion of IdempotencyProofs), unless
\* the machine stalls.
ClaimLapses(k) ==
    /\ table[k].status = "processing" /\ table[k].expires = TwoMinutes
    /\ MayStall \/ ~Working(table[k].token)
    /\ SetRow(k, [table[k] EXCEPT !.expires = Lapsed])
    /\ UNCHANGED <<platforms, audit, dbPaused, pending, pc, event, made, after,
                   crashes>>

-----------------------------------------------------------------------------
\* Steps both handlers have.

\* Mutated form: the database row is not consulted.
PauseReadsEnvOnly == {EnvPaused}

\* IsPaused: environment or database; the environment alone if the read fails.
PauseReads == {EnvPaused \/ dbPaused} \cup (IF MayFailDB THEN {EnvPaused} ELSE {})

Paused(d) ==
    /\ pc[d] = "start"
    /\ TRUE \in PauseReads
    /\ Goto(d, "paused")
    /\ UNCHANGED <<platforms, table, audit, dbPaused, pending, event, made, after,
                   crashes>>

\* Mutated forms: an own message is claimed for two minutes like the others; a
\* conflict is tried again until it goes away.
ClaimShort(d) ==
    /\ pc[d] = "claim"
    /\ \/ /\ Claimable(table[KeyOf(d)], Now)
          /\ SetRow(KeyOf(d), ClaimedRow(d, TwoMinutes))
          /\ Goto(d, IF IsC2W(d) THEN "limit" ELSE "ensure")
       \/ ~Claimable(table[KeyOf(d)], Now) /\ Goto(d, "lost") /\ UNCHANGED table
    /\ UNCHANGED <<platforms, audit, dbPaused, pending, event, made, after, crashes>>

ClaimSpins(d) ==
    /\ pc[d] = "claim"
    /\ Claimable(table[KeyOf(d)], Now)
    /\ SetRow(KeyOf(d), ClaimedRow(d, IF IsOwn(d) THEN IdempotencyTTL
                                                  ELSE TwoMinutes))
    /\ Goto(d, IF IsC2W(d) THEN "limit" ELSE "ensure")
    /\ UNCHANGED <<platforms, audit, dbPaused, pending, event, made, after, crashes>>

\* ClaimIdempotency: two minutes, or IdempotencyTTL for own messages.
Claim(d) ==
    /\ pc[d] = "claim"
    /\ \/ /\ Claimable(table[KeyOf(d)], Now)
          /\ SetRow(KeyOf(d), ClaimedRow(d, IF IsOwn(d) THEN IdempotencyTTL
                                                        ELSE TwoMinutes))
          /\ Goto(d, IF IsC2W(d) THEN "limit" ELSE "ensure")
       \/ ~Claimable(table[KeyOf(d)], Now) /\ Goto(d, "lost") /\ UNCHANGED table
       \/ DBFails(d, "error")
    /\ UNCHANGED <<platforms, audit, dbPaused, pending, event, made, after, crashes>>

\* Mutated form: every conflict is taken for a duplicate.
ClaimReadStatusAlwaysSent(d) ==
    /\ pc[d] = "lost"
    /\ Goto(d, "duplicate")
    /\ UNCHANGED <<platforms, table, audit, dbPaused, pending, event, made, after,
                   crashes>>

\* Its second statement, after a conflict.
ClaimReadStatus(d) ==
    /\ pc[d] = "lost"
    /\ \/ Goto(d, IF table[KeyOf(d)].status = "sent" THEN "duplicate" ELSE "busy")
       \/ MayFailDB /\ Goto(d, "error")
    /\ UNCHANGED <<platforms, table, audit, dbPaused, pending, event, made, after,
                   crashes>>

\* A definite failure: the claim is released and the failure audited.
Release(d) ==
    /\ pc[d] = "release"
    /\ \/ Holds(d) /\ SetRow(KeyOf(d), ReleasedRow(table[KeyOf(d)]))
       \/ (~Holds(d) \/ MayFailDB) /\ UNCHANGED table
    /\ Log(KeyOf(d), "error")
    /\ Goto(d, "error")
    /\ UNCHANGED <<platforms, dbPaused, pending, event, made, after, crashes>>

\* CompleteDelivery: row and audit in one transaction.
Complete(d) ==
    /\ pc[d] = "complete"
    /\ \/ /\ Holds(d)
          /\ SetRow(KeyOf(d), SentRow(IF IsC2W(d) THEN EvoId(event[d].chat)
                                                  ELSE NoMessage, IdempotencyTTL))
          /\ Log(KeyOf(d), "ok")
          /\ Goto(d, "ok")
       \/ ~Holds(d) /\ Goto(d, "error") /\ UNCHANGED <<table, audit>>
       \/ DBFails(d, "error") /\ UNCHANGED audit
    /\ UNCHANGED <<platforms, dbPaused, pending, event, made, after, crashes>>

-----------------------------------------------------------------------------
\* HandleChatwootWebhook.

\* Not paused; anything but a public outgoing message is skipped.
C2WAdmit(d) ==
    /\ pc[d] = "start" /\ IsC2W(d)
    /\ FALSE \in PauseReads
    /\ Goto(d, IF chat[event[d].chat].dir = "out" THEN "join" ELSE "skipped")
    /\ UNCHANGED <<platforms, table, audit, dbPaused, pending, event, made, after,
                   crashes>>

\* Mutated form: nobody waits for a publication under way.
C2WJoinNoWait(d) ==
    /\ pc[d] = "join"
    /\ Goto(d, "claim")
    /\ UNCHANGED <<platforms, table, audit, dbPaused, pending, event, made, after,
                   crashes>>

\* waitForManualOutgoing: wait while the same text is being published for a
\* manual WhatsApp message.  The tenant lookup before it may fail.
C2WJoin(d) ==
    /\ pc[d] = "join"
    /\ \/ Goto(d, IF pending[Text(d)] = 0 THEN "claim" ELSE "wait")
       \/ MayFailDB /\ Goto(d, "error")
    /\ UNCHANGED <<platforms, table, audit, dbPaused, pending, event, made, after,
                   crashes>>

\* ctx.Done() after 25 seconds.
C2WWaitTimeout(d) ==
    /\ pc[d] = "wait"
    /\ Goto(d, "busy")
    /\ UNCHANGED <<platforms, table, audit, dbPaused, pending, event, made, after,
                   crashes>>

\* The limiter is asked after the claim, which a refusal gives back.
C2WLimited(d) ==
    /\ pc[d] = "limit" /\ MayLimit
    /\ \/ Holds(d) /\ SetRow(KeyOf(d), ReleasedRow(table[KeyOf(d)]))
       \/ (~Holds(d) \/ MayFailDB) /\ UNCHANGED table
    /\ Goto(d, "limited")
    /\ UNCHANGED <<platforms, audit, dbPaused, pending, event, made, after, crashes>>

\* MarkC2WOrigin, before the remote call.
C2WMark(d) ==
    /\ pc[d] = "limit"
    /\ \/ /\ Holds(d)
          /\ SetRow(KeyOf(d), MarkedRow(d, EvoId(event[d].chat), IdempotencyTTL))
          /\ Goto(d, "send")
       \/ ~Holds(d) /\ Goto(d, "error") /\ UNCHANGED table
       \/ DBFails(d, "error")
    /\ UNCHANGED <<platforms, audit, dbPaused, pending, event, made, after, crashes>>

\* SendTextWithID or SendMedia: on a TransportError the claim is kept.
C2WSend(d) ==
    /\ pc[d] = "send"
    /\ \E out \in Outcomes :
          /\ sent' = IF Performed(out)
                        THEN [sent EXCEPT ![event[d].chat] = @ + 1] ELSE sent
          /\ Goto(d, CASE out = "ok"      -> "complete"
                       [] Transport(out)  -> "error"
                       [] OTHER           -> "release")
    /\ UNCHANGED <<chat, written, table, audit, dbPaused, pending, event, made,
                   after, crashes>>

-----------------------------------------------------------------------------
\* HandleEvogoWebhook.

\* Not paused; the limiter is asked before anything is claimed.
W2CAdmit(d) ==
    /\ pc[d] = "start" /\ ~IsC2W(d)
    /\ FALSE \in PauseReads
    /\ \/ Goto(d, IF IsOwn(d) THEN "origin" ELSE "claim")
       \/ MayLimit /\ Goto(d, "limited")
    /\ UNCHANGED <<platforms, table, audit, dbPaused, pending, event, made, after,
                   crashes>>

\* HasCompletedC2WMessage: is this the echo of something the bridge sent?
W2COrigin(d) ==
    /\ pc[d] = "origin"
    /\ \/ Goto(d, IF \E c \in ChatIds :
                       RecognisesEcho(table[C2WKey(c)], event[d].id, Now)
                    THEN "skipped" ELSE "claim")
       \/ MayFailDB /\ Goto(d, "error")
    /\ UNCHANGED <<platforms, table, audit, dbPaused, pending, event, made, after,
                   crashes>>

\* Mutated form: beginManualOutgoing is forgotten.
W2CEnsureNoBegin(d) ==
    /\ pc[d] = "ensure"
    /\ Goto(d, IF IsOwn(d) THEN "publish" ELSE "create")
    /\ UNCHANGED <<platforms, table, audit, dbPaused, pending, event, made, after,
                   crashes>>

\* EnsureContactConversation, then beginManualOutgoing for an own message.
W2CEnsure(d) ==
    /\ pc[d] = "ensure"
    /\ \E out \in Outcomes :
          /\ Goto(d, CASE out = "ok"      -> IF IsOwn(d) THEN "publish" ELSE "create"
                       [] Transport(out)  -> "keep"
                       [] OTHER           -> "release")
          /\ pending' = IF out = "ok" /\ IsOwn(d)
                           THEN [pending EXCEPT ![Text(d)] = @ + 1] ELSE pending
    /\ UNCHANGED <<platforms, table, audit, dbPaused, event, made, after, crashes>>

\* CreateIncomingMessage.
W2CCreateIncoming(d) ==
    /\ pc[d] = "create"
    /\ \E out \in Outcomes :
          /\ IF Performed(out)
               THEN \E c \in ChatIds :
                       NewChat(c, [dir |-> "in", by |-> event[d].id, text |-> Text(d)])
               ELSE UNCHANGED chat
          /\ Goto(d, CASE out = "ok"      -> "complete"
                       [] Transport(out)  -> "keep"
                       [] OTHER           -> "release")
    /\ UNCHANGED <<written, sent, table, audit, dbPaused, pending, event, made,
                   after, crashes>>

\* Mutated form: a failed publication returns without finishManual.
W2CPublishNoFinish(d) ==
    /\ pc[d] = "publish"
    /\ \/ \E c \in ChatIds :
             /\ NewChat(c, [dir |-> "out", by |-> event[d].id, text |-> Text(d)])
             /\ made' = [made EXCEPT ![d] = c]
             /\ Goto(d, "suppress")
             /\ after' = [after EXCEPT ![d] = "keep"]
       \/ Goto(d, "release") /\ UNCHANGED <<chat, made, after>>
    /\ UNCHANGED <<written, sent, table, audit, dbPaused, pending, event, crashes>>

\* CreateOutgoingMessage, whose answer carries the new message's ID.
W2CPublish(d) ==
    /\ pc[d] = "publish"
    /\ \E out \in Outcomes :
          IF Performed(out)
            THEN \E c \in ChatIds :
                   /\ NewChat(c, [dir |-> "out", by |-> event[d].id, text |-> Text(d)])
                   /\ made' = [made EXCEPT ![d] = IF out = "ok" THEN c ELSE 0]
                   /\ Goto(d, IF out = "ok" THEN "suppress" ELSE "finish")
                   /\ after' = [after EXCEPT ![d] =
                                  IF out = "garbled" THEN "release" ELSE "keep"]
            ELSE /\ Goto(d, "finish")
                 /\ after' = [after EXCEPT ![d] =
                                IF Transport(out) THEN "keep" ELSE "release"]
                 /\ UNCHANGED <<chat, made>>
    /\ UNCHANGED <<written, sent, table, audit, dbPaused, pending, event, crashes>>

\* completeManualOutgoing claims the key of the message it created.  Any
\* other answer than "acquired" is an error, and the own claim is kept.
W2CSuppress(d) ==
    /\ pc[d] = "suppress"
    /\ \/ /\ Claimable(table[C2WKey(made[d])], Now)
          /\ SetRow(C2WKey(made[d]), ClaimedRow(d, IdempotencyTTL))
          /\ Goto(d, "pair")
       \/ ~Claimable(table[C2WKey(made[d])], Now) /\ Goto(d, "finish") /\ UNCHANGED table
       \/ DBFails(d, "finish")
    /\ UNCHANGED <<platforms, audit, dbPaused, pending, event, made, after, crashes>>

\* Mutated form: the manual message is completed without its suppression.
W2CPairOneKey(d) ==
    /\ pc[d] = "pair"
    /\ SetRow(KeyOf(d), SentRow(NoMessage, IdempotencyTTL))
    /\ Log(KeyOf(d), "ok")
    /\ after' = [after EXCEPT ![d] = "ok"]
    /\ Goto(d, "finish")
    /\ UNCHANGED <<platforms, dbPaused, pending, event, made, crashes>>

\* CompleteManualOutgoing: both keys or neither.
W2CPair(d) ==
    /\ pc[d] = "pair"
    /\ \/ /\ Holds(d) /\ ActiveClaim(table[C2WKey(made[d])], d)
          /\ table' = [table EXCEPT
                         ![KeyOf(d)] = SentRow(NoMessage, IdempotencyTTL),
                         ![C2WKey(made[d])] = SentRow(NoMessage, IdempotencyTTL)]
          /\ audit' = audit \cup {[key |-> KeyOf(d), status |-> "ok"],
                                 [key |-> C2WKey(made[d]), status |-> "skipped"]}
          /\ after' = [after EXCEPT ![d] = "ok"]
       \/ /\ ~(Holds(d) /\ ActiveClaim(table[C2WKey(made[d])], d)) \/ MayFailDB
          /\ UNCHANGED <<table, audit, after>>
    /\ Goto(d, "finish")
    /\ UNCHANGED <<platforms, dbPaused, pending, event, made, crashes>>

\* finishManual(): the last publisher of a text wakes all who wait for it.
W2CFinish(d) ==
    /\ pc[d] = "finish"
    /\ pending' = [pending EXCEPT ![Text(d)] = @ - 1]
    /\ pc' = [x \in Deliveries |->
                 CASE x = d -> after[d]
                   [] pc[x] = "wait" /\ Text(x) = Text(d) /\ pending'[Text(d)] = 0
                        -> "claim"
                   [] OTHER -> pc[x]]
    /\ UNCHANGED <<platforms, table, audit, dbPaused, event, made, after, crashes>>

\* A result that may have reached Chatwoot: audited, and the claim stays.
W2CKeep(d) ==
    /\ pc[d] = "keep"
    /\ Log(KeyOf(d), "error")
    /\ Goto(d, "error")
    /\ UNCHANGED <<platforms, table, dbPaused, pending, event, made, after, crashes>>

-----------------------------------------------------------------------------

Handler(d) ==
    \/ Paused(d) \/ Claim(d) \/ ClaimReadStatus(d) \/ Release(d) \/ Complete(d)
    \/ C2WAdmit(d) \/ C2WJoin(d) \/ C2WWaitTimeout(d) \/ C2WLimited(d)
    \/ C2WMark(d) \/ C2WSend(d)
    \/ W2CAdmit(d) \/ W2COrigin(d) \/ W2CEnsure(d) \/ W2CCreateIncoming(d)
    \/ W2CPublish(d) \/ W2CSuppress(d) \/ W2CPair(d) \/ W2CFinish(d) \/ W2CKeep(d)

Next ==
    \/ AgentWrites \/ SetPaused \/ Crash
    \/ \E w \in WaIds : PersonWrites(w)
    \/ \E k \in Keys : ClaimLapses(k)
    \/ \E d \in Deliveries : Deliver(d) \/ Handler(d)

Spec == Init /\ [][Next]_vars

\* The runtime schedules every goroutine; contexts end every call.  Nothing
\* obliges the platforms to deliver, or to deliver again.
FairSpec == Spec /\ \A d \in Deliveries : WF_vars(Handler(d))

-----------------------------------------------------------------------------

TypeOK ==
    /\ chat \in [ChatIds -> Chats \cup {NoChat}]
    /\ written \subseteq WaIds
    /\ sent \in [ChatIds -> Nat]
    /\ table \in [Keys -> Rows(Deliveries, MessageIds)]
    /\ audit \subseteq [key : Keys, status : {"ok", "skipped", "error"}]
    /\ dbPaused \in BOOLEAN
    /\ pending \in [AgentTexts -> Nat]
    /\ pc \in [Deliveries -> Answers \cup
                {"idle", "crashed", "start", "claim", "lost", "release", "complete",
                 "join", "wait", "limit", "send", "origin", "ensure", "create",
                 "publish", "suppress", "pair", "finish", "keep"}]
    /\ event \in [Deliveries -> ChatwootEvents \cup EvolutionEvents \cup {NoEvent}]
    /\ made \in [Deliveries -> ChatIds \cup {0}]
    /\ after \in [Deliveries -> {"ok", "keep", "release"}]
    /\ crashes \in 0..MaxCrashes

Publications(id) == {c \in ChatIds : chat[c] # NoChat /\ chat[c].by = id}

\* A manual WhatsApp message copied into Chatwoot does not come back to
\* WhatsApp through Chatwoot's own webhook, however webhook, API answer and
\* suppression interleave.
NoLoopToWhatsApp ==
    \A c \in ChatIds : sent[c] > 0 => chat[c].by = Agent

\* "mensagens Chatwoot -> WhatsApp nunca podem reaparecer como nova mensagem
\* no Chatwoot": the echo of what the bridge sent is recognised by its ID,
\* also when it overtakes the answer of the send or the send's handler died.
NoLoopToChatwoot ==
    \A c \in ChatIds : Publications(EvoId(c)) = {}

\* Inside the idempotency window Chatwoot's message goes to WhatsApp once,
\* whatever is delivered again, crashes or stays unanswered.
SentAtMostOnce == \A c \in ChatIds : sent[c] <= 1

\* ... and a message typed on the phone appears in Chatwoot once.
ManualPublishedAtMostOnce ==
    \A w \in FromPhone : Cardinality(Publications(NativeId(w))) <= 1

\* ... and a contact's message too: "Chatwoot não recebe mensagem duplicada".
IncomingPublishedAtMostOnce ==
    \A w \in FromContact : Cardinality(Publications(NativeId(w))) <= 1

\* HTTP 200 is never a lie: what it acknowledges has reached the other side
\* (or is the other side's own message coming back).
AcknowledgedIsDelivered ==
    \A d \in Deliveries : Acknowledges(pc[d]) =>
        IF IsC2W(d)
          THEN LET c == event[d].chat IN
               chat[c].dir = "out" /\ chat[c].by = Agent => sent[c] > 0
          ELSE \/ Publications(event[d].id) # {}
               \/ \E c \in ChatIds : event[d].id = EvoId(c) /\ sent[c] > 0

\* "uma falha de banco nunca confirma a mensagem manual sem também proteger o
\* retorno pelo webhook": the two keys of a manual message are sent together.
ManualPairIsAtomic ==
    \A w \in FromPhone :
        table[W2CKey(NativeId(w), TRUE)].status = "sent" =>
            \E c \in Publications(NativeId(w)) : table[C2WKey(c)].status = "sent"

\* The registry counts the handlers between beginManualOutgoing and
\* finishManual, on every path, and nobody waits for a text without one.
RegistryIsExact ==
    \A t \in AgentTexts :
        /\ pending[t] = Cardinality({d \in Deliveries :
                           /\ pc[d] \in {"publish", "suppress", "pair", "finish"}
                           /\ Text(d) = t})
        /\ (\E d \in Deliveries : pc[d] = "wait" /\ Text(d) = t) => pending[t] > 0

\* Every handler answers, unless the process dies under it.
HandlersAnswer ==
    \A d \in Deliveries :
        Working(d) ~> pc[d] \in Answers \cup {"crashed"}

\* What HTTP 200 ended stays ended: a handler that still holds its claim never
\* sends or publishes a message of which another delivery was acknowledged,
\* also when publications stay unanswered and two-minute claims are retried.
AcknowledgedIsFinal ==
    [][\A d, e \in Deliveries :
          /\ Working(d) /\ Holds(d) /\ pc'[d] # pc[d] /\ <<chat, sent>>' # <<chat, sent>>
          /\ pc[e] \in {"ok", "duplicate"}
          => KeyOf(e) # KeyOf(d)]_vars

-----------------------------------------------------------------------------
(* The abstract specification and the mapping to it.                       *)

InChatwoot(c) == [in |-> "chatwoot", chat |-> c]
InWhatsApp(id) == [in |-> "whatsapp", id |-> id]

\* The message a webhook is about.
Subject(e) == IF e.from = "chatwoot" THEN InChatwoot(e.chat) ELSE InWhatsApp(e.id)

AbsMessages == {InChatwoot(c) : c \in ChatIds} \cup {InWhatsApp(id) : id \in MessageIds}

Said == {InChatwoot(c) : c \in {x \in ChatIds : chat[x] # NoChat /\ chat[x].by = Agent}}
          \cup {InWhatsApp(NativeId(w)) : w \in written}

Copies == [m \in AbsMessages |-> IF m.in = "chatwoot" THEN sent[m.chat]
                                 ELSE Cardinality(Publications(m.id))]

Receipted == {m \in Said : \E d \in Deliveries :
                  event[d] # NoEvent /\ Subject(event[d]) = m /\ Acknowledges(pc[d])}

Promise == INSTANCE Crossing
             WITH Messages <- AbsMessages, said <- Said, copies <- Copies,
                  receipted <- Receipted

\* While no answer is lost and no handler stalls, the two handlers, their
\* claims and the registry do what Crossing says and nothing else.
ImplementsCrossing == Promise!Spec

=============================================================================
