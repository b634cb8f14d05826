---------------------------- MODULE BridgeProofs ----------------------------
(***************************************************************************)
(* Theorems about Bridge for every set of deliveries, messages and texts,  *)
(* every way a call may end, and any number of crashes; and what a pause   *)
(* holds back, from KillSwitch.                                            *)
(***************************************************************************)
EXTENDS KillSwitch, FiniteSetTheorems, TLAPS

-----------------------------------------------------------------------------
(* The inductive invariant.                                                *)

\* A webhook tells of something that happened, and of an existing message.
EventsAreAnnounced ==
    /\ \A d \in Deliveries : IF pc[d] = "idle" THEN event[d] = NoEvent
                                               ELSE event[d] \in Announced
    /\ \A c \in ChatIds : sent[c] > 0 => chat[c] # NoChat

\* Which handler can be where.
PlacesFitEvents ==
    \A d \in Deliveries :
        /\ pc[d] \in {"join", "wait", "limit", "send"} => IsC2W(d)
        /\ pc[d] \in {"origin", "publish", "suppress", "pair", "finish"} => IsOwn(d)
        /\ pc[d] \in {"ensure", "keep", "create"} => ~IsC2W(d)
        /\ pc[d] \in {"create", "complete"} => ~IsOwn(d)
        /\ IsC2W(d) /\ pc[d] \in {"join", "wait", "claim", "lost", "limit", "send",
                                  "complete", "release"}
              => chat[event[d].chat].dir = "out"

\* The message a handler suppresses is the one it published; until the pair
\* is complete the own claim is to be kept.
MadeIsMine ==
    \A d \in Deliveries : pc[d] \in {"suppress", "pair"} =>
        /\ made[d] \in ChatIds /\ after[d] = "keep"
        /\ chat[made[d]] = [dir |-> "out", by |-> event[d].id, text |-> Text(d)]

\* Message IDs kept in the rows are those of their keys.
EvoFitsKey ==
    \A c \in ChatIds : table[C2WKey(c)].evo \in {EvoId(c), NoMessage}

Arrived(d) == IF IsC2W(d) THEN sent[event[d].chat] > 0
                          ELSE Publications(event[d].id) # {}

\* A row becomes sent when its message has arrived, and stays.
SentMeansArrived ==
    /\ \A k \in Keys : table[k].status = "sent" => table[k].expires = IdempotencyTTL
    /\ \A c \in ChatIds : table[C2WKey(c)].status = "sent" =>
          sent[c] > 0 \/ (chat[c] # NoChat /\ chat[c].by # Agent)
    /\ \A id \in MessageIds, own \in BOOLEAN :
          table[W2CKey(id, own)].status = "sent" => Publications(id) # {}

\* What a handler knows when it is about to confirm, and when it has.
ConfirmersArrived ==
    \A d \in Deliveries :
        /\ pc[d] = "complete" => Arrived(d)
        /\ pc[d] = "ok" \/ (pc[d] = "finish" /\ after[d] = "ok")
              => table[KeyOf(d)].status = "sent"
        /\ pc[d] = "duplicate" => table[KeyOf(d)].status = "sent"
        /\ pc[d] = "skipped" =>
              IF IsC2W(d) THEN chat[event[d].chat].dir # "out"
                          ELSE \E c \in ChatIds : event[d].id = EvoId(c)

IInv ==
    /\ TypeOK
    /\ EventsAreAnnounced
    /\ PlacesFitEvents
    /\ MadeIsMine
    /\ EvoFitsKey
    /\ SentMeansArrived
    /\ ConfirmersArrived
    /\ ManualPairIsAtomic
    /\ RegistryIsExact

-----------------------------------------------------------------------------
(* Identifiers and keys.                                                   *)

\* Chatwoot's ids are positive numbers.
LEMMA ChatIdsAreNumbers ==
    ChatIds \subseteq Nat \ {0}
BY BridgeAssumption, FS_CardinalityType DEF ChatIds

\* A message the bridge sends gets an id of its own, none of a message written
\* on a phone.
LEMMA IdsDiffer ==
    /\ \A c1, c2 \in ChatIds : EvoId(c1) = EvoId(c2) => c1 = c2
    /\ \A c \in ChatIds, w \in WaIds : EvoId(c) # NativeId(w)
    /\ \A c \in ChatIds : EvoId(c) \in MessageIds /\ EvoId(c) # NoMessage
    /\ \A w \in WaIds : NativeId(w) \in MessageIds /\ NativeId(w) # NoMessage
    /\ Agent \notin MessageIds
<1>1. \A c \in ChatIds : /\ DOMAIN EvoId(c) = {"chatwoot"}
                         /\ EvoId(c).chatwoot = c
  BY DEF EvoId
<1>2. \A w \in WaIds : DOMAIN NativeId(w) = {"whatsapp"}
  BY DEF NativeId
<1>3. DOMAIN Agent = {"agent"}
  BY DEF Agent
<1> QED
  BY <1>1, <1>2, <1>3, NoMessageAssumption DEF MessageIds

\* So does every message written on a phone.
LEMMA NativeIdsDiffer ==
    \A w1, w2 \in WaIds : NativeId(w1) = NativeId(w2) => w1 = w2
<1>1. \A w \in WaIds : NativeId(w).whatsapp = w
  BY DEF NativeId
<1> QED
  BY <1>1

\* Different messages and directions have different idempotency keys.
LEMMA KeysDiffer ==
    /\ \A c \in ChatIds : C2WKey(c) \in Keys
    /\ \A id \in MessageIds, own \in BOOLEAN : W2CKey(id, own) \in Keys
    /\ \A c1, c2 : C2WKey(c1) = C2WKey(c2) => c1 = c2
    /\ \A c, id : \A own \in BOOLEAN : C2WKey(c) # W2CKey(id, own)
    /\ \A id1, id2 : \A own1, own2 \in BOOLEAN :
          W2CKey(id1, own1) = W2CKey(id2, own2) => id1 = id2 /\ own1 = own2
BY DEF Keys, C2WKey, W2CKey

-----------------------------------------------------------------------------
(* What a handler knows of its webhook.                                    *)

\* What a handler at work knows of its webhook: it is about a message that is
\* there.
LEMMA EventFacts ==
    ASSUME TypeOK, EventsAreAnnounced, NEW d \in Deliveries, pc[d] # "idle"
    PROVE  /\ event[d] # NoEvent
           /\ IsC2W(d) => /\ event[d].chat \in ChatIds
                          /\ chat[event[d].chat] # NoChat
                          /\ KeyOf(d) = C2WKey(event[d].chat)
                          /\ ~IsOwn(d)
           /\ ~IsC2W(d) => /\ event[d].from = "evolution"
                           /\ event[d].id \in MessageIds
                           /\ event[d].own \in BOOLEAN
                           /\ IsOwn(d) = event[d].own
                           /\ KeyOf(d) = W2CKey(event[d].id, event[d].own)
           /\ ~IsC2W(d) =>
                 \/ \E w \in written : /\ event[d].id = NativeId(w)
                                       /\ event[d].own = (w \in FromPhone)
                 \/ \E c \in ChatIds : /\ event[d].id = EvoId(c)
                                       /\ event[d].own /\ sent[c] > 0
           /\ KeyOf(d) \in Keys
<1>1. event[d] \in Announced
  BY DEF EventsAreAnnounced
<1>2. CASE event[d].from = "chatwoot"
  <2>1. event[d].chat \in ChatIds /\ chat[event[d].chat] # NoChat
    BY <1>1, <1>2 DEF Announced
  <2> QED
    BY <1>2, <2>1, KeysDiffer DEF IsC2W, IsOwn, KeyOf, NoEvent
<1>3. CASE event[d].from # "chatwoot"
  <2>1. /\ event[d].from = "evolution"
        /\ \/ \E w \in written : event[d].id = NativeId(w) /\ event[d].own = (w \in FromPhone)
           \/ \E c \in ChatIds : event[d].id = EvoId(c) /\ event[d].own = TRUE /\ sent[c] > 0
    BY <1>1, <1>3 DEF Announced
  <2>2. event[d] \in EvolutionEvents
    BY <1>3, <2>1 DEF TypeOK, ChatwootEvents, NoEvent
  <2>3. event[d].id \in MessageIds /\ event[d].own \in BOOLEAN
    BY <2>2 DEF EvolutionEvents
  <2> QED
    BY <2>1, <2>3, KeysDiffer DEF IsC2W, IsOwn, KeyOf, NoEvent
<1> QED
  BY <1>2, <1>3

\* The text of a message that exists.
LEMMA TextFacts ==
    ASSUME TypeOK, EventsAreAnnounced
    PROVE  /\ \A c \in ChatIds : TextOfId(EvoId(c)) = chat[c].text
           /\ \A w \in WaIds : TextOfId(NativeId(w)) = TextOf[w]
           /\ \A d \in Deliveries : pc[d] # "idle" => Text(d) \in AgentTexts
<1>1. \A c \in ChatIds : TextOfId(EvoId(c)) = chat[c].text
  BY DEF TextOfId, EvoId
<1>2. \A w \in WaIds : TextOfId(NativeId(w)) = TextOf[w]
  BY DEF TextOfId, NativeId
<1>3. ASSUME NEW c \in ChatIds, chat[c] # NoChat
      PROVE  chat[c].text \in AgentTexts
  BY <1>3 DEF TypeOK, Chats
<1>4. ASSUME NEW d \in Deliveries, pc[d] # "idle"
      PROVE  Text(d) \in AgentTexts
  <2>1. CASE IsC2W(d)
    BY <1>3, <1>4, <2>1, EventFacts DEF Text
  <2>2. CASE ~IsC2W(d)
    <3>1. \A w \in written : TextOf[w] \in AgentTexts /\ w \in WaIds
      BY BridgeAssumption DEF TypeOK
    <3>2. \A c \in ChatIds : sent[c] > 0 => chat[c].text \in AgentTexts
      BY <1>3 DEF EventsAreAnnounced
    <3> QED
      BY <1>1, <1>2, <1>4, <2>2, <3>1, <3>2, EventFacts DEF Text
  <2> QED
    BY <2>1, <2>2
<1> QED
  BY <1>1, <1>2, <1>4

-----------------------------------------------------------------------------
(* What a step may change, and which action did.                           *)

\* Every step is one of the platforms, of time, of a crash or of a handler.
LEMMA StepCases ==
    ASSUME [Next]_vars
    PROVE  \/ UNCHANGED vars
           \/ AgentWrites \/ SetPaused \/ Crash
           \/ \E w \in WaIds : PersonWrites(w)
           \/ \E k \in Keys : ClaimLapses(k)
           \/ \E d \in Deliveries : Deliver(d)
           \/ \E d \in Deliveries : Handler(d)
BY DEF Next

\* A message appears in Chatwoot where there was none, and never changes again.
LEMMA ChatChanges ==
    ASSUME TypeOK, [Next]_vars, NEW c \in ChatIds, chat'[c] # chat[c]
    PROVE  /\ chat[c] = NoChat
           /\ \/ /\ AgentWrites
                 /\ \E t \in AgentTexts :
                       chat'[c] = [dir |-> "out", by |-> Agent, text |-> t]
              \/ \E d \in Deliveries :
                    /\ W2CCreateIncoming(d)
                    /\ chat'[c] = [dir |-> "in", by |-> event[d].id, text |-> Text(d)]
              \/ \E d \in Deliveries :
                    /\ W2CPublish(d)
                    /\ chat'[c] = [dir |-> "out", by |-> event[d].id, text |-> Text(d)]
<1>1. CASE AgentWrites
  BY <1>1 DEF AgentWrites, NewChat, TypeOK
<1>2. ASSUME NEW d \in Deliveries, Handler(d)
      PROVE  W2CCreateIncoming(d) \/ W2CPublish(d) \/ chat' = chat
  BY <1>2 DEF Handler, Paused, Claim, ClaimReadStatus, Release, Complete, C2WAdmit,
     C2WJoin, C2WWaitTimeout, C2WLimited, C2WMark, C2WSend, W2CAdmit, W2COrigin,
     W2CEnsure, W2CSuppress, W2CPair, W2CFinish, W2CKeep, platforms
<1>3. ASSUME NEW d \in Deliveries, W2CCreateIncoming(d)
      PROVE  /\ chat[c] = NoChat
             /\ chat'[c] = [dir |-> "in", by |-> event[d].id, text |-> Text(d)]
  BY <1>3 DEF W2CCreateIncoming, NewChat, TypeOK
<1>4. ASSUME NEW d \in Deliveries, W2CPublish(d)
      PROVE  /\ chat[c] = NoChat
             /\ chat'[c] = [dir |-> "out", by |-> event[d].id, text |-> Text(d)]
  BY <1>4 DEF W2CPublish, NewChat, TypeOK
<1>5. \/ AgentWrites \/ \E d \in Deliveries : Handler(d)
  BY StepCases DEF SetPaused, Crash, PersonWrites, ClaimLapses, Deliver, platforms, vars
<1> QED
  BY <1>1, <1>2, <1>3, <1>4, <1>5

\* Only a send counts as a send.
LEMMA SentChanges ==
    ASSUME TypeOK, [Next]_vars, NEW c \in ChatIds, sent'[c] # sent[c]
    PROVE  /\ sent'[c] = sent[c] + 1
           /\ \E d \in Deliveries : C2WSend(d) /\ event[d].chat = c
<1>1. ASSUME NEW d \in Deliveries, Handler(d)
      PROVE  C2WSend(d) \/ sent' = sent
  BY <1>1 DEF Handler, Paused, Claim, ClaimReadStatus, Release, Complete, C2WAdmit,
     C2WJoin, C2WWaitTimeout, C2WLimited, C2WMark, W2CAdmit, W2COrigin, W2CEnsure,
     W2CCreateIncoming, W2CPublish, W2CSuppress, W2CPair, W2CFinish, W2CKeep, platforms
<1>2. ASSUME NEW d \in Deliveries, C2WSend(d)
      PROVE  event[d].chat = c /\ sent'[c] = sent[c] + 1
  BY <1>2 DEF C2WSend, TypeOK
<1>3. \E d \in Deliveries : Handler(d)
  BY StepCases DEF AgentWrites, SetPaused, Crash, PersonWrites, ClaimLapses, Deliver,
                   platforms, vars
<1> QED
  BY <1>1, <1>2, <1>3

\* A claim is taken, marked, given back or concluded by a handler, or lapses.
LEMMA RowChanges ==
    ASSUME TypeOK, [Next]_vars, NEW k \in Keys, table'[k] # table[k]
    PROVE  \/ /\ ClaimLapses(k)
              /\ table'[k] = [table[k] EXCEPT !.expires = Lapsed]
           \/ \E d \in Deliveries :
                /\ k = KeyOf(d)
                /\ \/ /\ Claim(d) /\ Claimable(table[k], Now)
                      /\ table'[k] = ClaimedRow(d, IF IsOwn(d) THEN IdempotencyTTL
                                                               ELSE TwoMinutes)
                   \/ /\ Release(d) \/ C2WLimited(d)
                      /\ ActiveClaim(table[k], d)
                      /\ table'[k] = ReleasedRow(table[k])
                   \/ /\ C2WMark(d) /\ ActiveClaim(table[k], d)
                      /\ table'[k] = MarkedRow(d, EvoId(event[d].chat), IdempotencyTTL)
                   \/ /\ Complete(d) /\ ActiveClaim(table[k], d)
                      /\ table'[k] = SentRow(IF IsC2W(d) THEN EvoId(event[d].chat)
                                                         ELSE NoMessage, IdempotencyTTL)
                   \/ /\ W2CPair(d) /\ ActiveClaim(table[k], d)
                      /\ table'[k] = SentRow(NoMessage, IdempotencyTTL)
           \/ \E d \in Deliveries :
                /\ k = C2WKey(made[d])
                /\ \/ /\ W2CSuppress(d) /\ Claimable(table[k], Now)
                      /\ table'[k] = ClaimedRow(d, IdempotencyTTL)
                   \/ /\ W2CPair(d) /\ ActiveClaim(table[k], d)
                      /\ table'[k] = SentRow(NoMessage, IdempotencyTTL)
<1>1. ASSUME NEW d \in Deliveries, Handler(d)
      PROVE  \/ Claim(d) \/ Release(d) \/ C2WLimited(d) \/ C2WMark(d) \/ Complete(d)
             \/ W2CPair(d) \/ W2CSuppress(d)
  BY <1>1 DEF Handler, Paused, ClaimReadStatus, C2WAdmit, C2WJoin, C2WWaitTimeout,
     C2WSend, W2CAdmit, W2COrigin, W2CEnsure, W2CCreateIncoming, W2CPublish,
     W2CFinish, W2CKeep
<1>2. ASSUME NEW j \in Keys, ClaimLapses(j)
      PROVE  j = k /\ table'[k] = [table[k] EXCEPT !.expires = Lapsed]
  BY <1>2 DEF ClaimLapses, SetRow, TypeOK
<1>3. ASSUME NEW d \in Deliveries, Claim(d)
      PROVE  /\ k = KeyOf(d) /\ Claimable(table[k], Now)
             /\ table'[k] = ClaimedRow(d, IF IsOwn(d) THEN IdempotencyTTL
                                                      ELSE TwoMinutes)
  BY <1>3 DEF Claim, SetRow, DBFails, TypeOK
<1>4. ASSUME NEW d \in Deliveries, Release(d) \/ C2WLimited(d)
      PROVE  /\ k = KeyOf(d) /\ ActiveClaim(table[k], d)
             /\ table'[k] = ReleasedRow(table[k])
  BY <1>4 DEF Release, C2WLimited, Holds, SetRow, TypeOK
<1>5. ASSUME NEW d \in Deliveries, C2WMark(d)
      PROVE  /\ k = KeyOf(d) /\ ActiveClaim(table[k], d)
             /\ table'[k] = MarkedRow(d, EvoId(event[d].chat), IdempotencyTTL)
  BY <1>5 DEF C2WMark, Holds, SetRow, DBFails, TypeOK
<1>6. ASSUME NEW d \in Deliveries, Complete(d)
      PROVE  /\ k = KeyOf(d) /\ ActiveClaim(table[k], d)
             /\ table'[k] = SentRow(IF IsC2W(d) THEN EvoId(event[d].chat)
                                                ELSE NoMessage, IdempotencyTTL)
  BY <1>6 DEF Complete, Holds, SetRow, DBFails, TypeOK
<1>7. ASSUME NEW d \in Deliveries, W2CPair(d)
      PROVE  /\ k = KeyOf(d) \/ k = C2WKey(made[d])
             /\ ActiveClaim(table[k], d)
             /\ table'[k] = SentRow(NoMessage, IdempotencyTTL)
  BY <1>7 DEF W2CPair, Holds, TypeOK
<1>8. ASSUME NEW d \in Deliveries, W2CSuppress(d)
      PROVE  /\ k = C2WKey(made[d]) /\ Claimable(table[k], Now)
             /\ table'[k] = ClaimedRow(d, IdempotencyTTL)
  BY <1>8 DEF W2CSuppress, SetRow, DBFails, TypeOK
<1>9. (\E j \in Keys : ClaimLapses(j)) \/ (\E d \in Deliveries : Handler(d))
  BY StepCases DEF AgentWrites, SetPaused, Crash, PersonWrites, Deliver, vars
<1> QED
  BY <1>1, <1>2, <1>3, <1>4, <1>5, <1>6, <1>7, <1>8, <1>9

\* Which action takes a handler where.
LEMMA HandlerGoes ==
    ASSUME TypeOK, NEW d \in Deliveries, Handler(d)
    PROVE  /\ pc[d] \notin {"idle", "crashed"} /\ pc'[d] \notin {"idle", "start", "crashed"}
           /\ pc'[d] = "join" => C2WAdmit(d)
           /\ pc'[d] = "wait" => C2WJoin(d)
           /\ pc'[d] = "claim" => C2WJoin(d) \/ W2CAdmit(d) \/ W2COrigin(d)
           /\ pc'[d] \in {"lost", "limit", "ensure"} => Claim(d)
           /\ pc'[d] = "send" => C2WMark(d)
           /\ pc'[d] = "complete" => C2WSend(d) \/ W2CCreateIncoming(d)
           /\ pc'[d] = "release" => \/ C2WSend(d) \/ W2CEnsure(d)
                                    \/ W2CCreateIncoming(d) \/ W2CFinish(d)
           /\ pc'[d] = "origin" => W2CAdmit(d)
           /\ pc'[d] \in {"publish", "create"} => W2CEnsure(d)
           /\ pc'[d] = "suppress" => W2CPublish(d)
           /\ pc'[d] = "pair" => W2CSuppress(d)
           /\ pc'[d] = "finish" => W2CPublish(d) \/ W2CSuppress(d) \/ W2CPair(d)
           /\ pc'[d] = "keep" => W2CEnsure(d) \/ W2CCreateIncoming(d) \/ W2CFinish(d)
           /\ pc'[d] = "ok" => Complete(d) \/ W2CFinish(d)
           /\ pc'[d] = "duplicate" => ClaimReadStatus(d)
           /\ pc'[d] = "skipped" => C2WAdmit(d) \/ W2COrigin(d)
<1>1. CASE Paused(d) \/ Claim(d) \/ ClaimReadStatus(d) \/ Release(d) \/ Complete(d)
  BY <1>1 DEF Paused, Claim, ClaimReadStatus, Release, Complete, Goto, DBFails, TypeOK
<1>2. CASE C2WAdmit(d) \/ C2WJoin(d) \/ C2WWaitTimeout(d) \/ C2WLimited(d) \/ C2WMark(d)
  BY <1>2 DEF C2WAdmit, C2WJoin, C2WWaitTimeout, C2WLimited, C2WMark, Goto, DBFails,
              TypeOK
<1>3. CASE C2WSend(d)
  <2>1. pc[d] = "send" /\ pc'[d] \in {"complete", "error", "release"}
    BY <1>3 DEF C2WSend, Goto, TypeOK
  <2> QED
    BY <1>3, <2>1
<1>4. CASE W2CAdmit(d) \/ W2COrigin(d)
  BY <1>4 DEF W2CAdmit, W2COrigin, Goto, TypeOK
<1>5. CASE W2CEnsure(d)
  <2>1. pc[d] = "ensure" /\ pc'[d] \in {"publish", "create", "keep", "release"}
    BY <1>5 DEF W2CEnsure, Goto, TypeOK
  <2> QED
    BY <1>5, <2>1
<1>6. CASE W2CCreateIncoming(d)
  <2>1. pc[d] = "create" /\ pc'[d] \in {"complete", "keep", "release"}
    BY <1>6 DEF W2CCreateIncoming, Goto, TypeOK
  <2> QED
    BY <1>6, <2>1
<1>7. CASE W2CPublish(d) \/ W2CSuppress(d) \/ W2CPair(d) \/ W2CKeep(d)
  BY <1>7 DEF W2CPublish, W2CSuppress, W2CPair, W2CKeep, Goto, DBFails, TypeOK
<1>8. CASE W2CFinish(d)
  <2>1. pc[d] = "finish" /\ pc'[d] \in {"ok", "keep", "release"}
    BY <1>8 DEF W2CFinish, TypeOK
  <2> QED
    BY <1>8, <2>1
<1> QED
  BY <1>1, <1>2, <1>3, <1>4, <1>5, <1>6, <1>7, <1>8 DEF Handler

\* A handler moves itself; the others it may wake, and a crash ends all.
LEMMA PlaceChanges ==
    ASSUME TypeOK, [Next]_vars, NEW d \in Deliveries, pc'[d] # pc[d]
    PROVE  \/ Deliver(d) /\ pc[d] = "idle" /\ pc'[d] = "start"
           \/ Handler(d)
           \/ Crash /\ pc'[d] = "crashed"
           \/ /\ pc[d] = "wait" /\ pc'[d] = "claim"
              /\ \E x \in Deliveries : /\ W2CFinish(x) /\ x # d
                                       /\ Text(x) = Text(d) /\ pending'[Text(d)] = 0
<1>1. ASSUME NEW x \in Deliveries, Handler(x), x # d
      PROVE  /\ W2CFinish(x) /\ pc[d] = "wait" /\ pc'[d] = "claim"
             /\ Text(x) = Text(d) /\ pending'[Text(d)] = 0
  <2>1. W2CFinish(x) \/ pc'[d] = pc[d]
    BY <1>1 DEF Handler, Paused, Claim, ClaimReadStatus, Release, Complete, C2WAdmit,
       C2WJoin, C2WWaitTimeout, C2WLimited, C2WMark, C2WSend, W2CAdmit, W2COrigin,
       W2CEnsure, W2CCreateIncoming, W2CPublish, W2CSuppress, W2CPair, W2CKeep,
       Goto, DBFails, TypeOK
  <2> QED
    BY <1>1, <2>1 DEF W2CFinish
<1>2. CASE Crash
  BY <1>2 DEF Crash
<1>3. ASSUME NEW x \in Deliveries, Deliver(x)
      PROVE  x = d /\ pc[d] = "idle" /\ pc'[d] = "start"
  BY <1>3 DEF Deliver, Goto, TypeOK
<1>4. Crash \/ (\E x \in Deliveries : Handler(x)) \/ (\E x \in Deliveries : Deliver(x))
  BY StepCases DEF AgentWrites, SetPaused, PersonWrites, ClaimLapses, vars
<1> QED
  BY <1>1, <1>2, <1>3, <1>4

-----------------------------------------------------------------------------
(* What lasts.                                                             *)

\* What is written, sent or published stays so.
LEMMA PlatformsLast ==
    ASSUME TypeOK, [Next]_vars
    PROVE  /\ \A c \in ChatIds : chat[c] # NoChat => chat'[c] = chat[c] /\ chat'[c] # NoChat
           /\ \A c \in ChatIds : sent'[c] \in Nat /\ sent'[c] >= sent[c]
           /\ written \subseteq written'
           /\ \A id : Publications(id) \subseteq Publications(id)'
<1>1. \A c \in ChatIds : chat[c] # NoChat => chat'[c] = chat[c] /\ chat'[c] # NoChat
  BY ChatChanges
<1>2. \A c \in ChatIds : sent'[c] \in Nat /\ sent'[c] >= sent[c]
  BY SentChanges DEF TypeOK
<1>3. written \subseteq written'
  <2>1. ASSUME NEW d \in Deliveries, Handler(d)
        PROVE  written' = written
    BY <2>1 DEF Handler, Paused, Claim, ClaimReadStatus, Release, Complete, C2WAdmit,
       C2WJoin, C2WWaitTimeout, C2WLimited, C2WMark, C2WSend, W2CAdmit, W2COrigin,
       W2CEnsure, W2CCreateIncoming, W2CPublish, W2CSuppress, W2CPair, W2CFinish,
       W2CKeep, platforms
  <2> QED
    BY <2>1, StepCases DEF AgentWrites, SetPaused, Crash, PersonWrites, ClaimLapses,
                           Deliver, platforms, vars
<1>4. \A id : Publications(id) \subseteq Publications(id)'
  BY <1>1 DEF Publications
<1> QED
  BY <1>1, <1>2, <1>3, <1>4

\* A handler gets its webhook when it is delivered and keeps it.
LEMMA EventChanges ==
    ASSUME TypeOK, [Next]_vars, NEW d \in Deliveries, event'[d] # event[d]
    PROVE  Deliver(d) /\ pc[d] = "idle" /\ pc'[d] = "start" /\ event'[d] \in Announced
<1>1. ASSUME NEW x \in Deliveries, Handler(x)
      PROVE  event' = event
  BY <1>1 DEF Handler, Paused, Claim, ClaimReadStatus, Release, Complete, C2WAdmit,
     C2WJoin, C2WWaitTimeout, C2WLimited, C2WMark, C2WSend, W2CAdmit, W2COrigin,
     W2CEnsure, W2CCreateIncoming, W2CPublish, W2CSuppress, W2CPair, W2CFinish, W2CKeep
<1>2. ASSUME NEW x \in Deliveries, Deliver(x)
      PROVE  x = d /\ pc[d] = "idle" /\ pc'[d] = "start" /\ event'[d] \in Announced
  BY <1>2 DEF Deliver, Goto, TypeOK
<1>3. \E x \in Deliveries : Deliver(x)
  BY <1>1, StepCases DEF AgentWrites, SetPaused, Crash, PersonWrites, ClaimLapses, vars
<1> QED
  BY <1>2, <1>3

\* A handler works on one message under one key until it ends.
LEMMA WebhooksLast ==
    ASSUME TypeOK, EventsAreAnnounced, [Next]_vars, NEW d \in Deliveries, pc[d] # "idle"
    PROVE  /\ event'[d] = event[d] /\ pc'[d] # "idle"
           /\ IsC2W(d)' = IsC2W(d) /\ IsOwn(d)' = IsOwn(d)
           /\ KeyOf(d)' = KeyOf(d) /\ Text(d)' = Text(d)
<1>1. event'[d] = event[d]
  BY EventChanges
<1>2. pc'[d] # "idle"
  BY PlaceChanges, HandlerGoes
<1>3. IsC2W(d)' = IsC2W(d) /\ IsOwn(d)' = IsOwn(d) /\ KeyOf(d)' = KeyOf(d)
  BY <1>1 DEF IsC2W, IsOwn, KeyOf
<1>4. Text(d)' = Text(d)
  <2>1. CASE IsC2W(d)
    BY <1>1, <2>1, EventFacts, PlatformsLast DEF Text, IsC2W
  <2>2. ASSUME ~IsC2W(d), NEW c \in ChatIds, event[d].id = EvoId(c), sent[c] > 0
        PROVE  Text(d)' = Text(d)
    <3>1. chat'[c] = chat[c]
      BY <2>2, PlatformsLast DEF EventsAreAnnounced
    <3>2. TextOfId(EvoId(c)) = chat[c].text /\ TextOfId(EvoId(c))' = chat'[c].text
      BY DEF TextOfId, EvoId
    <3> QED
      BY <1>1, <2>2, <3>1, <3>2 DEF Text, IsC2W
  <2>3. ASSUME ~IsC2W(d), NEW w \in written, event[d].id = NativeId(w)
        PROVE  Text(d)' = Text(d)
    <3>1. TextOfId(NativeId(w)) = TextOf[w] /\ TextOfId(NativeId(w))' = TextOf[w]
      BY DEF TextOfId, NativeId
    <3> QED
      BY <1>1, <2>3, <3>1 DEF Text, IsC2W
  <2> QED
    BY <2>1, <2>2, <2>3, EventFacts
<1> QED
  BY <1>1, <1>2, <1>3, <1>4

\* A row that says sent for the long term is never touched again.
LEMMA SentRowsLast ==
    ASSUME TypeOK, [Next]_vars, NEW k \in Keys, table[k].status = "sent",
           table[k].expires = IdempotencyTTL
    PROVE  table'[k] = table[k]
<1> SUFFICES ASSUME table'[k] # table[k] PROVE FALSE
  OBVIOUS
<1>1. ~Claimable(table[k], Now) /\ \A d \in Deliveries : ~ActiveClaim(table[k], d)
  BY DEF Claimable, ActiveClaim, Now, IdempotencyTTL
<1>2. ~ClaimLapses(k)
  BY DEF ClaimLapses
<1> QED
  BY <1>1, <1>2, RowChanges

-----------------------------------------------------------------------------
(* Webhooks are announced, and handlers are where their webhooks belong.   *)

\* What a platform has announced stays announced.
LEMMA AnnouncedLasts ==
    ASSUME TypeOK, [Next]_vars
    PROVE  Announced \subseteq Announced'
<1>1. {c \in ChatIds : chat[c] # NoChat} \subseteq {c \in ChatIds : chat'[c] # NoChat}
  BY PlatformsLast
<1>2. {c \in ChatIds : sent[c] > 0} \subseteq {c \in ChatIds : sent'[c] > 0}
  BY PlatformsLast DEF TypeOK
<1>3. written \subseteq written'
  BY PlatformsLast
<1> QED
  BY <1>1, <1>2, <1>3 DEF Announced

\* Only a delivery wakes a handler, with an announced message.
LEMMA IdleUntilDelivered ==
    ASSUME TypeOK, EventsAreAnnounced, [Next]_vars, NEW d \in Deliveries,
           pc[d] = "idle", pc'[d] # "idle"
    PROVE  event'[d] \in Announced'
<1>1. Deliver(d)
  BY PlaceChanges, HandlerGoes DEF Crash, Working
<1>2. event'[d] \in Announced
  BY <1>1 DEF Deliver, TypeOK
<1> QED
  BY <1>2, AnnouncedLasts

LEMMA EventsStep ==
    ASSUME TypeOK, EventsAreAnnounced, PlacesFitEvents, [Next]_vars
    PROVE  EventsAreAnnounced'
<1>1. ASSUME NEW d \in Deliveries
      PROVE  IF pc'[d] = "idle" THEN event'[d] = NoEvent ELSE event'[d] \in Announced'
  <2>1. CASE pc[d] = "idle" /\ pc'[d] = "idle"
    BY <2>1, EventChanges DEF EventsAreAnnounced
  <2>2. CASE pc[d] = "idle" /\ pc'[d] # "idle"
    BY <2>2, IdleUntilDelivered
  <2>3. CASE pc[d] # "idle"
    BY <2>3, WebhooksLast, AnnouncedLasts DEF EventsAreAnnounced
  <2> QED
    BY <2>1, <2>2, <2>3
<1>2. ASSUME NEW c \in ChatIds, sent'[c] > 0
      PROVE  chat'[c] # NoChat
  <2>1. CASE sent'[c] = sent[c]
    BY <1>2, <2>1, PlatformsLast DEF EventsAreAnnounced
  <2>2. ASSUME NEW d \in Deliveries, C2WSend(d), event[d].chat = c
        PROVE  chat'[c] # NoChat
    <3>1. pc[d] = "send" /\ IsC2W(d)
      BY <2>2 DEF C2WSend, PlacesFitEvents
    <3> QED
      BY <2>2, <3>1, EventFacts, PlatformsLast
  <2> QED
    BY <2>1, <2>2, SentChanges
<1> QED
  BY <1>1, <1>2 DEF EventsAreAnnounced

LEMMA PlacesStep ==
    ASSUME TypeOK, EventsAreAnnounced, PlacesFitEvents, [Next]_vars
    PROVE  PlacesFitEvents'
<1> DEFINE Fits(d, l) ==
        /\ l \in {"join", "wait", "limit", "send"} => IsC2W(d)
        /\ l \in {"origin", "publish", "suppress", "pair", "finish"} => IsOwn(d)
        /\ l \in {"ensure", "keep", "create"} => ~IsC2W(d)
        /\ l \in {"create", "complete"} => ~IsOwn(d)
        /\ IsC2W(d) /\ l \in {"join", "wait", "claim", "lost", "limit", "send",
                              "complete", "release"}
              => chat[event[d].chat].dir = "out"
<1>1. ASSUME NEW d \in Deliveries PROVE Fits(d, pc[d])
  BY DEF PlacesFitEvents
<1>2. SUFFICES ASSUME NEW d \in Deliveries, pc[d] # "idle"
               PROVE  Fits(d, pc'[d])
  <2>1. ASSUME NEW d \in Deliveries, pc[d] # "idle", Fits(d, pc'[d])
        PROVE  Fits(d, pc[d])'
    <3>1. IsC2W(d) => chat'[event'[d].chat] = chat[event[d].chat]
      BY <2>1, EventFacts, PlatformsLast, WebhooksLast
    <3> QED
      BY <2>1, <3>1, WebhooksLast
  <2>2. ASSUME NEW d \in Deliveries, pc[d] = "idle"
        PROVE  Fits(d, pc[d])'
    BY <2>2, PlaceChanges, HandlerGoes
  <2> QED
    BY <1>2, <2>1, <2>2 DEF PlacesFitEvents
<1>3. CASE pc'[d] = pc[d] \/ pc'[d] = "crashed" \/ (pc[d] = "wait" /\ pc'[d] = "claim")
  BY <1>1, <1>3
<1>4. CASE Handler(d)
  <2>1. CASE C2WAdmit(d) \/ C2WJoin(d) \/ C2WWaitTimeout(d) \/ C2WLimited(d) \/ C2WMark(d)
    BY <1>1, <2>1 DEF C2WAdmit, C2WJoin, C2WWaitTimeout, C2WLimited, C2WMark, Goto,
                      DBFails, IsC2W, IsOwn, TypeOK
  <2>2. CASE C2WSend(d)
    <3>1. pc[d] = "send" /\ pc'[d] \in {"complete", "error", "release"}
      BY <2>2 DEF C2WSend, Goto, TypeOK
    <3> QED
      BY <1>1, <3>1 DEF IsC2W, IsOwn
  <2>3. CASE W2CAdmit(d) \/ W2COrigin(d)
    BY <1>1, <2>3 DEF W2CAdmit, W2COrigin, Goto, IsC2W, IsOwn, TypeOK
  <2>4. CASE Paused(d) \/ Claim(d) \/ ClaimReadStatus(d) \/ Release(d) \/ Complete(d)
    <3>1. event[d].from \in {"chatwoot", "evolution"}
      BY <1>2, EventFacts DEF IsC2W
    <3> QED
      BY <1>1, <2>4, <3>1 DEF Paused, Claim, ClaimReadStatus, Release, Complete, Goto,
                        DBFails, IsC2W, IsOwn, TypeOK
  <2>5. CASE W2CEnsure(d)
    <3>1. /\ pc[d] = "ensure"
          /\ \/ pc'[d] = "publish" /\ IsOwn(d)
             \/ pc'[d] = "create" /\ ~IsOwn(d)
             \/ pc'[d] \in {"keep", "release"}
      BY <2>5 DEF W2CEnsure, Goto, TypeOK
    <3> QED
      BY <1>1, <3>1 DEF IsC2W, IsOwn
  <2>6. CASE W2CCreateIncoming(d)
    <3>1. pc[d] = "create" /\ pc'[d] \in {"complete", "keep", "release"}
      BY <2>6 DEF W2CCreateIncoming, Goto, TypeOK
    <3> QED
      BY <1>1, <3>1 DEF IsC2W, IsOwn
  <2>7. CASE W2CPublish(d) \/ W2CSuppress(d) \/ W2CPair(d) \/ W2CKeep(d)
    BY <1>1, <2>7 DEF W2CPublish, W2CSuppress, W2CPair, W2CKeep, Goto, DBFails,
                      IsC2W, IsOwn, TypeOK
  <2>8. CASE W2CFinish(d)
    <3>1. pc[d] = "finish" /\ pc'[d] \in {"ok", "keep", "release"}
      BY <2>8 DEF W2CFinish, TypeOK
    <3> QED
      BY <1>1, <3>1 DEF IsC2W, IsOwn
  <2> QED
    BY <1>4, <2>1, <2>2, <2>3, <2>4, <2>5, <2>6, <2>7, <2>8 DEF Handler
<1> QED
  BY <1>2, <1>3, <1>4, PlaceChanges

-----------------------------------------------------------------------------
(* Messages that exist; the IDs in the rows.                               *)

\* How an own message is to end is decided at its publication and its pair.
LEMMA AfterChanges ==
    ASSUME TypeOK, [Next]_vars, NEW d \in Deliveries, after'[d] # after[d]
    PROVE  (W2CPublish(d) /\ after'[d] # "ok") \/ (W2CPair(d) /\ after'[d] = "ok")
<1>1. ASSUME NEW x \in Deliveries, Handler(x)
      PROVE  W2CPublish(x) \/ W2CPair(x) \/ after' = after
  BY <1>1 DEF Handler, Paused, Claim, ClaimReadStatus, Release, Complete, C2WAdmit,
     C2WJoin, C2WWaitTimeout, C2WLimited, C2WMark, C2WSend, W2CAdmit, W2COrigin,
     W2CEnsure, W2CCreateIncoming, W2CSuppress, W2CFinish, W2CKeep
<1>2. ASSUME NEW x \in Deliveries, W2CPublish(x)
      PROVE  x = d /\ after'[d] # "ok"
  BY <1>2 DEF W2CPublish, TypeOK
<1>3. ASSUME NEW x \in Deliveries, W2CPair(x)
      PROVE  x = d /\ after'[d] = "ok"
  BY <1>3 DEF W2CPair, TypeOK
<1>4. \E x \in Deliveries : Handler(x)
  BY StepCases DEF AgentWrites, SetPaused, Crash, PersonWrites, ClaimLapses, Deliver, vars
<1> QED
  BY <1>1, <1>2, <1>3, <1>4

LEMMA MadeStep ==
    ASSUME TypeOK, EventsAreAnnounced, PlacesFitEvents, MadeIsMine, [Next]_vars
    PROVE  MadeIsMine'
<1> SUFFICES ASSUME NEW d \in Deliveries, pc'[d] \in {"suppress", "pair"}
             PROVE  /\ made'[d] \in ChatIds /\ after'[d] = "keep"
                    /\ chat'[made'[d]] =
                          [dir |-> "out", by |-> event'[d].id, text |-> Text(d)']
  BY DEF MadeIsMine
<1>1. pc[d] # "idle"
  BY PlaceChanges, HandlerGoes
<1>2. event'[d] = event[d] /\ Text(d)' = Text(d)
  BY <1>1, WebhooksLast
<1>3. CASE W2CPublish(d)
  <2>1. PICK c \in ChatIds :
           /\ NewChat(c, [dir |-> "out", by |-> event[d].id, text |-> Text(d)])
           /\ made'[d] = c /\ after'[d] = "keep"
    BY <1>3 DEF W2CPublish, Goto, TypeOK
  <2> QED
    BY <1>2, <2>1 DEF NewChat, TypeOK
<1>4. CASE pc[d] \in {"suppress", "pair"} /\ made'[d] = made[d]
  <2>1. /\ made[d] \in ChatIds /\ after[d] = "keep"
        /\ chat[made[d]] = [dir |-> "out", by |-> event[d].id, text |-> Text(d)]
    BY <1>4 DEF MadeIsMine
  <2>2. chat[made[d]] # NoChat
    BY <2>1 DEF NoChat
  <2>3. after'[d] = after[d]
    <3>1. ~W2CPublish(d)
      BY <1>4 DEF W2CPublish
    <3>2. ~(W2CPair(d) /\ after'[d] = "ok")
      BY DEF W2CPair, Goto, TypeOK
    <3> QED
      BY <3>1, <3>2, AfterChanges
  <2> QED
    BY <1>2, <1>4, <2>1, <2>2, <2>3, PlatformsLast
<1>5. made'[d] = made[d] \/ W2CPublish(d)
  <2>1. ASSUME NEW x \in Deliveries, Handler(x)
        PROVE  W2CPublish(x) \/ made' = made
    BY <2>1 DEF Handler, Paused, Claim, ClaimReadStatus, Release, Complete, C2WAdmit,
       C2WJoin, C2WWaitTimeout, C2WLimited, C2WMark, C2WSend, W2CAdmit, W2COrigin,
       W2CEnsure, W2CCreateIncoming, W2CSuppress, W2CPair, W2CFinish, W2CKeep
  <2>2. ASSUME NEW x \in Deliveries, W2CPublish(x), x # d
        PROVE  made'[d] = made[d]
    BY <2>2 DEF W2CPublish, TypeOK
  <2> QED
    BY <2>1, <2>2, StepCases DEF AgentWrites, SetPaused, Crash, PersonWrites,
                                 ClaimLapses, Deliver, vars
<1>6. pc[d] \in {"suppress", "pair"} \/ W2CPublish(d)
  <2>1. ASSUME W2CSuppress(d) PROVE pc[d] = "suppress"
    BY <2>1 DEF W2CSuppress
  <2> QED
    BY <2>1, PlaceChanges, HandlerGoes
<1> QED
  BY <1>3, <1>4, <1>5, <1>6

LEMMA EvoStep ==
    ASSUME TypeOK, EventsAreAnnounced, PlacesFitEvents, EvoFitsKey, [Next]_vars
    PROVE  EvoFitsKey'
<1> SUFFICES ASSUME NEW c \in ChatIds, table'[C2WKey(c)] # table[C2WKey(c)]
             PROVE  table'[C2WKey(c)].evo \in {EvoId(c), NoMessage}
  BY DEF EvoFitsKey
<1>1. C2WKey(c) \in Keys /\ table[C2WKey(c)] \in Rows(Deliveries, MessageIds)
  BY KeysDiffer DEF TypeOK
<1>2. ASSUME NEW d \in Deliveries, C2WKey(c) = KeyOf(d), IsC2W(d),
             C2WMark(d) \/ Complete(d)
      PROVE  event[d].chat = c
  <2>1. pc[d] # "idle"
    BY <1>2 DEF C2WMark, Complete
  <2> QED
    BY <1>2, <2>1, EventFacts, KeysDiffer
<1>3. \A d \in Deliveries : C2WMark(d) => IsC2W(d)
  BY DEF C2WMark, PlacesFitEvents
<1>4. \A d, m, until, row : /\ ClaimedRow(d, until).evo = NoMessage
                            /\ MarkedRow(d, m, until).evo = m
                            /\ SentRow(m, until).evo = m
                            /\ ReleasedRow(row).evo = NoMessage
  BY DEF ClaimedRow, MarkedRow, SentRow, ReleasedRow
<1>5. [table[C2WKey(c)] EXCEPT !.expires = Lapsed].evo = table[C2WKey(c)].evo
  BY <1>1 DEF Rows
<1> DEFINE row == table'[C2WKey(c)]
<1>6. CASE ClaimLapses(C2WKey(c))
  <2>1. row.evo = table[C2WKey(c)].evo
    BY <1>1, <1>5, <1>6 DEF ClaimLapses, SetRow, TypeOK
  <2> QED
    BY <2>1 DEF EvoFitsKey
<1>7. CASE ~ClaimLapses(C2WKey(c))
  <2>1. \/ \E d \in Deliveries : \E until : row = ClaimedRow(d, until)
        \/ row = ReleasedRow(table[C2WKey(c)])
        \/ row = SentRow(NoMessage, IdempotencyTTL)
        \/ \E d \in Deliveries : /\ C2WKey(c) = KeyOf(d) /\ C2WMark(d)
              /\ row = MarkedRow(d, EvoId(event[d].chat), IdempotencyTTL)
        \/ \E d \in Deliveries : /\ C2WKey(c) = KeyOf(d) /\ Complete(d)
              /\ row = SentRow(IF IsC2W(d) THEN EvoId(event[d].chat) ELSE NoMessage,
                               IdempotencyTTL)
    <3> HIDE DEF row
    <3> QED
      BY <1>1, <1>7, RowChanges DEF row
  <2> QED
    BY <1>2, <1>3, <1>4, <2>1
<1> QED
  BY <1>6, <1>7

-----------------------------------------------------------------------------
(* Rows that become sent.                                                  *)

\* The key of a handler tells its direction and its message.
LEMMA WhoseKey ==
    ASSUME TypeOK, EventsAreAnnounced, NEW d \in Deliveries, pc[d] # "idle"
    PROVE  /\ \A c \in ChatIds : KeyOf(d) = C2WKey(c) => IsC2W(d) /\ event[d].chat = c
           /\ \A id \in MessageIds, own \in BOOLEAN : KeyOf(d) = W2CKey(id, own) =>
                 ~IsC2W(d) /\ event[d].id = id /\ event[d].own = own
BY EventFacts, KeysDiffer

\* A pair that is completed: two keys of one manual message.
LEMMA PairFacts ==
    ASSUME TypeOK, EventsAreAnnounced, PlacesFitEvents, MadeIsMine,
           NEW d \in Deliveries, W2CPair(d)
    PROVE  /\ pc[d] = "pair" /\ IsOwn(d) /\ ~IsC2W(d)
           /\ made[d] \in ChatIds /\ made[d] \in Publications(event[d].id)
           /\ chat[made[d]] # NoChat /\ chat[made[d]].by # Agent
           /\ KeyOf(d) = W2CKey(event[d].id, TRUE)
           /\ KeyOf(d) # C2WKey(made[d])
           /\ KeyOf(d) \in Keys /\ C2WKey(made[d]) \in Keys
<1>1. pc[d] = "pair" /\ IsOwn(d)
  BY DEF W2CPair, PlacesFitEvents
<1>2. ~IsC2W(d)
  BY <1>1 DEF IsOwn, IsC2W
<1>3. /\ made[d] \in ChatIds
      /\ chat[made[d]] = [dir |-> "out", by |-> event[d].id, text |-> Text(d)]
  BY <1>1 DEF MadeIsMine
<1>4. event[d].id \in MessageIds /\ event[d].own = TRUE
  BY <1>1, <1>2, EventFacts DEF IsOwn
<1>5. KeyOf(d) = W2CKey(event[d].id, TRUE)
  BY <1>1, <1>2, <1>4, EventFacts
<1>6. chat[made[d]] # NoChat /\ chat[made[d]].by = event[d].id
  BY <1>3 DEF NoChat
<1>7. made[d] \in Publications(event[d].id)
  BY <1>3, <1>6 DEF Publications
<1>8. chat[made[d]].by # Agent
  BY <1>4, <1>6, IdsDiffer
<1>9. KeyOf(d) # C2WKey(made[d])
  <2>1. C2WKey(made[d]) # W2CKey(event[d].id, TRUE)
    BY KeysDiffer
  <2> QED
    BY <1>5, <2>1
<1>10. KeyOf(d) \in Keys /\ C2WKey(made[d]) \in Keys
  BY <1>1, <1>3, EventFacts, KeysDiffer
<1> QED
  BY <1>1, <1>2, <1>3, <1>5, <1>6, <1>7, <1>8, <1>9, <1>10

\* A row becomes sent by a Complete or by the pair of an own message.
LEMMA BecomesSent ==
    ASSUME TypeOK, [Next]_vars, NEW k \in Keys,
           table'[k].status = "sent", table'[k] # table[k]
    PROVE  /\ table'[k].expires = IdempotencyTTL
           /\ \E d \in Deliveries :
                 \/ Complete(d) /\ k = KeyOf(d)
                 \/ W2CPair(d) /\ k \in {KeyOf(d), C2WKey(made[d])}
<1>1. \A d, m, until, row : /\ ClaimedRow(d, until).status = "processing"
                            /\ MarkedRow(d, m, until).status = "processing"
                            /\ ReleasedRow(row).status = "failed"
                            /\ SentRow(m, until).expires = until
  BY DEF ClaimedRow, MarkedRow, SentRow, ReleasedRow
<1>2. ~ClaimLapses(k)
  BY DEF ClaimLapses, SetRow, TypeOK, Rows
<1> DEFINE row == table'[k]
<1>3. \/ \E d \in Deliveries : \E until : row = ClaimedRow(d, until)
      \/ row = ReleasedRow(table[k])
      \/ \E d \in Deliveries : \E m : row = MarkedRow(d, m, IdempotencyTTL)
      \/ /\ \E m : row = SentRow(m, IdempotencyTTL)
         /\ \E d \in Deliveries :
                 \/ Complete(d) /\ k = KeyOf(d)
                 \/ W2CPair(d) /\ k \in {KeyOf(d), C2WKey(made[d])}
  <2> HIDE DEF row
  <2> QED
    BY <1>2, RowChanges DEF row
<1> QED
  BY <1>1, <1>3

LEMMA SentMeansArrivedStep ==
    ASSUME TypeOK, EventsAreAnnounced, PlacesFitEvents, MadeIsMine, SentMeansArrived,
           ConfirmersArrived, [Next]_vars
    PROVE  SentMeansArrived'
<1>1. ASSUME NEW k \in Keys, table'[k].status = "sent"
      PROVE  table'[k].expires = IdempotencyTTL
  BY <1>1, BecomesSent DEF SentMeansArrived
<1>2. ASSUME NEW c \in ChatIds, table'[C2WKey(c)].status = "sent"
      PROVE  sent'[c] > 0 \/ (chat'[c] # NoChat /\ chat'[c].by # Agent)
  <2>1. CASE table'[C2WKey(c)] = table[C2WKey(c)]
    BY <1>2, <2>1, PlatformsLast DEF SentMeansArrived, TypeOK
  <2>2. ASSUME NEW d \in Deliveries, Complete(d), C2WKey(c) = KeyOf(d)
        PROVE  sent'[c] > 0
    <3>1. pc[d] = "complete" /\ IsC2W(d) /\ event[d].chat = c
      BY <2>2, WhoseKey DEF Complete
    <3> QED
      BY <3>1, PlatformsLast DEF ConfirmersArrived, Arrived, TypeOK
  <2>3. ASSUME NEW d \in Deliveries, W2CPair(d), C2WKey(c) \in {KeyOf(d), C2WKey(made[d])}
        PROVE  chat'[c] # NoChat /\ chat'[c].by # Agent
    <3>1. c = made[d]
      BY <2>3, PairFacts, WhoseKey, KeysDiffer
    <3> QED
      BY <2>3, <3>1, PairFacts, PlatformsLast
  <2> QED
    BY <1>2, <2>1, <2>2, <2>3, BecomesSent, KeysDiffer
<1>3. ASSUME NEW id \in MessageIds, NEW own \in BOOLEAN,
             table'[W2CKey(id, own)].status = "sent"
      PROVE  Publications(id)' # {}
  <2>1. Publications(id) # {} => Publications(id)' # {}
    BY PlatformsLast
  <2>2. CASE table'[W2CKey(id, own)] = table[W2CKey(id, own)]
    BY <1>3, <2>1, <2>2 DEF SentMeansArrived
  <2>3. ASSUME NEW d \in Deliveries, Complete(d), W2CKey(id, own) = KeyOf(d)
        PROVE  Publications(id) # {}
    <3>1. pc[d] = "complete" /\ ~IsC2W(d) /\ event[d].id = id
      BY <2>3, WhoseKey DEF Complete
    <3> QED
      BY <3>1 DEF ConfirmersArrived, Arrived
  <2>4. ASSUME NEW d \in Deliveries, W2CPair(d),
               W2CKey(id, own) \in {KeyOf(d), C2WKey(made[d])}
        PROVE  Publications(id) # {}
    <3>1. event[d].id = id
      BY <2>4, PairFacts, WhoseKey, KeysDiffer
    <3> QED
      BY <2>4, <3>1, PairFacts
  <2> QED
    BY <1>3, <2>1, <2>2, <2>3, <2>4, BecomesSent, KeysDiffer
<1> QED
  BY <1>1, <1>2, <1>3 DEF SentMeansArrived

\* A completed pair: both rows are sent.
LEMMA PairCompletes ==
    ASSUME TypeOK, EventsAreAnnounced, PlacesFitEvents, MadeIsMine,
           NEW d \in Deliveries, W2CPair(d), <<table, audit, after>>' # <<table, audit, after>>
    PROVE  /\ table'[KeyOf(d)].status = "sent"
           /\ table'[C2WKey(made[d])].status = "sent"
<1>1. table' = [table EXCEPT ![KeyOf(d)] = SentRow(NoMessage, IdempotencyTTL),
                             ![C2WKey(made[d])] = SentRow(NoMessage, IdempotencyTTL)]
  BY DEF W2CPair
<1>2. KeyOf(d) \in Keys /\ C2WKey(made[d]) \in Keys
  BY PairFacts
<1>3. SentRow(NoMessage, IdempotencyTTL).status = "sent"
  BY DEF SentRow
<1> QED
  BY <1>1, <1>2, <1>3 DEF TypeOK

\* A handler that goes on to Complete after a send has sent.
LEMMA SendArrives ==
    ASSUME TypeOK, NEW d \in Deliveries, C2WSend(d), event[d].chat \in ChatIds
    PROVE  pc'[d] = "complete" => sent'[event[d].chat] > 0
<1>1. PICK out \in Outcomes :
         /\ sent' = IF Performed(out)
                       THEN [sent EXCEPT ![event[d].chat] = @ + 1] ELSE sent
         /\ Goto(d, CASE out = "ok"      -> "complete"
                      [] Transport(out)  -> "error"
                      [] OTHER           -> "release")
  BY DEF C2WSend
<1>2. CASE out = "ok"
  BY <1>1, <1>2 DEF Performed, TypeOK
<1>3. CASE out # "ok"
  BY <1>1, <1>3 DEF Goto, TypeOK
<1> QED
  BY <1>2, <1>3

\* A handler that goes on to Complete after a creation has created.
LEMMA CreateArrives ==
    ASSUME TypeOK, NEW d \in Deliveries, W2CCreateIncoming(d)
    PROVE  pc'[d] = "complete" => Publications(event[d].id)' # {} \/ event' # event
<1>1. PICK out \in Outcomes :
          /\ IF Performed(out)
               THEN \E c \in ChatIds :
                       NewChat(c, [dir |-> "in", by |-> event[d].id, text |-> Text(d)])
               ELSE UNCHANGED chat
          /\ Goto(d, CASE out = "ok"      -> "complete"
                       [] Transport(out)  -> "keep"
                       [] OTHER           -> "release")
  BY DEF W2CCreateIncoming
<1>2. CASE out = "ok"
  <2>1. PICK c \in ChatIds :
           chat' = [chat EXCEPT ![c] =
                      [dir |-> "in", by |-> event[d].id, text |-> Text(d)]]
    BY <1>1, <1>2 DEF Performed, NewChat
  <2>2. chat'[c] = [dir |-> "in", by |-> event[d].id, text |-> Text(d)]
    BY <2>1 DEF TypeOK
  <2>3. chat'[c] # NoChat /\ chat'[c].by = event[d].id
    BY <2>2 DEF NoChat
  <2>4. event' = event
    BY DEF W2CCreateIncoming
  <2> QED
    BY <2>3, <2>4 DEF Publications
<1>3. CASE out # "ok"
  BY <1>1, <1>3 DEF Goto, TypeOK
<1> QED
  BY <1>2, <1>3

LEMMA ConfirmersStep ==
    ASSUME TypeOK, EventsAreAnnounced, PlacesFitEvents, MadeIsMine, EvoFitsKey,
           SentMeansArrived, ConfirmersArrived, [Next]_vars
    PROVE  ConfirmersArrived'
<1> SUFFICES ASSUME NEW d \in Deliveries, pc[d] # "idle"
             PROVE  /\ pc'[d] = "complete" => Arrived(d)'
                    /\ pc'[d] = "ok" \/ (pc'[d] = "finish" /\ after'[d] = "ok")
                          => table'[KeyOf(d)].status = "sent"
                    /\ pc'[d] = "duplicate" => table'[KeyOf(d)].status = "sent"
                    /\ pc'[d] = "skipped" =>
                          IF IsC2W(d) THEN chat'[event[d].chat].dir # "out"
                                      ELSE \E c \in ChatIds : event[d].id = EvoId(c)
  <2>1. ASSUME NEW d \in Deliveries, pc[d] = "idle"
        PROVE  pc'[d] \in {"idle", "start"}
    BY <2>1, PlaceChanges, HandlerGoes DEF Crash, Working
  <2>2. ASSUME NEW d \in Deliveries, pc[d] # "idle"
        PROVE  event'[d] = event[d] /\ KeyOf(d)' = KeyOf(d) /\ IsC2W(d)' = IsC2W(d)
    BY <2>2, WebhooksLast
  <2> QED
    BY <2>1, <2>2 DEF ConfirmersArrived
<1>1. KeyOf(d) \in Keys /\ event'[d] = event[d] /\ IsC2W(d)' = IsC2W(d)
  BY EventFacts, WebhooksLast
<1>2. table[KeyOf(d)].status = "sent" => table'[KeyOf(d)].status = "sent"
  BY <1>1, SentRowsLast DEF SentMeansArrived
<1>3. Arrived(d) => Arrived(d)'
  BY <1>1, PlatformsLast, EventFacts DEF Arrived, TypeOK
<1>4. pc'[d] = "complete" => Arrived(d)'
  <2>1. CASE pc[d] = "complete"
    BY <2>1, <1>3 DEF ConfirmersArrived
  <2>2. CASE C2WSend(d)
    <3>1. IsC2W(d) /\ event[d].chat \in ChatIds
      BY <2>2, EventFacts DEF C2WSend, PlacesFitEvents
    <3> QED
      BY <1>1, <2>2, <3>1, SendArrives DEF Arrived
  <2>3. CASE W2CCreateIncoming(d)
    <3>1. ~IsC2W(d) /\ event' = event
      BY <2>3 DEF W2CCreateIncoming, PlacesFitEvents
    <3> QED
      BY <1>1, <2>3, <3>1, CreateArrives DEF Arrived
  <2> QED
    BY <2>1, <2>2, <2>3, PlaceChanges, HandlerGoes
<1>5. pc'[d] = "duplicate" => table'[KeyOf(d)].status = "sent"
  <2>1. CASE pc[d] = "duplicate"
    BY <2>1, <1>2 DEF ConfirmersArrived
  <2>2. CASE ClaimReadStatus(d)
    BY <2>2 DEF ClaimReadStatus, Goto, TypeOK
  <2> QED
    BY <2>1, <2>2, PlaceChanges, HandlerGoes
<1>6. pc'[d] = "finish" /\ after'[d] = "ok" => table'[KeyOf(d)].status = "sent"
  <2> SUFFICES ASSUME pc'[d] = "finish", after'[d] = "ok"
               PROVE  table'[KeyOf(d)].status = "sent"
    OBVIOUS
  <2>1. CASE after'[d] # after[d]
    BY <2>1, AfterChanges, PairCompletes
  <2>2. CASE after'[d] = after[d] /\ pc[d] = "finish"
    BY <2>2, <1>2 DEF ConfirmersArrived
  <2>3. CASE after'[d] = after[d] /\ (W2CPair(d) \/ W2CSuppress(d))
    BY <2>3 DEF W2CPair, W2CSuppress, MadeIsMine
  <2>4. W2CPublish(d) => after'[d] # "ok"
    BY DEF W2CPublish, TypeOK
  <2> QED
    BY <2>1, <2>2, <2>3, <2>4, PlaceChanges, HandlerGoes
<1>7. pc'[d] = "ok" => table'[KeyOf(d)].status = "sent"
  <2>1. CASE pc[d] = "ok"
    BY <2>1, <1>2 DEF ConfirmersArrived
  <2>2. CASE Complete(d)
    <3>1. SentRow(IF IsC2W(d) THEN EvoId(event[d].chat) ELSE NoMessage,
                  IdempotencyTTL).status = "sent"
      BY DEF SentRow
    <3>2. pc'[d] = "ok" =>
             table'[KeyOf(d)] = SentRow(IF IsC2W(d) THEN EvoId(event[d].chat)
                                                    ELSE NoMessage, IdempotencyTTL)
      BY <1>1, <2>2 DEF Complete, SetRow, Goto, DBFails, TypeOK
    <3> QED
      BY <3>1, <3>2
  <2>3. CASE W2CFinish(d)
    BY <1>2, <2>3 DEF W2CFinish, ConfirmersArrived
  <2> QED
    BY <2>1, <2>2, <2>3, PlaceChanges, HandlerGoes
<1>8. pc'[d] = "skipped" =>
         IF IsC2W(d) THEN chat'[event[d].chat].dir # "out"
                     ELSE \E c \in ChatIds : event[d].id = EvoId(c)
  <2>1. IsC2W(d) => chat'[event[d].chat] = chat[event[d].chat]
    BY EventFacts, PlatformsLast
  <2>2. CASE pc[d] = "skipped"
    BY <2>1, <2>2 DEF ConfirmersArrived
  <2>3. CASE C2WAdmit(d)
    BY <2>1, <2>3 DEF C2WAdmit, Goto, TypeOK
  <2>4. CASE W2COrigin(d)
    <3>1. pc[d] = "origin" /\ ~IsC2W(d)
      BY <2>4 DEF W2COrigin, PlacesFitEvents, IsOwn, IsC2W
    <3>2. event[d].id # NoMessage
      BY <3>1, EventFacts, NoMessageAssumption
    <3>3. pc'[d] = "skipped" => \E c \in ChatIds : table[C2WKey(c)].evo = event[d].id
      BY <2>4 DEF W2COrigin, Goto, RecognisesEcho, TypeOK
    <3> QED
      BY <3>1, <3>2, <3>3 DEF EvoFitsKey
  <2> QED
    BY <2>2, <2>3, <2>4, PlaceChanges, HandlerGoes
<1> QED
  BY <1>4, <1>5, <1>6, <1>7, <1>8

\* The two rows of a manual message become sent in the same step.
LEMMA ManualPairStep ==
    ASSUME TypeOK, EventsAreAnnounced, PlacesFitEvents, MadeIsMine, SentMeansArrived,
           ManualPairIsAtomic, [Next]_vars
    PROVE  ManualPairIsAtomic'
<1> SUFFICES ASSUME NEW w \in FromPhone,
                    table'[W2CKey(NativeId(w), TRUE)].status = "sent"
             PROVE  \E c \in Publications(NativeId(w))' : table'[C2WKey(c)].status = "sent"
  BY DEF ManualPairIsAtomic
<1> DEFINE k == W2CKey(NativeId(w), TRUE)
<1>1. k \in Keys /\ NativeId(w) \in MessageIds
  BY IdsDiffer, KeysDiffer DEF WaIds
<1>2. CASE table'[k] = table[k]
  <2>1. PICK c \in Publications(NativeId(w)) : table[C2WKey(c)].status = "sent"
    BY <1>2 DEF ManualPairIsAtomic
  <2>2. c \in ChatIds
    BY <2>1 DEF Publications
  <2>3. table'[C2WKey(c)] = table[C2WKey(c)]
    BY <2>1, <2>2, KeysDiffer, SentRowsLast DEF SentMeansArrived
  <2> QED
    BY <2>1, <2>3, PlatformsLast
<1>3. ASSUME NEW d \in Deliveries, Complete(d), k = KeyOf(d)
      PROVE  FALSE
  <2>1. ~IsC2W(d) /\ event[d].own /\ pc[d] = "complete"
    BY <1>1, <1>3, WhoseKey DEF Complete
  <2> QED
    BY <2>1, EventFacts DEF PlacesFitEvents
<1>4. ASSUME NEW d \in Deliveries, W2CPair(d), k \in {KeyOf(d), C2WKey(made[d])},
             table'[k] # table[k]
      PROVE  \E c \in Publications(NativeId(w))' : table'[C2WKey(c)].status = "sent"
  <2>1. k = KeyOf(d)
    BY <1>4, KeysDiffer
  <2>2. event[d].id = NativeId(w)
    BY <1>1, <1>4, <2>1, PairFacts, WhoseKey
  <2> QED
    BY <1>4, <2>2, PairFacts, PairCompletes, PlatformsLast
<1> QED
  BY <1>1, <1>2, <1>3, <1>4, BecomesSent

-----------------------------------------------------------------------------
(* The registry of manual publications.                                    *)

Publishing(d) == pc[d] \in {"publish", "suppress", "pair", "finish"}

PublishersOf(t) == {d \in Deliveries : Publishing(d) /\ Text(d) = t}

\* A handler registers its publication in W2CEnsure and ends it in W2CFinish.
LEMMA PublishingChanges ==
    ASSUME TypeOK, [Next]_vars, NEW d \in Deliveries
    PROVE  /\ Publishing(d) /\ ~Publishing(d)' => W2CFinish(d) \/ Crash
           /\ ~Publishing(d) /\ Publishing(d)' => W2CEnsure(d) /\ pc'[d] = "publish"
<1>1. ASSUME Publishing(d), ~Publishing(d)', Handler(d)
      PROVE  W2CFinish(d)
  <2>1. W2CPublish(d) \/ W2CSuppress(d) \/ W2CPair(d) \/ W2CFinish(d)
    BY <1>1 DEF Publishing, Handler, Paused, Claim, ClaimReadStatus, Release, Complete,
       C2WAdmit, C2WJoin, C2WWaitTimeout, C2WLimited, C2WMark, C2WSend, W2CAdmit,
       W2COrigin, W2CEnsure, W2CCreateIncoming, W2CKeep
  <2>2. W2CPublish(d) \/ W2CSuppress(d) \/ W2CPair(d) => Publishing(d)'
    BY DEF Publishing, W2CPublish, W2CSuppress, W2CPair, Goto, DBFails, TypeOK
  <2> QED
    BY <1>1, <2>1, <2>2
<1>2. ASSUME ~Publishing(d), Publishing(d)', Handler(d)
      PROVE  W2CEnsure(d) /\ pc'[d] = "publish"
  <2>1. ~(W2CPublish(d) \/ W2CSuppress(d) \/ W2CPair(d))
    BY <1>2 DEF Publishing, W2CPublish, W2CSuppress, W2CPair
  <2> QED
    BY <1>2, <2>1, HandlerGoes DEF Publishing
<1> QED
  BY <1>1, <1>2, PlaceChanges DEF Publishing

\* W2CEnsure counts one pending publication when it goes on to publish.
LEMMA EnsureCounts ==
    ASSUME TypeOK, NEW d \in Deliveries, W2CEnsure(d)
    PROVE  \/ pc'[d] = "publish" /\ pending' = [pending EXCEPT ![Text(d)] = @ + 1]
           \/ pc'[d] # "publish" /\ pending' = pending
<1>1. PICK out \in Outcomes :
         /\ Goto(d, CASE out = "ok"      -> IF IsOwn(d) THEN "publish" ELSE "create"
                      [] Transport(out)  -> "keep"
                      [] OTHER           -> "release")
         /\ pending' = IF out = "ok" /\ IsOwn(d)
                          THEN [pending EXCEPT ![Text(d)] = @ + 1] ELSE pending
  BY DEF W2CEnsure
<1>2. CASE out = "ok" /\ IsOwn(d)
  <2>1. pc' = [pc EXCEPT ![d] = "publish"]
    BY <1>1, <1>2 DEF Goto, Transport
  <2> QED
    BY <1>1, <1>2, <2>1 DEF TypeOK
<1>3. CASE out = "ok" /\ ~IsOwn(d)
  <2>1. pc' = [pc EXCEPT ![d] = "create"]
    BY <1>1, <1>3 DEF Goto, Transport
  <2> QED
    BY <1>1, <1>3, <2>1 DEF TypeOK
<1>4. CASE out # "ok"
  <2>1. pc'[d] \in {"keep", "release"}
    BY <1>1, <1>4 DEF Goto, TypeOK
  <2> QED
    BY <1>1, <1>4, <2>1
<1> QED
  BY <1>2, <1>3, <1>4

\* The count changes in no other step, unless the process dies.
LEMMA PendingChanges ==
    ASSUME TypeOK, [Next]_vars, pending' # pending
    PROVE  \/ Crash
           \/ \E d \in Deliveries : W2CEnsure(d) \/ W2CFinish(d)
<1>1. ASSUME NEW d \in Deliveries, Handler(d)
      PROVE  W2CEnsure(d) \/ W2CFinish(d) \/ pending' = pending
  BY <1>1 DEF Handler, Paused, Claim, ClaimReadStatus, Release, Complete, C2WAdmit,
     C2WJoin, C2WWaitTimeout, C2WLimited, C2WMark, C2WSend, W2CAdmit, W2COrigin,
     W2CCreateIncoming, W2CPublish, W2CSuppress, W2CPair, W2CKeep
<1> QED
  BY <1>1, StepCases DEF AgentWrites, SetPaused, PersonWrites, ClaimLapses, Deliver, vars

\* Another handler than d does not move between the publishing places while
\* d begins or finishes, and waits on only while somebody publishes.
LEMMA OthersStay ==
    ASSUME TypeOK, NEW d \in Deliveries, W2CEnsure(d) \/ W2CFinish(d),
           NEW x \in Deliveries, x # d
    PROVE  /\ pc'[x] = pc[x] \/ (pc[x] = "wait" /\ pc'[x] = "claim")
           /\ W2CFinish(d) /\ pc'[x] = "wait" /\ Text(x) = Text(d) => pending'[Text(d)] # 0
<1>1. CASE W2CEnsure(d)
  BY <1>1 DEF W2CEnsure, W2CFinish, Goto, TypeOK
<1>2. CASE W2CFinish(d)
  BY <1>2 DEF W2CFinish
<1> QED
  BY <1>1, <1>2

LEMMA RegistryStep ==
    ASSUME TypeOK, EventsAreAnnounced, RegistryIsExact, [Next]_vars
    PROVE  RegistryIsExact'
<1>1. \A t \in AgentTexts : /\ pending[t] = Cardinality(PublishersOf(t))
                            /\ IsFiniteSet(PublishersOf(t))
  BY BridgeAssumption, FS_Subset DEF RegistryIsExact, PublishersOf, Publishing
<1>2. SUFFICES ASSUME NEW t \in AgentTexts
               PROVE  /\ pending'[t] = Cardinality(PublishersOf(t)')
                      /\ (\E x \in Deliveries : pc'[x] = "wait" /\ Text(x)' = t)
                            => pending'[t] > 0
  BY DEF RegistryIsExact, PublishersOf, Publishing
<1>3. \A d \in Deliveries : pc[d] # "idle" => Text(d)' = Text(d) /\ Text(d) \in AgentTexts
  BY WebhooksLast, TextFacts
<1>4. \A d \in Deliveries : pc[d] = "idle" => pc'[d] \in {"idle", "start"}
  BY PlaceChanges, HandlerGoes DEF Crash, Working
<1>5. pending[t] \in Nat
  BY DEF TypeOK
<1>6. CASE Crash
  <2>1. \A d \in Deliveries : pc'[d] \notin {"publish", "suppress", "pair", "finish", "wait"}
    BY <1>6 DEF Crash, Working, Answers
  <2>2. PublishersOf(t)' = {}
    BY <2>1 DEF PublishersOf, Publishing
  <2> QED
    BY <1>6, <2>1, <2>2, FS_EmptySet DEF Crash
<1>7. ASSUME NEW d \in Deliveries, W2CEnsure(d), pc'[d] = "publish"
      PROVE  /\ pending'[t] = Cardinality(PublishersOf(t)')
             /\ \A x \in Deliveries : pc'[x] = "wait" /\ Text(x)' = t => pending'[t] > 0
  <2>1. pending' = [pending EXCEPT ![Text(d)] = @ + 1]
    BY <1>7, EnsureCounts
  <2>2. pc[d] = "ensure" /\ d \notin PublishersOf(t)
    BY <1>7 DEF W2CEnsure, PublishersOf, Publishing
  <2>3. PublishersOf(t)' = IF Text(d) = t THEN PublishersOf(t) \cup {d}
                                          ELSE PublishersOf(t)
    <3>1. \A x \in Deliveries : x # d => (Publishing(x)' <=> Publishing(x))
      BY <1>7, OthersStay DEF Publishing
    <3>2. Publishing(d)' /\ ~Publishing(d)
      BY <1>7, <2>2 DEF Publishing
    <3>3. \A x \in Deliveries : Publishing(x) => pc[x] # "idle"
      BY DEF Publishing
    <3> QED
      BY <1>3, <2>2, <3>1, <3>2, <3>3 DEF PublishersOf
  <2>4. pending'[t] = IF Text(d) = t THEN pending[t] + 1 ELSE pending[t]
    BY <1>3, <2>1, <2>2 DEF TypeOK
  <2>5. pending'[t] = Cardinality(PublishersOf(t)')
    <3>1. CASE Text(d) = t
      <4>1. Cardinality(PublishersOf(t) \cup {d}) = Cardinality(PublishersOf(t)) + 1
        BY <1>1, <2>2, FS_AddElement
      <4> QED
        BY <1>1, <2>3, <2>4, <3>1, <4>1
    <3>2. CASE Text(d) # t
      BY <1>1, <2>3, <2>4, <3>2
    <3> QED
      BY <3>1, <3>2
  <2>6. ASSUME NEW x \in Deliveries, pc'[x] = "wait", Text(x)' = t
        PROVE  pending[t] > 0
    <3>1. pc[x] = "wait"
      BY <1>7, <2>6, OthersStay
    <3> QED
      BY <1>3, <2>6, <3>1 DEF RegistryIsExact
  <2> QED
    BY <1>5, <2>4, <2>5, <2>6
<1>8. ASSUME NEW d \in Deliveries, W2CFinish(d)
      PROVE  /\ pending'[t] = Cardinality(PublishersOf(t)')
             /\ \A x \in Deliveries : pc'[x] = "wait" /\ Text(x)' = t => pending'[t] > 0
  <2>1. pending' = [pending EXCEPT ![Text(d)] = @ - 1] /\ pc[d] = "finish"
    BY <1>8 DEF W2CFinish
  <2>2. pc'[d] \in {"ok", "keep", "release"}
    BY <1>8 DEF W2CFinish, TypeOK
  <2>3. PublishersOf(t)' = IF Text(d) = t THEN PublishersOf(t) \ {d}
                                          ELSE PublishersOf(t)
    <3>1. \A x \in Deliveries : x # d => (Publishing(x)' <=> Publishing(x))
      BY <1>8, OthersStay DEF Publishing
    <3>2. ~Publishing(d)' /\ Publishing(d)
      BY <2>1, <2>2 DEF Publishing
    <3>3. \A x \in Deliveries : Publishing(x) => pc[x] # "idle"
      BY DEF Publishing
    <3> QED
      BY <1>3, <3>1, <3>2, <3>3 DEF PublishersOf
  <2>4. pending'[t] = IF Text(d) = t THEN pending[t] - 1 ELSE pending[t]
    BY <1>3, <2>1 DEF TypeOK
  <2>5. pending'[t] = Cardinality(PublishersOf(t)')
    <3>1. Text(d) = t => d \in PublishersOf(t)
      BY <2>1 DEF PublishersOf, Publishing
    <3>2. CASE Text(d) = t
      <4>1. Cardinality(PublishersOf(t) \ {d}) = Cardinality(PublishersOf(t)) - 1
        BY <1>1, <3>1, <3>2, FS_RemoveElement
      <4> QED
        BY <1>1, <2>3, <2>4, <3>2, <4>1
    <3>3. CASE Text(d) # t
      BY <1>1, <2>3, <2>4, <3>3
    <3> QED
      BY <3>2, <3>3
  <2>6. pending'[t] \in Nat
    <3>1. IsFiniteSet(PublishersOf(t)')
      BY <1>1, <2>3, FS_RemoveElement
    <3> QED
      BY <2>5, <3>1, FS_CardinalityType
  <2>7. ASSUME NEW x \in Deliveries, pc'[x] = "wait", Text(x)' = t
        PROVE  pending'[t] > 0
    <3>1. x # d /\ pc[x] = "wait"
      BY <1>8, <2>2, <2>7, OthersStay
    <3>2. Text(x) = t
      BY <1>3, <2>7, <3>1
    <3>3. CASE Text(d) = t
      BY <1>8, <2>6, <2>7, <3>1, <3>2, <3>3, OthersStay
    <3>4. CASE Text(d) # t
      BY <2>4, <3>1, <3>2, <3>4 DEF RegistryIsExact
    <3> QED
      BY <3>3, <3>4
  <2> QED
    BY <2>5, <2>7
<1>9. CASE /\ ~Crash
           /\ \A d \in Deliveries : ~W2CFinish(d) /\ ~(W2CEnsure(d) /\ pc'[d] = "publish")
  <2>1. pending' = pending
    BY <1>9, PendingChanges, EnsureCounts
  <2>2. PublishersOf(t)' = PublishersOf(t)
    <3>1. \A x \in Deliveries : Publishing(x)' <=> Publishing(x)
      BY <1>9, PublishingChanges
    <3>2. \A x \in Deliveries : Publishing(x) => pc[x] # "idle"
      BY DEF Publishing
    <3> QED
      BY <1>3, <3>1, <3>2 DEF PublishersOf
  <2>3. ASSUME NEW x \in Deliveries, pc'[x] = "wait", Text(x)' = t
        PROVE  pending[t] > 0
    <3>1. pc[x] # "idle" /\ Text(x) = t
      BY <1>3, <1>4, <2>3
    <3>2. CASE pc[x] = "wait"
      BY <3>1, <3>2 DEF RegistryIsExact
    <3>3. CASE C2WJoin(x)
      BY <1>5, <2>3, <3>1, <3>3 DEF C2WJoin, Goto, TypeOK
    <3> QED
      BY <2>3, <3>2, <3>3, PlaceChanges, HandlerGoes
  <2> QED
    BY <1>1, <2>1, <2>2, <2>3
<1> QED
  BY <1>6, <1>7, <1>8, <1>9

-----------------------------------------------------------------------------
(* Types.                                                                  *)

\* What the statements write are rows.
LEMMA RowTypes ==
    ASSUME NEW row \in Rows(Deliveries, MessageIds),
           NEW m \in MessageIds \cup {NoMessage}, NEW until \in Int
    PROVE  /\ \A d \in Deliveries :
                 /\ ClaimedRow(d, until) \in Rows(Deliveries, MessageIds)
                 /\ MarkedRow(d, m, until) \in Rows(Deliveries, MessageIds)
           /\ SentRow(m, until) \in Rows(Deliveries, MessageIds)
           /\ ReleasedRow(row) \in Rows(Deliveries, MessageIds)
           /\ [row EXCEPT !.expires = Lapsed] \in Rows(Deliveries, MessageIds)
BY DEF Rows, Statuses, ClaimedRow, MarkedRow, SentRow, ReleasedRow, Lapsed

LEMMA PlatformTypes ==
    ASSUME TypeOK, EventsAreAnnounced, PlacesFitEvents, [Next]_vars
    PROVE  /\ chat' \in [ChatIds -> Chats \cup {NoChat}]
           /\ written' \subseteq WaIds
           /\ sent' \in [ChatIds -> Nat]
           /\ event' \in [Deliveries -> ChatwootEvents \cup EvolutionEvents \cup {NoEvent}]
<1>1. CASE AgentWrites
  BY <1>1 DEF AgentWrites, NewChat, TypeOK, Chats
<1>2. ASSUME NEW w \in WaIds, PersonWrites(w)
      PROVE  written' \subseteq WaIds /\ <<chat, sent, event>>' = <<chat, sent, event>>
  BY <1>2 DEF PersonWrites, TypeOK
<1>3. ASSUME NEW d \in Deliveries, Deliver(d)
      PROVE  /\ event' \in [Deliveries -> ChatwootEvents \cup EvolutionEvents \cup {NoEvent}]
             /\ <<chat, sent, written>>' = <<chat, sent, written>>
  <2>1. Announced \subseteq ChatwootEvents \cup EvolutionEvents
    <3>1. \A w \in written : NativeId(w) \in MessageIds /\ (w \in FromPhone) \in BOOLEAN
      BY IdsDiffer DEF TypeOK
    <3>2. \A c \in ChatIds : EvoId(c) \in MessageIds
      BY IdsDiffer
    <3>3. [from : {"chatwoot"}, chat : {c \in ChatIds : chat[c] # NoChat}]
             \subseteq ChatwootEvents
      BY DEF ChatwootEvents
    <3>4. ASSUME NEW w \in written
          PROVE  [from |-> "evolution", id |-> NativeId(w), own |-> w \in FromPhone]
                    \in EvolutionEvents
      BY <3>1 DEF EvolutionEvents
    <3>5. ASSUME NEW c \in ChatIds
          PROVE  [from |-> "evolution", id |-> EvoId(c), own |-> TRUE] \in EvolutionEvents
      BY <3>2 DEF EvolutionEvents
    <3> QED
      BY <3>3, <3>4, <3>5 DEF Announced
  <2> QED
    BY <1>3, <2>1 DEF Deliver, TypeOK, platforms
<1>4. ASSUME NEW d \in Deliveries, W2CCreateIncoming(d) \/ W2CPublish(d)
      PROVE  /\ chat' \in [ChatIds -> Chats \cup {NoChat}]
             /\ <<sent, written, event>>' = <<sent, written, event>>
  <2>1. pc[d] # "idle" /\ ~IsC2W(d)
    BY <1>4 DEF W2CCreateIncoming, W2CPublish, PlacesFitEvents, IsOwn, IsC2W
  <2>2. event[d].id \in MessageIds /\ Text(d) \in AgentTexts
    BY <2>1, EventFacts, TextFacts
  <2>3. \A dir \in {"in", "out"} :
           [dir |-> dir, by |-> event[d].id, text |-> Text(d)] \in Chats
    BY <2>2 DEF Chats
  <2>4. CASE W2CCreateIncoming(d)
    BY <2>3, <2>4 DEF W2CCreateIncoming, NewChat, TypeOK
  <2>5. CASE W2CPublish(d)
    BY <2>3, <2>5 DEF W2CPublish, NewChat, TypeOK
  <2> QED
    BY <1>4, <2>4, <2>5
<1>5. ASSUME NEW d \in Deliveries, C2WSend(d)
      PROVE  /\ sent' \in [ChatIds -> Nat]
             /\ <<chat, written, event>>' = <<chat, written, event>>
  <2>1. sent' = sent \/ sent' = [sent EXCEPT ![event[d].chat] = @ + 1]
    BY <1>5 DEF C2WSend
  <2>2. event[d].chat \in ChatIds
    BY <1>5, EventFacts DEF C2WSend, PlacesFitEvents
  <2> QED
    BY <1>5, <2>1, <2>2 DEF C2WSend, TypeOK
<1>6. ASSUME NEW d \in Deliveries, Handler(d)
      PROVE  \/ W2CCreateIncoming(d) \/ W2CPublish(d) \/ C2WSend(d)
             \/ <<chat, sent, written, event>>' = <<chat, sent, written, event>>
  BY <1>6 DEF Handler, Paused, Claim, ClaimReadStatus, Release, Complete, C2WAdmit,
     C2WJoin, C2WWaitTimeout, C2WLimited, C2WMark, W2CAdmit, W2COrigin,
     W2CEnsure, W2CSuppress, W2CPair, W2CFinish, W2CKeep, platforms
<1>7. ASSUME <<chat, sent, written, event>>' = <<chat, sent, written, event>>
      PROVE  /\ chat' \in [ChatIds -> Chats \cup {NoChat}]
             /\ written' \subseteq WaIds
             /\ sent' \in [ChatIds -> Nat]
             /\ event' \in [Deliveries -> ChatwootEvents \cup EvolutionEvents \cup {NoEvent}]
  BY <1>7 DEF TypeOK
<1>8. CASE UNCHANGED vars \/ SetPaused \/ Crash \/ \E k \in Keys : ClaimLapses(k)
  BY <1>7, <1>8 DEF SetPaused, Crash, ClaimLapses, platforms, vars
<1>9. AgentWrites => <<sent, written, event>>' = <<sent, written, event>>
  BY DEF AgentWrites
<1> QED
  BY <1>1, <1>2, <1>3, <1>4, <1>5, <1>6, <1>7, <1>8, <1>9, StepCases DEF TypeOK

LEMMA TableTypes ==
    ASSUME TypeOK, EventsAreAnnounced, PlacesFitEvents, [Next]_vars
    PROVE  table' \in [Keys -> Rows(Deliveries, MessageIds)]
<1>1. table' = [k \in Keys |-> table'[k]]
  <2>1. ASSUME NEW d \in Deliveries, Handler(d)
        PROVE  table' = [k \in Keys |-> table'[k]]
    BY <2>1 DEF Handler, Paused, Claim, ClaimReadStatus, Release, Complete, C2WAdmit,
       C2WJoin, C2WWaitTimeout, C2WLimited, C2WMark, C2WSend, W2CAdmit, W2COrigin,
       W2CEnsure, W2CCreateIncoming, W2CPublish, W2CSuppress, W2CPair, W2CFinish,
       W2CKeep, SetRow, DBFails, TypeOK
  <2> QED
    BY <2>1, StepCases DEF AgentWrites, SetPaused, PersonWrites, ClaimLapses, Deliver,
                           Crash, SetRow, TypeOK, vars
<1>2. ASSUME NEW k \in Keys, table'[k] # table[k]
      PROVE  table'[k] \in Rows(Deliveries, MessageIds)
  <2>1. table[k] \in Rows(Deliveries, MessageIds)
    BY DEF TypeOK
  <2>2. ASSUME NEW d \in Deliveries, C2WMark(d) \/ (Complete(d) /\ IsC2W(d))
        PROVE  EvoId(event[d].chat) \in MessageIds
    <3>1. pc[d] # "idle" /\ IsC2W(d)
      BY <2>2 DEF C2WMark, Complete, PlacesFitEvents
    <3> QED
      BY <3>1, EventFacts, IdsDiffer
  <2> DEFINE row == table'[k]
  <2>3. \/ row = [table[k] EXCEPT !.expires = Lapsed]
        \/ \E d \in Deliveries : row = ClaimedRow(d, IdempotencyTTL)
        \/ \E d \in Deliveries : row = ClaimedRow(d, TwoMinutes)
        \/ row = ReleasedRow(table[k])
        \/ row = SentRow(NoMessage, IdempotencyTTL)
        \/ \E d \in Deliveries : /\ C2WMark(d)
              /\ row = MarkedRow(d, EvoId(event[d].chat), IdempotencyTTL)
        \/ \E d \in Deliveries : /\ Complete(d) /\ IsC2W(d)
              /\ row = SentRow(EvoId(event[d].chat), IdempotencyTTL)
    <3> HIDE DEF row
    <3> QED
      BY <1>2, RowChanges DEF row
  <2>4. IdempotencyTTL \in Int /\ TwoMinutes \in Int
    BY DEF IdempotencyTTL, TwoMinutes
  <2>5. \A m \in MessageIds \cup {NoMessage}, until \in Int :
           /\ \A d \in Deliveries :
                 /\ ClaimedRow(d, until) \in Rows(Deliveries, MessageIds)
                 /\ MarkedRow(d, m, until) \in Rows(Deliveries, MessageIds)
           /\ SentRow(m, until) \in Rows(Deliveries, MessageIds)
           /\ ReleasedRow(table[k]) \in Rows(Deliveries, MessageIds)
           /\ [table[k] EXCEPT !.expires = Lapsed] \in Rows(Deliveries, MessageIds)
    BY <2>1, RowTypes
  <2> HIDE DEF row
  <2> QED
    BY <2>2, <2>3, <2>4, <2>5 DEF row
<1> QED
  BY <1>1, <1>2 DEF TypeOK

LEMMA ControlTypes ==
    ASSUME TypeOK, [Next]_vars
    PROVE  /\ pc' = [d \in Deliveries |-> pc'[d]]
           /\ \A d \in Deliveries : pc'[d] \in Answers \cup
                {"idle", "crashed", "start", "claim", "lost", "release", "complete",
                 "join", "wait", "limit", "send", "origin", "ensure", "create",
                 "publish", "suppress", "pair", "finish", "keep"}
           /\ made' \in [Deliveries -> ChatIds \cup {0}]
           /\ after' \in [Deliveries -> {"ok", "keep", "release"}]
<1>1. pc' = [d \in Deliveries |-> pc'[d]]
  <2>1. ASSUME NEW d \in Deliveries, Handler(d)
        PROVE  pc' = [x \in Deliveries |-> pc'[x]]
    BY <2>1 DEF Handler, Paused, Claim, ClaimReadStatus, Release, Complete, C2WAdmit,
       C2WJoin, C2WWaitTimeout, C2WLimited, C2WMark, C2WSend, W2CAdmit, W2COrigin,
       W2CEnsure, W2CCreateIncoming, W2CPublish, W2CSuppress, W2CPair, W2CFinish,
       W2CKeep, Goto, DBFails, TypeOK
  <2> QED
    BY <2>1, StepCases DEF AgentWrites, SetPaused, PersonWrites, ClaimLapses, Deliver,
                           Crash, Goto, TypeOK, vars
<1>2. ASSUME NEW d \in Deliveries, Handler(d)
      PROVE  pc'[d] \in Answers \cup
                {"claim", "lost", "release", "complete", "join", "wait", "limit", "send",
                 "origin", "ensure", "create", "publish", "suppress", "pair", "finish",
                 "keep"}
  <2>1. CASE Paused(d) \/ Claim(d) \/ ClaimReadStatus(d) \/ Release(d) \/ Complete(d)
    BY <2>1 DEF Paused, Claim, ClaimReadStatus, Release, Complete, Goto, DBFails,
                Answers, TypeOK
  <2>2. CASE C2WAdmit(d) \/ C2WJoin(d) \/ C2WWaitTimeout(d) \/ C2WLimited(d) \/ C2WMark(d)
    BY <2>2 DEF C2WAdmit, C2WJoin, C2WWaitTimeout, C2WLimited, C2WMark, Goto, DBFails,
                Answers, TypeOK
  <2>3. CASE C2WSend(d)
    BY <2>3 DEF C2WSend, Goto, Answers, TypeOK
  <2>4. CASE W2CAdmit(d) \/ W2COrigin(d)
    BY <2>4 DEF W2CAdmit, W2COrigin, Goto, Answers, TypeOK
  <2>5. CASE W2CEnsure(d)
    BY <2>5 DEF W2CEnsure, Goto, TypeOK
  <2>6. CASE W2CCreateIncoming(d)
    BY <2>6 DEF W2CCreateIncoming, Goto, TypeOK
  <2>7. CASE W2CPublish(d) \/ W2CSuppress(d) \/ W2CPair(d) \/ W2CKeep(d)
    BY <2>7 DEF W2CPublish, W2CSuppress, W2CPair, W2CKeep, Goto, DBFails, Answers, TypeOK
  <2>8. CASE W2CFinish(d)
    BY <2>8 DEF W2CFinish, Answers, TypeOK
  <2> QED
    BY <1>2, <2>1, <2>2, <2>3, <2>4, <2>5, <2>6, <2>7, <2>8 DEF Handler
<1>3. made' \in [Deliveries -> ChatIds \cup {0}]
  <2>1. ASSUME NEW d \in Deliveries, W2CPublish(d)
        PROVE  made' \in [Deliveries -> ChatIds \cup {0}]
    BY <2>1 DEF W2CPublish, TypeOK
  <2>2. ASSUME NEW d \in Deliveries, Handler(d)
        PROVE  W2CPublish(d) \/ made' = made
    BY <2>2 DEF Handler, Paused, Claim, ClaimReadStatus, Release, Complete, C2WAdmit,
       C2WJoin, C2WWaitTimeout, C2WLimited, C2WMark, C2WSend, W2CAdmit, W2COrigin,
       W2CEnsure, W2CCreateIncoming, W2CSuppress, W2CPair, W2CFinish, W2CKeep
  <2> QED
    BY <2>1, <2>2, StepCases DEF AgentWrites, SetPaused, Crash, PersonWrites,
                                 ClaimLapses, Deliver, TypeOK, vars
<1>4. after' \in [Deliveries -> {"ok", "keep", "release"}]
  <2>1. ASSUME NEW d \in Deliveries, W2CPublish(d) \/ W2CPair(d)
        PROVE  after' \in [Deliveries -> {"ok", "keep", "release"}]
    BY <2>1 DEF W2CPublish, W2CPair, TypeOK
  <2>2. ASSUME NEW d \in Deliveries, Handler(d)
        PROVE  W2CPublish(d) \/ W2CPair(d) \/ after' = after
    BY <2>2 DEF Handler, Paused, Claim, ClaimReadStatus, Release, Complete, C2WAdmit,
       C2WJoin, C2WWaitTimeout, C2WLimited, C2WMark, C2WSend, W2CAdmit, W2COrigin,
       W2CEnsure, W2CCreateIncoming, W2CSuppress, W2CFinish, W2CKeep
  <2> QED
    BY <2>1, <2>2, StepCases DEF AgentWrites, SetPaused, Crash, PersonWrites,
                                 ClaimLapses, Deliver, TypeOK, vars
<1> QED
  BY <1>1, <1>2, <1>3, <1>4, PlaceChanges DEF TypeOK

LEMMA AuditTypes ==
    ASSUME TypeOK, EventsAreAnnounced, PlacesFitEvents, MadeIsMine, [Next]_vars
    PROVE  audit' \subseteq [key : Keys, status : {"ok", "skipped", "error"}]
<1>1. ASSUME NEW d \in Deliveries, Release(d) \/ Complete(d) \/ W2CKeep(d)
      PROVE  audit' \subseteq [key : Keys, status : {"ok", "skipped", "error"}]
  <2>1. KeyOf(d) \in Keys
    BY <1>1, EventFacts DEF Release, Complete, W2CKeep
  <2> QED
    BY <1>1, <2>1 DEF Release, Complete, W2CKeep, Log, TypeOK
<1>2. ASSUME NEW d \in Deliveries, W2CPair(d)
      PROVE  audit' \subseteq [key : Keys, status : {"ok", "skipped", "error"}]
  <2>1. KeyOf(d) \in Keys /\ C2WKey(made[d]) \in Keys
    BY <1>2, PairFacts
  <2> QED
    BY <1>2, <2>1 DEF W2CPair, TypeOK
<1>3. ASSUME NEW d \in Deliveries, Handler(d)
      PROVE  Release(d) \/ Complete(d) \/ W2CKeep(d) \/ W2CPair(d) \/ audit' = audit
  BY <1>3 DEF Handler, Paused, Claim, ClaimReadStatus, C2WAdmit, C2WJoin,
     C2WWaitTimeout, C2WLimited, C2WMark, C2WSend, W2CAdmit, W2COrigin, W2CEnsure,
     W2CCreateIncoming, W2CPublish, W2CSuppress, W2CFinish
<1> QED
  BY <1>1, <1>2, <1>3, StepCases DEF AgentWrites, SetPaused, Crash, PersonWrites,
                                     ClaimLapses, Deliver, TypeOK, vars

\* The count that finishManual takes one from is never zero.
LEMMA PendingTypes ==
    ASSUME TypeOK, EventsAreAnnounced, RegistryIsExact, [Next]_vars
    PROVE  pending' \in [AgentTexts -> Nat]
<1>1. ASSUME NEW d \in Deliveries, W2CEnsure(d)
      PROVE  pending' \in [AgentTexts -> Nat]
  BY <1>1, EnsureCounts DEF TypeOK
<1>2. ASSUME NEW d \in Deliveries, W2CFinish(d)
      PROVE  pending' \in [AgentTexts -> Nat]
  <2>1. pc[d] = "finish" /\ pending' = [pending EXCEPT ![Text(d)] = @ - 1]
    BY <1>2 DEF W2CFinish
  <2>2. Text(d) \in AgentTexts
    BY <2>1, TextFacts
  <2>3. d \in PublishersOf(Text(d)) /\ IsFiniteSet(PublishersOf(Text(d)))
    BY <2>1, BridgeAssumption, FS_Subset DEF PublishersOf, Publishing
  <2>4. Cardinality(PublishersOf(Text(d))) > 0
    BY <2>3, FS_EmptySet, FS_CardinalityType
  <2>5. pending[Text(d)] > 0
    BY <2>2, <2>4 DEF RegistryIsExact, PublishersOf, Publishing
  <2> QED
    BY <2>1, <2>2, <2>5 DEF TypeOK
<1>3. Crash => pending' \in [AgentTexts -> Nat]
  BY DEF Crash
<1> QED
  BY <1>1, <1>2, <1>3, PendingChanges DEF TypeOK

LEMMA TypeStep ==
    ASSUME IInv, [Next]_vars
    PROVE  TypeOK'
<1> USE DEF IInv
<1>1. dbPaused' \in BOOLEAN /\ crashes' \in 0..MaxCrashes
  <2>1. ASSUME NEW d \in Deliveries, Handler(d)
        PROVE  dbPaused' = dbPaused /\ crashes' = crashes
    BY <2>1 DEF Handler, Paused, Claim, ClaimReadStatus, Release, Complete, C2WAdmit,
       C2WJoin, C2WWaitTimeout, C2WLimited, C2WMark, C2WSend, W2CAdmit, W2COrigin,
       W2CEnsure, W2CCreateIncoming, W2CPublish, W2CSuppress, W2CPair, W2CFinish, W2CKeep
  <2>2. CASE Crash
    BY <2>2, BridgeAssumption DEF Crash, TypeOK
  <2>3. CASE SetPaused
    BY <2>3 DEF SetPaused, TypeOK
  <2> QED
    BY <2>1, <2>2, <2>3, StepCases DEF AgentWrites, PersonWrites, ClaimLapses, Deliver,
                                       TypeOK, vars
<1>2. pc' \in [Deliveries -> Answers \cup
                {"idle", "crashed", "start", "claim", "lost", "release", "complete",
                 "join", "wait", "limit", "send", "origin", "ensure", "create",
                 "publish", "suppress", "pair", "finish", "keep"}]
  BY ControlTypes
<1> QED
  BY <1>1, <1>2, PlatformTypes, TableTypes, ControlTypes, AuditTypes, PendingTypes
  DEF TypeOK

-----------------------------------------------------------------------------
(* The theorems.                                                           *)

LEMMA InitIInv ==
    Init => IInv
<1> SUFFICES ASSUME Init PROVE IInv
  OBVIOUS
<1>1. TypeOK
  <2>1. AbsentRow \in Rows(Deliveries, MessageIds)
    BY DEF AbsentRow, Rows, Statuses
  <2>2. 0 \in 0..MaxCrashes
    BY BridgeAssumption
  <2> QED
    BY <2>1, <2>2 DEF Init, TypeOK
<1>2. EventsAreAnnounced /\ PlacesFitEvents /\ MadeIsMine
  BY DEF Init, EventsAreAnnounced, PlacesFitEvents, MadeIsMine, IsC2W, NoEvent
<1>3. EvoFitsKey /\ SentMeansArrived /\ ManualPairIsAtomic
  <2>1. \A k \in Keys : table[k].status = "absent" /\ table[k].evo = NoMessage
    BY DEF Init, AbsentRow
  <2>2. \A w \in FromPhone : W2CKey(NativeId(w), TRUE) \in Keys
    BY KeysDiffer, IdsDiffer DEF WaIds
  <2> QED
    BY <2>1, <2>2, KeysDiffer DEF EvoFitsKey, SentMeansArrived, ManualPairIsAtomic
<1>4. ConfirmersArrived
  BY DEF Init, ConfirmersArrived
<1>5. RegistryIsExact
  <2>1. \A t \in AgentTexts : PublishersOf(t) = {}
    BY DEF Init, PublishersOf, Publishing
  <2> QED
    BY <2>1, FS_EmptySet DEF Init, RegistryIsExact, PublishersOf, Publishing
<1> QED
  BY <1>1, <1>2, <1>3, <1>4, <1>5 DEF IInv

LEMMA NextIInv ==
    IInv /\ [Next]_vars => IInv'
BY TypeStep, EventsStep, PlacesStep, MadeStep, EvoStep, SentMeansArrivedStep,
   ConfirmersStep, ManualPairStep, RegistryStep DEF IInv

\* The inductive invariant holds, whatever the outcomes of calls, however often
\* the connector crashes, claims lapse or the database fails.
THEOREM Invariant ==
    Spec => []IInv
BY InitIInv, NextIInv, PTL DEF Spec

\* Every variable of the two handlers keeps its type; in particular the counts
\* of manualOutgoing never become negative.
THEOREM TypeCorrect ==
    Spec => []TypeOK
<1>1. IInv => TypeOK
  BY DEF IInv
<1> QED
  BY Invariant, <1>1, PTL

\* The row of a manual message and the row that suppresses its return through
\* Chatwoot's webhook become sent together (CompleteManualOutgoing).
THEOREM ManualPairAtomic ==
    Spec => []ManualPairIsAtomic
<1>1. IInv => ManualPairIsAtomic
  BY DEF IInv
<1> QED
  BY Invariant, <1>1, PTL

\* manualOutgoing counts the publications under way, and no handler waits for
\* a text that nobody is publishing (beginManualOutgoing, finishManual).
THEOREM RegistryExact ==
    Spec => []RegistryIsExact
<1>1. IInv => RegistryIsExact
  BY DEF IInv
<1> QED
  BY Invariant, <1>1, PTL

\* HTTP 200 is answered only for what has reached the other side.
THEOREM AcknowledgedDelivered ==
    Spec => []AcknowledgedIsDelivered
<1>1. IInv => AcknowledgedIsDelivered
  <2> SUFFICES ASSUME IInv, NEW d \in Deliveries, Acknowledges(pc[d])
               PROVE  IF IsC2W(d)
                        THEN LET c == event[d].chat IN
                             chat[c].dir = "out" /\ chat[c].by = Agent => sent[c] > 0
                        ELSE \/ Publications(event[d].id) # {}
                             \/ \E c \in ChatIds : event[d].id = EvoId(c) /\ sent[c] > 0
    BY DEF AcknowledgedIsDelivered
  <2> USE DEF IInv
  <2>1. pc[d] \in {"ok", "duplicate", "skipped"} /\ pc[d] # "idle"
    BY DEF Acknowledges
  <2>2. CASE pc[d] # "skipped"
    <3>1. table[KeyOf(d)].status = "sent"
      BY <2>1, <2>2 DEF ConfirmersArrived
    <3>2. CASE IsC2W(d)
      BY <2>1, <3>1, <3>2, EventFacts DEF SentMeansArrived
    <3>3. CASE ~IsC2W(d)
      BY <2>1, <3>1, <3>3, EventFacts DEF SentMeansArrived
    <3> QED
      BY <3>2, <3>3
  <2>3. CASE pc[d] = "skipped" /\ IsC2W(d)
    BY <2>3 DEF ConfirmersArrived
  <2>4. CASE pc[d] = "skipped" /\ ~IsC2W(d)
    <3>1. PICK c \in ChatIds : event[d].id = EvoId(c)
      BY <2>4 DEF ConfirmersArrived
    <3>2. \A w \in written : event[d].id # NativeId(w)
      BY <3>1, IdsDiffer DEF TypeOK
    <3> QED
      BY <2>1, <2>4, <3>2, EventFacts
  <2> QED
    BY <2>2, <2>3, <2>4
<1> QED
  BY Invariant, <1>1, PTL

\* What was answered ok or duplicate is never sent or published again by a
\* handler that holds the claim.
THEOREM AcknowledgedFinal ==
    Spec => AcknowledgedIsFinal
<1> DEFINE Final == \A d, e \in Deliveries :
          /\ Working(d) /\ Holds(d) /\ pc'[d] # pc[d] /\ <<chat, sent>>' # <<chat, sent>>
          /\ pc[e] \in {"ok", "duplicate"}
          => KeyOf(e) # KeyOf(d)
<1>1. IInv => Final
  <2>1. ASSUME IInv, NEW e \in Deliveries, pc[e] \in {"ok", "duplicate"}
        PROVE  table[KeyOf(e)].status = "sent"
    BY <2>1 DEF IInv, ConfirmersArrived
  <2> QED
    BY <2>1 DEF Holds, ActiveClaim
<1> HIDE DEF Final
<1>2. IInv => [Final]_vars
  BY <1>1
<1>3. Spec => [][Final]_vars
  BY Invariant, <1>2, PTL
<1> QED
  BY <1>3 DEF Final, AcknowledgedIsFinal

-----------------------------------------------------------------------------
(* The kill switch.                                                        *)

\* While the bridge is paused every handler past its look at the switch works
\* on a message that was in work when the pause began.
AdmittedBefore ==
    IsPaused => \A d \in Deliveries : Admitted(d) => Subject(event[d]) \in underWay

\* Copies are made by the handlers that send or publish, of the message their
\* webhook tells of.
LEMMA CopyIsOfSubject ==
    ASSUME IInv, [Next]_vars, NEW m \in AbsMessages, Copies'[m] # Copies[m]
    PROVE  \E d \in Deliveries : Admitted(d) /\ Subject(event[d]) = m
<1> USE DEF IInv
<1>1. CASE m \in {InChatwoot(c) : c \in ChatIds}
  <2>1. PICK c \in ChatIds : m = InChatwoot(c)
    BY <1>1
  <2>2. m.in = "chatwoot" /\ m.chat = c
    BY <2>1 DEF InChatwoot
  <2>3. Copies[m] = sent[c] /\ Copies'[m] = sent'[c]
    BY <2>2 DEF Copies
  <2>4. PICK d \in Deliveries : C2WSend(d) /\ event[d].chat = c
    BY <2>3, SentChanges
  <2>5. pc[d] = "send" /\ IsC2W(d)
    BY <2>4 DEF C2WSend, PlacesFitEvents
  <2> QED
    BY <2>1, <2>4, <2>5 DEF Admitted, Working, Answers, Subject, IsC2W
<1>2. CASE m \in {InWhatsApp(id) : id \in MessageIds}
  <2>1. PICK id \in MessageIds : m = InWhatsApp(id)
    BY <1>2
  <2>2. m.in = "whatsapp" /\ m.id = id
    BY <2>1 DEF InWhatsApp
  <2>3. Publications(id)' # Publications(id)
    <3>1. Copies[m] = Cardinality(Publications(id))
      BY <2>2 DEF Copies
    <3>2. Copies'[m] = Cardinality(Publications(id)')
      BY <2>2 DEF Copies
    <3> QED
      BY <3>1, <3>2
  <2>4. PICK c \in ChatIds : chat'[c] # chat[c] /\ chat'[c].by = id
    BY <2>3, PlatformsLast DEF Publications
  <2>5. id # Agent
    BY IdsDiffer
  <2>6. PICK d \in Deliveries : /\ W2CCreateIncoming(d) \/ W2CPublish(d)
                                /\ event[d].id = id
    <3>1. \A t \in AgentTexts : chat'[c] # [dir |-> "out", by |-> Agent, text |-> t]
      BY <2>4, <2>5
    <3>2. \/ \E x \in Deliveries :
                /\ W2CCreateIncoming(x)
                /\ chat'[c] = [dir |-> "in", by |-> event[x].id, text |-> Text(x)]
          \/ \E x \in Deliveries :
                /\ W2CPublish(x)
                /\ chat'[c] = [dir |-> "out", by |-> event[x].id, text |-> Text(x)]
      <4>1. TypeOK /\ c \in ChatIds /\ chat'[c] # chat[c]
        BY <2>4
      <4> HIDE DEF IInv
      <4> QED
        BY <4>1, <3>1, ChatChanges
    <3>3. PICK x \in Deliveries : /\ W2CCreateIncoming(x) \/ W2CPublish(x)
                                  /\ \E s \in {"in", "out"} : chat'[c] =
                                        [dir |-> s, by |-> event[x].id, text |-> Text(x)]
      BY <3>2
    <3>4. chat'[c].by = event[x].id
      BY <3>3
    <3> QED
      BY <2>4, <3>3, <3>4
  <2>7. pc[d] \in {"create", "publish"} /\ ~IsC2W(d)
    BY <2>6 DEF W2CCreateIncoming, W2CPublish, PlacesFitEvents, IsOwn, IsC2W
  <2> QED
    BY <2>1, <2>6, <2>7 DEF Admitted, Working, Answers, Subject, IsC2W
<1> QED
  BY <1>1, <1>2 DEF AbsMessages

\* Nobody passes the switch while it is on and can be read.
LEMMA AdmittedInTime ==
    ASSUME IInv, [Next]_vars, ~MayFailDB \/ EnvPaused, IsPaused,
           NEW d \in Deliveries, Admitted(d)'
    PROVE  Admitted(d) /\ event'[d] = event[d]
<1> USE DEF IInv
<1>1. pc'[d] \notin Answers \cup {"idle", "crashed", "start"}
  BY DEF Admitted, Working
<1>2. event'[d] = event[d]
  BY <1>1, EventChanges
<1>3. CASE pc'[d] = pc[d]
  BY <1>1, <1>2, <1>3 DEF Admitted, Working
<1>4. CASE pc'[d] # pc[d] /\ ~Handler(d)
  <2>1. pc[d] = "wait"
    BY <1>1, <1>4, PlaceChanges
  <2> QED
    BY <1>2, <2>1 DEF Admitted, Working, Answers
<1>5. CASE Handler(d)
  <2>1. FALSE \notin PauseReads
    BY BridgeAssumption DEF PauseReads, IsPaused
  <2>2. pc[d] \notin Answers \cup {"idle", "crashed"}
    <3>1. CASE W2CFinish(d)
      BY <3>1 DEF W2CFinish, Answers
    <3>2. CASE ~W2CFinish(d)
      BY <1>5, <3>2 DEF Answers, Handler, Paused, Claim, ClaimReadStatus, Release,
         Complete, C2WAdmit, C2WJoin, C2WWaitTimeout, C2WLimited, C2WMark, C2WSend,
         W2CAdmit, W2COrigin, W2CEnsure, W2CCreateIncoming, W2CPublish, W2CSuppress,
         W2CPair, W2CKeep
    <3> QED
      BY <3>1, <3>2
  <2>3. pc[d] # "start"
    <3>1. SUFFICES ASSUME pc[d] = "start" PROVE FALSE
      OBVIOUS
    <3>2. Paused(d)
      BY <1>5, <2>1, <3>1 DEF Handler, Claim, ClaimReadStatus, Release, Complete,
         C2WAdmit, C2WJoin, C2WWaitTimeout, C2WLimited, C2WMark, C2WSend, W2CAdmit,
         W2COrigin, W2CEnsure, W2CCreateIncoming, W2CPublish, W2CSuppress, W2CPair,
         W2CFinish, W2CKeep
    <3>3. pc'[d] = "paused"
      BY <3>2 DEF Paused, Goto, TypeOK
    <3> QED
      BY <1>1, <3>3 DEF Answers
  <2> QED
    BY <1>2, <2>2, <2>3 DEF Admitted, Working
<1> QED
  BY <1>3, <1>4, <1>5

\* Pausing is a step of its own.
LEMMA PauseAlone ==
    ASSUME [Next]_vars, IsPaused' # IsPaused
    PROVE  pc' = pc /\ event' = event
<1>1. dbPaused' # dbPaused
  BY DEF IsPaused
<1>2. ASSUME NEW d \in Deliveries, Handler(d)
      PROVE  dbPaused' = dbPaused
  BY <1>2 DEF Handler, Paused, Claim, ClaimReadStatus, Release, Complete, C2WAdmit,
     C2WJoin, C2WWaitTimeout, C2WLimited, C2WMark, C2WSend, W2CAdmit, W2COrigin,
     W2CEnsure, W2CCreateIncoming, W2CPublish, W2CSuppress, W2CPair, W2CFinish, W2CKeep
<1>3. SetPaused
  BY <1>1, <1>2, StepCases DEF AgentWrites, Crash, PersonWrites, ClaimLapses, Deliver, vars
<1> QED
  BY <1>3 DEF SetPaused

LEMMA AdmittedBeforeStep ==
    ASSUME IInv, AdmittedBefore, ~MayFailDB \/ EnvPaused, [SwitchNext]_switchVars
    PROVE  AdmittedBefore'
<1> SUFFICES ASSUME IsPaused', NEW d \in Deliveries, Admitted(d)'
             PROVE  Subject(event[d])' \in underWay'
  BY DEF AdmittedBefore
<1>1. [Next]_vars
  BY DEF SwitchNext, switchVars, vars
<1>2. CASE IsPaused
  <2>1. Admitted(d) /\ event'[d] = event[d]
    BY <1>1, <1>2, AdmittedInTime
  <2>2. underWay' = underWay
    BY <1>2 DEF SwitchNext, RememberWork, switchVars
  <2>3. Subject(event[d])' = Subject(event[d])
    BY <2>1 DEF Subject
  <2> QED
    BY <1>2, <2>1, <2>2, <2>3 DEF AdmittedBefore
<1>3. CASE ~IsPaused
  <2>1. pc' = pc /\ event' = event
    BY <1>1, <1>3, PauseAlone
  <2>2. underWay' = InWork
    BY <1>3 DEF SwitchNext, RememberWork, switchVars, IsPaused
  <2>3. Admitted(d) /\ Subject(event[d])' = Subject(event[d])
    BY <2>1 DEF Admitted, Working, Subject
  <2> QED
    BY <2>2, <2>3 DEF InWork
<1> QED
  BY <1>2, <1>3

\* While the flag of /admin/pause can be read (or the environment pauses too)
\* nothing crosses during a pause but what a handler had in work when it began,
\* however calls end, claims lapse or the connector crashes.
THEOREM PauseHolds ==
    ASSUME ~MayFailDB \/ EnvPaused
    PROVE  SwitchSpec => PauseHoldsBack
<1> DEFINE HoldsBack == IsPaused => \A m \in AbsMessages \ underWay :
                                        Copies'[m] = Copies[m]
           PInv == IInv /\ AdmittedBefore
<1>1. SwitchInit => PInv
  <2>1. SwitchInit => \A d \in Deliveries : ~Admitted(d)
    BY DEF SwitchInit, Init, Admitted, Working
  <2> QED
    BY <2>1, InitIInv DEF SwitchInit, AdmittedBefore
<1>2. PInv /\ [SwitchNext]_switchVars => PInv'
  <2>1. [SwitchNext]_switchVars => [Next]_vars
    BY DEF SwitchNext, switchVars, vars
  <2> QED
    BY <2>1, NextIInv, AdmittedBeforeStep
<1>3. PInv /\ [SwitchNext]_switchVars => [HoldsBack]_switchVars
  <2> SUFFICES ASSUME PInv, SwitchNext, NEW m \in AbsMessages, IsPaused,
                      Copies'[m] # Copies[m]
               PROVE  m \in underWay
    OBVIOUS
  <2>1. \E d \in Deliveries : Admitted(d) /\ Subject(event[d]) = m
    BY CopyIsOfSubject DEF SwitchNext
  <2> QED
    BY <2>1 DEF AdmittedBefore
<1> HIDE DEF HoldsBack, PInv
<1>4. SwitchSpec => [][HoldsBack]_switchVars
  BY <1>1, <1>2, <1>3, PTL DEF SwitchSpec
<1> QED
  BY <1>4 DEF HoldsBack, PauseHoldsBack

=============================================================================
