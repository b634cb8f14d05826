---------------------------- MODULE CrossingProofs ----------------------------
(***************************************************************************)
(* Bridge implements Crossing while every call is answered truthfully, the *)
(* process lives, the database answers and no handler outlives its claim.  *)
(* Calls may still be refused or fail to be sent, the limiter may refuse,  *)
(* the administrator may pause, and webhooks come late, again and out of   *)
(* order.  Run bridge_lost_publish shows what a lost answer breaks; a      *)
(* garbled answer, a crash or a failed statement between a publication and *)
(* its completion breaks the same.                                         *)
(***************************************************************************)
EXTENDS BridgeOnceProofs

\* Every call that was performed is answered, and nothing fails in between.
Calm ==
    /\ "lost" \notin Outcomes /\ "garbled" \notin Outcomes
    /\ MaxCrashes = 0
    /\ ~MayFailDB

-----------------------------------------------------------------------------
(* The inductive invariant, on top of OnceInv.                             *)

\* Nothing is claimed for a message before it exists; the agent's messages
\* are outgoing.
NoRowsAhead ==
    \A c \in ChatIds :
        /\ table[C2WKey(c)].status # "absent" => chat[c] # NoChat
        /\ chat[c] # NoChat /\ chat[c].by = Agent => chat[c].dir = "out"

\* A message in Chatwoot that the agent would seem to have written, but which
\* the bridge published for the phone.
Copied(c) == chat[c] # NoChat /\ chat[c].dir = "out" /\ chat[c].by # Agent

\* Its publisher is still at work and registered, or its key is suppressed.
CopiesAreGuarded ==
    \A c \in ChatIds : Copied(c) =>
        \/ table[C2WKey(c)].status = "sent"
        \/ \E d \in Deliveries :
              /\ made[d] = c
              /\ pc[d] = "pair" \/ (pc[d] = "suppress" /\ table[C2WKey(c)].status = "absent")

\* Chatwoot's webhook for a copy gets to the claim only when that must fail.
CopiesAreNotClaimed ==
    \A d \in Deliveries :
        IsC2W(d) /\ pc[d] \in {"claim", "lost", "limit", "send", "complete", "release"}
          /\ Copied(event[d].chat) =>
             pc[d] \in {"claim", "lost"} /\ table[KeyOf(d)].status = "sent"

IsIncoming(d) == event[d].from = "evolution" /\ ~event[d].own

\* The two-minute claim of a contact's message is its handler's until that
\* one has completed it or given it up.
IncomingClaimsHold ==
    /\ \A d \in Deliveries :
          IsIncoming(d) /\ pc[d] \in {"ensure", "create", "complete", "release"} =>
              table[KeyOf(d)] = ClaimedRow(d, TwoMinutes)
    /\ \A d \in Deliveries :
          IsIncoming(d) /\ pc[d] \in {"ensure", "create", "release"} =>
              Publications(event[d].id) = {}
    /\ \A w \in FromContact : Publications(NativeId(w)) # {} =>
          \/ table[W2CKey(NativeId(w), FALSE)].status = "sent"
          \/ \E d \in Deliveries :
                pc[d] = "complete" /\ KeyOf(d) = W2CKey(NativeId(w), FALSE)

\* What keeps copies from coming back needs no clock; that a contact's message
\* is published once does (~MayStall).
CopyInv ==
    /\ OnceInv
    /\ NoRowsAhead
    /\ CopiesAreGuarded
    /\ CopiesAreNotClaimed
    /\ NoLoopToWhatsApp

CalmInv ==
    /\ CopyInv
    /\ IncomingClaimsHold
    /\ IncomingPublishedAtMostOnce

-----------------------------------------------------------------------------
(* What calm excludes.                                                     *)

\* Without crashes there is none.
LEMMA NoCrash ==
    ASSUME Calm, TypeOK
    PROVE  ~Crash
BY DEF Calm, TypeOK, Crash

\* A handler moves by its own steps, or is woken.
LEMMA CalmPlaces ==
    ASSUME Calm, TypeOK, [Next]_vars, NEW d \in Deliveries, ~Handler(d), pc[d] # "idle"
    PROVE  \/ pc'[d] = pc[d]
           \/ /\ pc[d] = "wait" /\ pc'[d] = "claim" /\ pending'[Text(d)] = 0
BY NoCrash, PlaceChanges

\* A publication that fails leaves nothing in Chatwoot.
LEMMA PublishCalm ==
    ASSUME Calm, TypeOK, NEW d \in Deliveries, W2CPublish(d)
    PROVE  \/ chat' = chat
           \/ /\ pc'[d] = "suppress" /\ made'[d] \in ChatIds
              /\ \E m : chat' = [chat EXCEPT ![made'[d]] = m]
<1>1. PICK out \in Outcomes :
          IF Performed(out)
            THEN \E c \in ChatIds :
                   /\ NewChat(c, [dir |-> "out", by |-> event[d].id, text |-> Text(d)])
                   /\ made' = [made EXCEPT ![d] = IF out = "ok" THEN c ELSE 0]
                   /\ Goto(d, IF out = "ok" THEN "suppress" ELSE "finish")
            ELSE UNCHANGED <<chat, made>>
  BY DEF W2CPublish
<1>2. Performed(out) => out = "ok"
  BY <1>1 DEF Performed, Calm
<1>3. CASE out = "ok"
  <2>1. PICK c \in ChatIds :
           /\ NewChat(c, [dir |-> "out", by |-> event[d].id, text |-> Text(d)])
           /\ made' = [made EXCEPT ![d] = c]
           /\ Goto(d, "suppress")
    BY <1>1, <1>3 DEF Performed
  <2> QED
    BY <2>1 DEF NewChat, Goto, TypeOK
<1>4. CASE out # "ok"
  BY <1>1, <1>2, <1>4
<1> QED
  BY <1>3, <1>4

\* Neither does a creation.
LEMMA CreateCalm ==
    ASSUME Calm, TypeOK, NEW d \in Deliveries, W2CCreateIncoming(d)
    PROVE  /\ pc'[d] \in {"complete", "keep", "release"}
           /\ pc'[d] # "complete" => chat' = chat
<1>1. PICK out \in Outcomes :
          /\ IF Performed(out)
               THEN \E c \in ChatIds :
                       NewChat(c, [dir |-> "in", by |-> event[d].id, text |-> Text(d)])
               ELSE UNCHANGED chat
          /\ Goto(d, CASE out = "ok"      -> "complete"
                       [] Transport(out)  -> "keep"
                       [] OTHER           -> "release")
  BY DEF W2CCreateIncoming
<1>2. Performed(out) => out = "ok"
  BY <1>1 DEF Performed, Calm
<1>3. out = "ok" => pc'[d] = "complete"
  BY <1>1 DEF Goto, Transport, TypeOK
<1>4. pc'[d] \in {"complete", "keep", "release"}
  BY <1>1 DEF Goto, TypeOK
<1> QED
  BY <1>1, <1>2, <1>3, <1>4

-----------------------------------------------------------------------------
(* Copies of the phone's messages are not sent back.                       *)

\* Who wrote a message that appears in Chatwoot.
LEMMA NewChats ==
    ASSUME TypeOK, [Next]_vars, NEW c \in ChatIds, chat'[c] # chat[c]
    PROVE  \/ chat'[c].dir = "out" /\ chat'[c].by = Agent
           \/ chat'[c].dir = "in" /\ \E d \in Deliveries :
                 W2CCreateIncoming(d) /\ chat'[c].by = event[d].id
           \/ chat'[c].dir = "out" /\ \E d \in Deliveries :
                 W2CPublish(d) /\ chat'[c].by = event[d].id
<1> DEFINE m == chat'[c]
<1>1. \A dir, by, t : /\ [dir |-> dir, by |-> by, text |-> t].dir = dir
                      /\ [dir |-> dir, by |-> by, text |-> t].by = by
  OBVIOUS
<1>2. \/ \E t : m = [dir |-> "out", by |-> Agent, text |-> t]
      \/ \E d \in Deliveries : \E t :
            W2CCreateIncoming(d) /\ m = [dir |-> "in", by |-> event[d].id, text |-> t]
      \/ \E d \in Deliveries : \E t :
            W2CPublish(d) /\ m = [dir |-> "out", by |-> event[d].id, text |-> t]
  <2> HIDE DEF m
  <2> QED
    BY ChatChanges DEF m
<1> HIDE DEF m
<1>3. CASE \E t : m = [dir |-> "out", by |-> Agent, text |-> t]
  BY <1>1, <1>3 DEF m
<1>4. ASSUME NEW d \in Deliveries, NEW t, W2CCreateIncoming(d),
             m = [dir |-> "in", by |-> event[d].id, text |-> t]
      PROVE  m.dir = "in" /\ m.by = event[d].id
  BY <1>1, <1>4
<1>5. ASSUME NEW d \in Deliveries, NEW t, W2CPublish(d),
             m = [dir |-> "out", by |-> event[d].id, text |-> t]
      PROVE  m.dir = "out" /\ m.by = event[d].id
  BY <1>1, <1>5
<1> QED
  BY <1>2, <1>3, <1>4, <1>5 DEF m

LEMMA NoRowsAheadStep ==
    ASSUME IInv, NoRowsAhead, [Next]_vars
    PROVE  NoRowsAhead'
<1> USE DEF IInv
<1>1. ASSUME NEW c \in ChatIds, table'[C2WKey(c)].status # "absent"
      PROVE  chat'[c] # NoChat
  <2>1. SUFFICES chat[c] # NoChat
    BY PlatformsLast
  <2>2. C2WKey(c) \in Keys
    BY KeysDiffer
  <2>3. CASE table'[C2WKey(c)] = table[C2WKey(c)]
    BY <1>1, <2>3 DEF NoRowsAhead
  <2>4. CASE ClaimLapses(C2WKey(c))
    BY <2>4 DEF ClaimLapses, NoRowsAhead
  <2>5. ASSUME NEW d \in Deliveries, C2WKey(c) = KeyOf(d), pc[d] # "idle"
        PROVE  chat[c] # NoChat
    BY <2>5, WhoseKey, EventFacts
  <2>6. ASSUME NEW d \in Deliveries, C2WKey(c) = C2WKey(made[d]),
               pc[d] \in {"suppress", "pair"}
        PROVE  chat[c] # NoChat
    <3>1. c = made[d]
      BY <2>6, KeysDiffer
    <3>2. chat[c] = [dir |-> "out", by |-> event[d].id, text |-> Text(d)]
      BY <2>6, <3>1 DEF MadeIsMine
    <3> QED
      BY <3>2 DEF NoChat
  <2>7. \A d \in Deliveries :
           Claim(d) \/ Release(d) \/ C2WLimited(d) \/ C2WMark(d) \/ Complete(d)
             \/ W2CPair(d) => pc[d] # "idle"
    BY DEF Claim, Release, C2WLimited, C2WMark, Complete, W2CPair
  <2>8. \A d \in Deliveries : W2CSuppress(d) \/ W2CPair(d) => pc[d] \in {"suppress", "pair"}
    BY DEF W2CSuppress, W2CPair
  <2>9. \/ table'[C2WKey(c)] = table[C2WKey(c)]
        \/ ClaimLapses(C2WKey(c))
        \/ \E d \in Deliveries : C2WKey(c) = KeyOf(d) /\ pc[d] # "idle"
        \/ \E d \in Deliveries : C2WKey(c) = C2WKey(made[d]) /\ pc[d] \in {"suppress", "pair"}
    BY <2>2, <2>7, <2>8, RowChanges
  <2> QED
    BY <2>3, <2>4, <2>5, <2>6, <2>9
<1>2. ASSUME NEW c \in ChatIds, chat'[c] # NoChat, chat'[c].by = Agent
      PROVE  chat'[c].dir = "out"
  <2>1. CASE chat'[c] = chat[c]
    BY <1>2, <2>1 DEF NoRowsAhead
  <2>2. CASE chat'[c] # chat[c]
    <3>1. ASSUME NEW d \in Deliveries, W2CCreateIncoming(d)
          PROVE  event[d].id # Agent
      BY <3>1, EventFacts, IdsDiffer DEF W2CCreateIncoming, PlacesFitEvents
    <3> QED
      BY <1>2, <2>2, <3>1, NewChats
  <2> QED
    BY <2>1, <2>2
<1> QED
  BY <1>1, <1>2 DEF NoRowsAhead

\* The pair of an own message completes both rows.
LEMMA PairSucceeds ==
    ASSUME Calm, OnceInv, NEW d \in Deliveries, W2CPair(d)
    PROVE  /\ table'[C2WKey(made[d])].status = "sent"
           /\ table'[KeyOf(d)].status = "sent"
<1> USE DEF OnceInv, IInv
<1>1. pc[d] = "pair" /\ IsOwn(d)
  BY PairFacts
<1>2. table[KeyOf(d)] = ClaimedRow(d, IdempotencyTTL)
  BY <1>1 DEF OwnClaimsHold, OwnAtWork
<1>3. table[C2WKey(made[d])] = ClaimedRow(d, IdempotencyTTL)
  BY <1>1 DEF SendsAreMarked
<1>4. Holds(d) /\ ActiveClaim(table[C2WKey(made[d])], d)
  BY <1>2, <1>3 DEF Holds, ActiveClaim, ClaimedRow
<1>5. table' = [table EXCEPT ![KeyOf(d)] = SentRow(NoMessage, IdempotencyTTL),
                             ![C2WKey(made[d])] = SentRow(NoMessage, IdempotencyTTL)]
  BY <1>4 DEF W2CPair, Calm
<1>6. KeyOf(d) \in Keys /\ C2WKey(made[d]) \in Keys
  BY PairFacts
<1>7. SentRow(NoMessage, IdempotencyTTL).status = "sent"
  BY DEF SentRow
<1> QED
  BY <1>5, <1>6, <1>7 DEF TypeOK

\* A handler learns the id of its publication by publishing.
LEMMA MadeChanges ==
    ASSUME TypeOK, [Next]_vars, NEW d \in Deliveries, made'[d] # made[d]
    PROVE  W2CPublish(d)
<1>1. ASSUME NEW x \in Deliveries, Handler(x)
      PROVE  W2CPublish(x) \/ made' = made
  BY <1>1 DEF Handler, Paused, Claim, ClaimReadStatus, Release, Complete, C2WAdmit,
     C2WJoin, C2WWaitTimeout, C2WLimited, C2WMark, C2WSend, W2CAdmit, W2COrigin,
     W2CEnsure, W2CCreateIncoming, W2CSuppress, W2CPair, W2CFinish, W2CKeep
<1>2. ASSUME NEW x \in Deliveries, W2CPublish(x), x # d
      PROVE  made'[d] = made[d]
  BY <1>2 DEF W2CPublish, TypeOK
<1> QED
  BY <1>1, <1>2, StepCases DEF AgentWrites, SetPaused, Crash, PersonWrites,
                               ClaimLapses, Deliver, vars

\* A copy that appears is guarded by the handler that published it.
LEMMA NewCopyIsGuarded ==
    ASSUME Calm, OnceInv, NoRowsAhead, [Next]_vars,
           NEW c \in ChatIds, chat'[c] # chat[c], Copied(c)'
    PROVE  \E d \in Deliveries :
              /\ made'[d] = c /\ pc'[d] = "suppress"
              /\ table'[C2WKey(c)].status = "absent"
<1> USE DEF OnceInv, IInv
<1>1. chat[c] = NoChat
  BY ChatChanges
<1>2. PICK d \in Deliveries : W2CPublish(d)
  BY NewChats DEF Copied
<1>3. pc'[d] = "suppress" /\ made'[d] = c
  BY <1>2, PublishCalm DEF TypeOK
<1>4. table' = table
  BY <1>2 DEF W2CPublish
<1> QED
  BY <1>1, <1>3, <1>4 DEF NoRowsAhead

LEMMA CopiesAreGuardedStep ==
    ASSUME Calm, OnceInv, NoRowsAhead, CopiesAreGuarded, CopiesAreNotClaimed, [Next]_vars
    PROVE  CopiesAreGuarded'
<1> USE DEF OnceInv, IInv
<1> SUFFICES ASSUME NEW c \in ChatIds, Copied(c)'
             PROVE  \/ table'[C2WKey(c)].status = "sent"
                    \/ \E d \in Deliveries :
                          /\ made'[d] = c
                          /\ \/ pc'[d] = "pair"
                             \/ pc'[d] = "suppress" /\ table'[C2WKey(c)].status = "absent"
  BY DEF CopiesAreGuarded
<1>1. C2WKey(c) \in Keys
  BY KeysDiffer
<1>2. CASE chat'[c] # chat[c]
  BY <1>2, NewCopyIsGuarded
<1>3. CASE chat'[c] = chat[c]
  <2>1. Copied(c)
    BY <1>3 DEF Copied
  <2>2. CASE table[C2WKey(c)].status = "sent"
    BY <1>1, <2>2, SentRowsLast DEF SentMeansArrived
  <2>3. ASSUME NEW d \in Deliveries, made[d] = c, pc[d] = "pair"
        PROVE  table'[C2WKey(c)].status = "sent" \/ (made'[d] = c /\ pc'[d] = "pair")
    <3>1. CASE Handler(d)
      <4>1. W2CPair(d)
        BY <2>3, <3>1 DEF Handler, Paused, Claim, ClaimReadStatus, Release, Complete,
           C2WAdmit, C2WJoin, C2WWaitTimeout, C2WLimited, C2WMark, C2WSend, W2CAdmit,
           W2COrigin, W2CEnsure, W2CCreateIncoming, W2CPublish, W2CSuppress, W2CFinish,
           W2CKeep
      <4> QED
        BY <2>3, <4>1, PairSucceeds
    <3>2. CASE ~Handler(d)
      BY <2>3, <3>2, CalmPlaces, MadeChanges DEF Handler
    <3> QED
      BY <3>1, <3>2
  <2>4. ASSUME NEW d \in Deliveries, made[d] = c, pc[d] = "suppress",
               table[C2WKey(c)].status = "absent"
        PROVE  \E x \in Deliveries :
                  /\ made'[x] = c
                  /\ \/ pc'[x] = "pair"
                     \/ pc'[x] = "suppress" /\ table'[C2WKey(c)].status = "absent"
    <3>1. ASSUME NEW x \in Deliveries, W2CSuppress(x), made[x] = c
          PROVE  made'[x] = c /\ pc'[x] = "pair"
      <4>1. Claimable(table[C2WKey(made[x])], Now)
        BY <2>4, <3>1 DEF Claimable
      <4> QED
        BY <3>1, <4>1 DEF W2CSuppress, Calm, DBFails, Goto, TypeOK
    <3>2. CASE ~Handler(d) /\ table'[C2WKey(c)] = table[C2WKey(c)]
      BY <2>4, <3>2, CalmPlaces, MadeChanges DEF Handler
    <3>3. CASE Handler(d)
      <4>1. W2CSuppress(d)
        BY <2>4, <3>3 DEF Handler, Paused, Claim, ClaimReadStatus, Release, Complete,
           C2WAdmit, C2WJoin, C2WWaitTimeout, C2WLimited, C2WMark, C2WSend, W2CAdmit,
           W2COrigin, W2CEnsure, W2CCreateIncoming, W2CPublish, W2CPair, W2CFinish,
           W2CKeep
      <4> QED
        BY <2>4, <3>1, <4>1
    <3>4. CASE table'[C2WKey(c)] # table[C2WKey(c)]
      <4>1. /\ \A x \in Deliveries : ~ActiveClaim(table[C2WKey(c)], x)
            /\ ~ClaimLapses(C2WKey(c))
        BY <2>4 DEF ActiveClaim, ClaimLapses
      <4>2. ASSUME NEW x \in Deliveries, Claim(x), C2WKey(c) = KeyOf(x)
            PROVE  FALSE
        <5>1. pc[x] = "claim" /\ IsC2W(x) /\ event[x].chat = c
          BY <4>2, WhoseKey DEF Claim
        <5> QED
          BY <2>1, <2>4, <4>2, <5>1 DEF CopiesAreNotClaimed
      <4>3. \E x \in Deliveries : C2WKey(c) = C2WKey(made[x]) /\ W2CSuppress(x)
        BY <1>1, <3>4, <4>1, <4>2, RowChanges
      <4> QED
        BY <3>1, <4>3, KeysDiffer
    <3> QED
      BY <3>2, <3>3, <3>4
  <2> QED
    BY <2>1, <2>2, <2>3, <2>4 DEF CopiesAreGuarded
<1> QED
  BY <1>2, <1>3

\* A set with a member does not count zero.
LEMMA NonEmptyCount ==
    ASSUME NEW S \in SUBSET Deliveries, NEW e \in S
    PROVE  Cardinality(S) # 0
BY BridgeAssumption, FS_Subset, FS_EmptySet

\* Who gets to the claim of a copy finds it suppressed: as long as it is not,
\* its text is being published and waitForManualOutgoing holds him back.
LEMMA ReleasedWhenSuppressed ==
    ASSUME Calm, OnceInv, NoRowsAhead, CopiesAreGuarded, CopiesAreNotClaimed, [Next]_vars,
           NEW d \in Deliveries, pc[d] # "idle", IsC2W(d), Copied(event[d].chat),
           pending'[Text(d)] = 0
    PROVE  table'[KeyOf(d)].status = "sent"
<1> USE DEF OnceInv, IInv
<1>0. PICK c \in ChatIds : c = event[d].chat
  BY EventFacts
<1>1. /\ KeyOf(d) = C2WKey(c) /\ Text(d) = chat[c].text
      /\ Text(d) \in AgentTexts /\ chat[c] # NoChat
  BY <1>0, EventFacts, TextFacts DEF Text
<1>2. chat'[c] = chat[c] /\ Copied(c)'
  <2>1. chat'[c] = chat[c]
    BY <1>1, PlatformsLast
  <2> QED
    BY <1>0, <2>1 DEF Copied
<1>3. SUFFICES ASSUME NEW e \in Deliveries, made'[e] = c, pc'[e] \in {"suppress", "pair"}
               PROVE  FALSE
  <2>1. \/ table'[C2WKey(c)].status = "sent"
        \/ \E e \in Deliveries : made'[e] = c /\ pc'[e] \in {"suppress", "pair"}
    <3>1. CopiesAreGuarded'
      BY CopiesAreGuardedStep
    <3> QED
      BY <1>2, <3>1 DEF CopiesAreGuarded
  <2> QED
    BY <1>1, <2>1
<1>4. MadeIsMine' /\ RegistryIsExact'
  BY MadeStep, RegistryStep
<1>5. chat'[c] = [dir |-> "out", by |-> event'[e].id, text |-> Text(e)']
  BY <1>3, <1>4 DEF MadeIsMine
<1>6. Text(e)' = Text(d)
  BY <1>1, <1>2, <1>5
<1> DEFINE S == {x \in Deliveries :
                    pc'[x] \in {"publish", "suppress", "pair", "finish"} /\ Text(x)' = Text(d)}
<1>7. PICK t \in AgentTexts : t = Text(d)
  BY <1>1
<1>8. pending'[t] = Cardinality({x \in Deliveries :
                    pc'[x] \in {"publish", "suppress", "pair", "finish"} /\ Text(x)' = t})
  BY <1>4 DEF RegistryIsExact
<1>9. Cardinality(S) = 0
  BY <1>7, <1>8
<1>10. e \in S
  BY <1>3, <1>6
<1> HIDE DEF S
<1>11. S \in SUBSET Deliveries
  BY DEF S
<1> QED
  BY <1>9, <1>10, <1>11, NonEmptyCount

LEMMA CopiesAreNotClaimedStep ==
    ASSUME Calm, OnceInv, NoRowsAhead, CopiesAreGuarded, CopiesAreNotClaimed, [Next]_vars
    PROVE  CopiesAreNotClaimed'
<1> USE DEF OnceInv, IInv
<1> DEFINE After == {"claim", "lost", "limit", "send", "complete", "release"}
<1> SUFFICES ASSUME NEW d \in Deliveries, IsC2W(d)', pc'[d] \in After,
                    Copied(event[d].chat)'
             PROVE  pc'[d] \in {"claim", "lost"} /\ table'[KeyOf(d)'].status = "sent"
  BY DEF CopiesAreNotClaimed
<1>1. pc[d] # "idle"
  BY PlaceChanges, HandlerGoes
<1>2. event'[d] = event[d] /\ IsC2W(d) /\ KeyOf(d)' = KeyOf(d) /\ KeyOf(d) \in Keys
  BY <1>1, WebhooksLast, EventFacts
<1>3. Copied(event[d].chat)
  <2>1. event[d].chat \in ChatIds /\ chat[event[d].chat] # NoChat
    BY <1>1, <1>2, EventFacts
  <2>2. chat'[event[d].chat] = chat[event[d].chat]
    BY <2>1, PlatformsLast
  <2> QED
    BY <1>2, <2>1, <2>2 DEF Copied
<1>4. CASE pc[d] \in After
  <2>1. pc[d] \in {"claim", "lost"} /\ table[KeyOf(d)].status = "sent"
    BY <1>2, <1>3, <1>4 DEF CopiesAreNotClaimed
  <2>2. table'[KeyOf(d)] = table[KeyOf(d)]
    BY <1>2, <2>1, SentRowsLast DEF SentMeansArrived
  <2>3. CASE Handler(d)
    <3>1. Claim(d) \/ ClaimReadStatus(d)
      BY <2>1, <2>3 DEF Handler, Paused, Release, Complete, C2WAdmit, C2WJoin,
         C2WWaitTimeout, C2WLimited, C2WMark, C2WSend, W2CAdmit, W2COrigin, W2CEnsure,
         W2CCreateIncoming, W2CPublish, W2CSuppress, W2CPair, W2CFinish, W2CKeep
    <3>2. ~Claimable(table[KeyOf(d)], Now)
      BY <1>2, <2>1 DEF Claimable, SentMeansArrived, IdempotencyTTL, Now
    <3>3. pc'[d] \in {"lost", "duplicate", "busy"}
      BY <3>1, <3>2 DEF Claim, ClaimReadStatus, Calm, DBFails, Goto, TypeOK
    <3> QED
      BY <1>2, <2>1, <2>2, <3>3
  <2> QED
    BY <1>1, <1>2, <2>1, <2>2, <2>3, CalmPlaces
<1>5. CASE pc[d] \notin After
  <2>1. pc'[d] = "claim" /\ pending'[Text(d)] = 0
    <3>1. CASE Handler(d)
      <4>1. ~(Claim(d) \/ C2WMark(d) \/ C2WSend(d) \/ W2CCreateIncoming(d) \/ W2CEnsure(d)
                \/ W2CFinish(d) \/ W2CAdmit(d) \/ W2COrigin(d))
        BY <1>2, <1>5 DEF Claim, C2WMark, C2WSend, W2CCreateIncoming, W2CEnsure,
           W2CFinish, W2CAdmit, W2COrigin, PlacesFitEvents, IsC2W, IsOwn
      <4>2. C2WJoin(d) /\ pc'[d] = "claim"
        BY <1>5, <3>1, <4>1, HandlerGoes
      <4> QED
        BY <4>2 DEF C2WJoin, Goto, TypeOK
    <3> QED
      BY <1>1, <1>5, <3>1, CalmPlaces
  <2> QED
    BY <1>1, <1>2, <1>3, <2>1, ReleasedWhenSuppressed
<1> QED
  BY <1>4, <1>5

LEMMA NoLoopToWhatsAppStep ==
    ASSUME Calm, OnceInv, CopiesAreNotClaimed, NoLoopToWhatsApp, [Next]_vars
    PROVE  NoLoopToWhatsApp'
<1> USE DEF OnceInv, IInv
<1> SUFFICES ASSUME NEW c \in ChatIds, sent'[c] > 0
             PROVE  chat'[c].by = Agent
  BY DEF NoLoopToWhatsApp
<1>1. CASE sent'[c] = sent[c]
  BY <1>1, PlatformsLast DEF NoLoopToWhatsApp, EventsAreAnnounced
<1>2. CASE sent'[c] # sent[c]
  <2>1. PICK d \in Deliveries : C2WSend(d) /\ event[d].chat = c
    BY <1>2, SentChanges
  <2>2. pc[d] = "send" /\ IsC2W(d) /\ chat[c] # NoChat /\ chat[c].dir = "out"
    BY <2>1, EventFacts DEF C2WSend, PlacesFitEvents
  <2>3. chat[c].by = Agent
    BY <2>1, <2>2 DEF CopiesAreNotClaimed, Copied
  <2> QED
    BY <2>2, <2>3, PlatformsLast
<1> QED
  BY <1>1, <1>2

-----------------------------------------------------------------------------
(* A contact's message is published once.                                  *)

\* The key of a contact's message is the one of its id.
LEMMA IncomingFacts ==
    ASSUME IInv, NEW d \in Deliveries, pc[d] # "idle", IsIncoming(d)
    PROVE  /\ ~IsC2W(d) /\ ~IsOwn(d) /\ KeyOf(d) \in Keys
           /\ \E w \in FromContact : /\ event[d].id = NativeId(w)
                                     /\ KeyOf(d) = W2CKey(NativeId(w), FALSE)
<1> USE DEF IInv
<1>1. ~IsC2W(d) /\ ~IsOwn(d) /\ event[d].own = FALSE
  BY EventFacts DEF IsIncoming, IsC2W, IsOwn
<1>2. PICK w \in written : event[d].id = NativeId(w) /\ w \notin FromPhone
  BY <1>1, EventFacts
<1> QED
  BY <1>1, <1>2, EventFacts DEF TypeOK, WaIds

IncomingAtWork(d) == IsIncoming(d) /\ pc[d] \in {"ensure", "create", "complete", "release"}

\* Its handler alone ends the claim of a contact's message.
LEMMA IncomingRowStays ==
    ASSUME Calm, ~MayStall, OnceInv, IncomingClaimsHold, [Next]_vars, NEW d \in Deliveries,
           IncomingAtWork(d), ~Release(d), ~Complete(d)
    PROVE  table'[KeyOf(d)] = table[KeyOf(d)]
<1> USE DEF OnceInv, IInv
<1>1. KeyOf(d) \in Keys
  BY IncomingFacts DEF IncomingAtWork
<1>2. table[KeyOf(d)] = ClaimedRow(d, TwoMinutes)
  BY DEF IncomingClaimsHold, IncomingAtWork
<1>3. /\ table[KeyOf(d)].status = "processing" /\ table[KeyOf(d)].token = d
      /\ table[KeyOf(d)].expires = TwoMinutes
  BY <1>2, RowFields
<1>4. ~ClaimLapses(KeyOf(d))
  BY <1>3 DEF ClaimLapses, Working, Answers, IncomingAtWork
<1>5. ~Claimable(table[KeyOf(d)], Now)
  BY <1>3 DEF Claimable, Now, TwoMinutes
<1>6. \A x \in Deliveries : ActiveClaim(table[KeyOf(d)], x) => x = d
  BY <1>3 DEF ActiveClaim
<1>7. ~(C2WLimited(d) \/ C2WMark(d) \/ W2CPair(d))
  BY DEF C2WLimited, C2WMark, W2CPair, IncomingAtWork
<1> QED
  BY <1>1, <1>4, <1>5, <1>6, <1>7, RowChanges

\* A handler at work on a contact's message holds its fresh claim.
LEMMA IncomingAtWorkStep ==
    ASSUME Calm, ~MayStall, OnceInv, IncomingClaimsHold, [Next]_vars, NEW d \in Deliveries,
           pc[d] # "idle", IncomingAtWork(d)'
    PROVE  /\ table'[KeyOf(d)] = ClaimedRow(d, TwoMinutes)
           /\ \/ Claim(d) /\ Claimable(table[KeyOf(d)], Now)
              \/ IncomingAtWork(d) /\ (pc'[d] # "complete" => pc[d] # "complete")
<1> USE DEF OnceInv, IInv
<1> DEFINE Work == {"ensure", "create", "complete", "release"}
<1>1. IsIncoming(d) /\ pc'[d] \in Work
  BY WebhooksLast DEF IsIncoming, IncomingAtWork
<1>2. ~IsC2W(d) /\ ~IsOwn(d) /\ KeyOf(d) \in Keys
  BY <1>1, IncomingFacts
<1>3. CASE Claim(d)
  <2>1. /\ Claimable(table[KeyOf(d)], Now)
        /\ table' = [table EXCEPT ![KeyOf(d)] = ClaimedRow(d, TwoMinutes)]
    BY <1>1, <1>2, <1>3 DEF Claim, SetRow, Goto, DBFails, TypeOK
  <2> QED
    BY <1>2, <1>3, <2>1 DEF TypeOK
<1>4. CASE ~Claim(d)
  <2>1. IncomingAtWork(d) /\ (pc'[d] # "complete" => pc[d] # "complete")
    <3>1. CASE Handler(d)
      <4>1. ~C2WSend(d) /\ ~W2CFinish(d)
        BY <1>2 DEF C2WSend, W2CFinish, PlacesFitEvents
      <4>2. W2CEnsure(d) \/ W2CCreateIncoming(d)
        BY <1>1, <1>4, <3>1, <4>1, HandlerGoes
      <4> QED
        BY <1>1, <4>2 DEF W2CEnsure, W2CCreateIncoming, IncomingAtWork
    <3>2. CASE ~Handler(d)
      BY <1>1, <3>2, CalmPlaces DEF IncomingAtWork
    <3> QED
      BY <3>1, <3>2
  <2>2. ~Release(d) /\ ~Complete(d)
    BY <1>1 DEF Release, Complete, Goto, DBFails, TypeOK
  <2>3. table[KeyOf(d)] = ClaimedRow(d, TwoMinutes)
    BY <2>1 DEF IncomingClaimsHold, IncomingAtWork
  <2> QED
    BY <2>1, <2>2, <2>3, IncomingRowStays
<1> QED
  BY <1>3, <1>4

\* The handler that publishes a contact's message holds its claim.
LEMMA IncomingPublisher ==
    ASSUME OnceInv, IncomingClaimsHold, NEW w \in FromContact, NEW d \in Deliveries,
           W2CCreateIncoming(d) \/ W2CPublish(d), event[d].id = NativeId(w)
    PROVE  /\ W2CCreateIncoming(d) /\ pc[d] = "create" /\ IsIncoming(d)
           /\ KeyOf(d) = W2CKey(NativeId(w), FALSE)
           /\ table[KeyOf(d)] = ClaimedRow(d, TwoMinutes)
           /\ Publications(NativeId(w)) = {}
<1> USE DEF OnceInv, IInv
<1>1. pc[d] \in {"create", "publish"} /\ ~IsC2W(d)
  BY DEF W2CCreateIncoming, W2CPublish, PlacesFitEvents, IsOwn, IsC2W
<1>2. event[d].own = FALSE
  <2>1. w \in WaIds /\ \A c \in ChatIds : event[d].id # EvoId(c)
    BY IdsDiffer DEF WaIds
  <2>2. \A v \in written : event[d].id = NativeId(v) => v = w
    BY <2>1, NativeIdsDiffer DEF TypeOK
  <2>3. w \notin FromPhone
    BY BridgeAssumption
  <2> QED
    BY <1>1, <2>1, <2>2, <2>3, EventFacts
<1>3. IsIncoming(d) /\ ~IsOwn(d) /\ KeyOf(d) = W2CKey(NativeId(w), FALSE)
  BY <1>1, <1>2, EventFacts DEF IsIncoming
<1>4. W2CCreateIncoming(d) /\ pc[d] = "create"
  BY <1>1, <1>3 DEF W2CCreateIncoming, W2CPublish, PlacesFitEvents
<1> QED
  BY <1>3, <1>4 DEF IncomingClaimsHold

\* Until it has created it, the message is not in Chatwoot.
LEMMA NotYetPublishedIncoming ==
    ASSUME Calm, ~MayStall, OnceInv, IncomingClaimsHold, [Next]_vars, NEW d \in Deliveries,
           pc[d] # "idle", IncomingAtWork(d)', pc'[d] # "complete"
    PROVE  Publications(event[d].id)' = {}
<1> USE DEF OnceInv, IInv
<1>1. IsIncoming(d)
  BY WebhooksLast DEF IsIncoming, IncomingAtWork
<1>2. PICK w \in FromContact : event[d].id = NativeId(w)
                                 /\ KeyOf(d) = W2CKey(NativeId(w), FALSE)
  BY <1>1, IncomingFacts
<1>3. NativeId(w) \in MessageIds
  BY IdsDiffer DEF WaIds
<1>4. Publications(NativeId(w)) = {}
  <2>1. CASE IncomingAtWork(d) /\ pc[d] # "complete"
    BY <1>2, <2>1 DEF IncomingClaimsHold, IncomingAtWork
  <2>2. CASE Claimable(table[KeyOf(d)], Now)
    <3>1. table[KeyOf(d)].status # "sent"
      <4>1. table[KeyOf(d)].status = "sent" => table[KeyOf(d)].expires = IdempotencyTTL
        BY <1>1, IncomingFacts DEF SentMeansArrived
      <4> QED
        BY <2>2, <4>1 DEF Claimable, IdempotencyTTL, Now
    <3>2. ASSUME NEW e \in Deliveries, pc[e] = "complete", KeyOf(e) = KeyOf(d)
          PROVE  FALSE
      <4>1. ~IsC2W(e) /\ ~IsOwn(e)
        BY <1>2, <1>3, <3>2, WhoseKey DEF PlacesFitEvents
      <4>2. IsIncoming(e)
        BY <3>2, <4>1, EventFacts DEF IsIncoming, IsOwn
      <4>3. table[KeyOf(d)] = ClaimedRow(e, TwoMinutes)
        BY <3>2, <4>2 DEF IncomingClaimsHold
      <4> QED
        BY <2>2, <4>3, RowFields DEF Claimable, TwoMinutes, Now
    <3> QED
      BY <1>2, <3>1, <3>2 DEF IncomingClaimsHold
  <2> QED
    BY <2>1, <2>2, IncomingAtWorkStep
<1>5. SUFFICES ASSUME Publications(NativeId(w))' # Publications(NativeId(w))
               PROVE  FALSE
  <2>1. PICK id \in MessageIds : id = event[d].id /\ id = event'[d].id
    BY <1>2, <1>3, WebhooksLast
  <2> QED
    BY <1>2, <1>4, <2>1 DEF Publications
<1>6. PICK x \in Deliveries :
         (W2CCreateIncoming(x) \/ W2CPublish(x)) /\ event[x].id = NativeId(w)
  BY <1>3, <1>5, PublicationChanges
<1>7. W2CCreateIncoming(x) /\ table[KeyOf(d)] = ClaimedRow(x, TwoMinutes)
  BY <1>2, <1>6, IncomingPublisher
<1>8. x = d
  <2>1. table' = table
    BY <1>7 DEF W2CCreateIncoming
  <2>2. table[KeyOf(d)] = ClaimedRow(d, TwoMinutes)
    BY <2>1, IncomingAtWorkStep
  <2> QED
    BY <1>7, <2>2 DEF ClaimedRow
<1>9. chat' = chat
  BY <1>7, <1>8, CreateCalm
<1> QED
  BY <1>5, <1>9 DEF Publications

\* A message that is in Chatwoot is sent, or about to be completed.
LEMMA PublishedIsKept ==
    ASSUME Calm, OnceInv, IncomingClaimsHold, [Next]_vars, NEW w \in FromContact,
           Publications(NativeId(w))' # {}
    PROVE  \/ table'[W2CKey(NativeId(w), FALSE)].status = "sent"
           \/ \E d \in Deliveries :
                 pc'[d] = "complete" /\ KeyOf(d)' = W2CKey(NativeId(w), FALSE)
<1> USE DEF OnceInv, IInv
<1> DEFINE k == W2CKey(NativeId(w), FALSE)
<1>1. k \in Keys /\ NativeId(w) \in MessageIds
  BY KeysDiffer, IdsDiffer DEF WaIds
<1>2. CASE Publications(NativeId(w))' # Publications(NativeId(w))
  <2>1. PICK d \in Deliveries :
           (W2CCreateIncoming(d) \/ W2CPublish(d)) /\ event[d].id = NativeId(w)
    BY <1>1, <1>2, PublicationChanges
  <2>2. W2CCreateIncoming(d) /\ pc[d] = "create" /\ KeyOf(d) = k
    BY <2>1, IncomingPublisher
  <2>3. chat' # chat
    BY <1>2 DEF Publications
  <2> QED
    BY <2>2, <2>3, CreateCalm, WebhooksLast
<1>3. CASE Publications(NativeId(w)) # {}
  <2>1. CASE table[k].status = "sent"
    BY <1>1, <2>1, SentRowsLast DEF SentMeansArrived
  <2>2. ASSUME NEW e \in Deliveries, pc[e] = "complete", KeyOf(e) = k
        PROVE  table'[k].status = "sent" \/ (pc'[e] = "complete" /\ KeyOf(e)' = k)
    <3>1. CASE Complete(e)
      <4>1. ~IsC2W(e) /\ ~IsOwn(e)
        BY <1>1, <2>2, WhoseKey DEF PlacesFitEvents
      <4>2. IsIncoming(e)
        BY <2>2, <4>1, EventFacts DEF IsIncoming, IsOwn
      <4>3. table[k] = ClaimedRow(e, TwoMinutes)
        BY <2>2, <4>2 DEF IncomingClaimsHold
      <4>4. Holds(e)
        BY <2>2, <4>3, RowFields DEF Holds, ActiveClaim
      <4>5. table' = [table EXCEPT ![k] = SentRow(NoMessage, IdempotencyTTL)]
        BY <2>2, <3>1, <4>1, <4>4 DEF Complete, SetRow, DBFails, Calm
      <4>6. table'[k] = SentRow(NoMessage, IdempotencyTTL)
        BY <1>1, <4>5 DEF TypeOK
      <4>7. SentRow(NoMessage, IdempotencyTTL).status = "sent"
        BY DEF SentRow
      <4> QED
        BY <4>6, <4>7
    <3>2. CASE ~Complete(e)
      <4>1. ~Handler(e)
        BY <2>2, <3>2 DEF Handler, Paused, Claim, ClaimReadStatus, Release, C2WAdmit,
           C2WJoin, C2WWaitTimeout, C2WLimited, C2WMark, C2WSend, W2CAdmit, W2COrigin,
           W2CEnsure, W2CCreateIncoming, W2CPublish, W2CSuppress, W2CPair, W2CFinish,
           W2CKeep
      <4> QED
        BY <2>2, <4>1, CalmPlaces, WebhooksLast
    <3> QED
      BY <3>1, <3>2
  <2> QED
    BY <1>3, <2>1, <2>2 DEF IncomingClaimsHold
<1> QED
  BY <1>2, <1>3

LEMMA IncomingClaimsStep ==
    ASSUME Calm, ~MayStall, OnceInv, IncomingClaimsHold, [Next]_vars
    PROVE  IncomingClaimsHold'
<1>1. ASSUME NEW d \in Deliveries, pc[d] = "idle"
      PROVE  ~IncomingAtWork(d)'
  <2>1. pc'[d] \in {"idle", "start"}
    BY <1>1, PlaceChanges, HandlerGoes DEF Crash, Working, OnceInv, IInv
  <2> QED
    BY <2>1 DEF IncomingAtWork
<1>2. ASSUME NEW d \in Deliveries, pc[d] # "idle"
      PROVE  KeyOf(d)' = KeyOf(d) /\ event'[d] = event[d]
  BY <1>2, WebhooksLast DEF OnceInv, IInv
<1>3. \A d \in Deliveries : IncomingAtWork(d)' =>
         table'[KeyOf(d)'] = ClaimedRow(d, TwoMinutes)
  BY <1>1, <1>2, IncomingAtWorkStep
<1>4. \A d \in Deliveries : IncomingAtWork(d)' /\ pc'[d] # "complete" =>
         Publications(event[d].id)' = {}
  BY <1>1, <1>2, NotYetPublishedIncoming
<1> QED
  BY <1>3, <1>4, PublishedIsKept DEF IncomingClaimsHold, IncomingAtWork

LEMMA IncomingOnceStep ==
    ASSUME OnceInv, IncomingClaimsHold, IncomingPublishedAtMostOnce, [Next]_vars
    PROVE  IncomingPublishedAtMostOnce'
<1> SUFFICES ASSUME NEW w \in FromContact,
                    Publications(NativeId(w))' # Publications(NativeId(w))
             PROVE  Cardinality(Publications(NativeId(w))') <= 1
  BY DEF IncomingPublishedAtMostOnce
<1>1. NativeId(w) \in MessageIds
  BY IdsDiffer DEF WaIds
<1>2. PICK d \in Deliveries, c \in ChatIds :
         /\ W2CCreateIncoming(d) \/ W2CPublish(d)
         /\ event[d].id = NativeId(w)
         /\ Publications(NativeId(w))' = Publications(NativeId(w)) \cup {c}
  BY <1>1, PublicationChanges DEF OnceInv, IInv
<1>3. Publications(NativeId(w))' = {c}
  BY <1>2, IncomingPublisher
<1> QED
  BY <1>3, FS_Singleton

-----------------------------------------------------------------------------
(* The theorems.                                                           *)

LEMMA InitCopies ==
    Init => CopyInv
<1> SUFFICES ASSUME Init PROVE CopyInv
  OBVIOUS
<1>1. OnceInv
  BY InitOnce
<1>2. \A c \in ChatIds : chat[c] = NoChat /\ sent[c] = 0
  BY DEF Init
<1>3. NoRowsAhead
  BY <1>2, KeysDiffer DEF Init, NoRowsAhead, AbsentRow
<1>4. CopiesAreGuarded /\ CopiesAreNotClaimed /\ NoLoopToWhatsApp
  BY <1>2 DEF Init, CopiesAreGuarded, CopiesAreNotClaimed, NoLoopToWhatsApp, Copied
<1> QED
  BY <1>1, <1>3, <1>4 DEF CopyInv

LEMMA NextCopies ==
    ASSUME Calm
    PROVE  CopyInv /\ [Next]_vars => CopyInv'
<1> SUFFICES ASSUME CopyInv, [Next]_vars PROVE CopyInv'
  OBVIOUS
<1> USE DEF CopyInv
<1>1. OnceInv'
  BY NextOnce DEF Calm
<1>2. IInv
  BY DEF OnceInv
<1> QED
  BY <1>1, <1>2, NoRowsAheadStep, CopiesAreGuardedStep, CopiesAreNotClaimedStep,
     NoLoopToWhatsAppStep

\* What was typed on the phone and copied into Chatwoot does not come back to
\* WhatsApp through Chatwoot's webhook, in whatever order webhook, answer and
\* suppression arrive, and however long the machine stalls.
THEOREM NoCopySentBack ==
    ASSUME Calm
    PROVE  Spec => []NoLoopToWhatsApp
<1>1. Spec => []CopyInv
  BY InitCopies, NextCopies, PTL DEF Spec
<1>2. CopyInv => NoLoopToWhatsApp
  BY DEF CopyInv
<1> QED
  BY <1>1, <1>2, PTL

LEMMA InitCalm ==
    Init => CalmInv
<1> SUFFICES ASSUME Init PROVE CalmInv
  OBVIOUS
<1>1. \A id : Publications(id) = {}
  BY DEF Init, Publications
<1>2. IncomingClaimsHold
  BY <1>1 DEF Init, IncomingClaimsHold
<1>3. IncomingPublishedAtMostOnce
  BY <1>1, FS_EmptySet DEF IncomingPublishedAtMostOnce
<1> QED
  BY InitCopies, <1>2, <1>3 DEF CalmInv

LEMMA NextCalm ==
    ASSUME Calm, ~MayStall
    PROVE  CalmInv /\ [Next]_vars => CalmInv'
<1> SUFFICES ASSUME CalmInv, [Next]_vars PROVE CalmInv'
  OBVIOUS
<1> USE DEF CalmInv
<1>1. OnceInv
  BY DEF CopyInv
<1> QED
  BY <1>1, NextCopies, IncomingClaimsStep, IncomingOnceStep

\* The strengthened invariant of a calm bridge whose handlers end in time.
THEOREM CalmInvariant ==
    ASSUME Calm, ~MayStall
    PROVE  Spec => []CalmInv
BY InitCalm, NextCalm, PTL DEF Spec

\* A contact's message appears in Chatwoot at most once, whatever is delivered
\* again or concurrently.
THEOREM IncomingOnce ==
    ASSUME Calm, ~MayStall
    PROVE  Spec => []IncomingPublishedAtMostOnce
<1>1. CalmInv => IncomingPublishedAtMostOnce
  BY DEF CalmInv
<1> QED
  BY CalmInvariant, <1>1, PTL

-----------------------------------------------------------------------------
(* The refinement: abstract messages.                                      *)

\* The messages of the promise are those of both platforms, told apart.
LEMMA MessagesDiffer ==
    /\ \A c \in ChatIds : InChatwoot(c) \in AbsMessages
    /\ \A id \in MessageIds : InWhatsApp(id) \in AbsMessages
    /\ \A c : InChatwoot(c).in = "chatwoot" /\ InChatwoot(c).chat = c
    /\ \A id : InWhatsApp(id).in = "whatsapp" /\ InWhatsApp(id).id = id
    /\ \A m \in AbsMessages : \/ \E c \in ChatIds : m = InChatwoot(c)
                              \/ \E id \in MessageIds : m = InWhatsApp(id)
BY DEF AbsMessages, InChatwoot, InWhatsApp

AgentsSay == {c \in ChatIds : chat[c] # NoChat /\ chat[c].by = Agent}

\* What is said: the agents' messages and those written on phones.
LEMMA SaidFacts ==
    /\ Said = {InChatwoot(c) : c \in AgentsSay} \cup {InWhatsApp(NativeId(w)) : w \in written}
    /\ \A c : InChatwoot(c) \in Said <=> c \in AgentsSay
    /\ \A id : InWhatsApp(id) \in Said <=> \E w \in written : id = NativeId(w)
<1>1. Said = {InChatwoot(c) : c \in AgentsSay} \cup {InWhatsApp(NativeId(w)) : w \in written}
  BY DEF Said, AgentsSay
<1>2. \A c, id : InChatwoot(c) # InWhatsApp(id)
  <2>1. \A c, id : InChatwoot(c).in = "chatwoot" /\ InWhatsApp(id).in = "whatsapp"
    BY MessagesDiffer
  <2> QED
    BY <2>1
<1>3. /\ \A c1, c2 : InChatwoot(c1) = InChatwoot(c2) => c1 = c2
      /\ \A id1, id2 : InWhatsApp(id1) = InWhatsApp(id2) => id1 = id2
  BY MessagesDiffer
<1> QED
  BY <1>1, <1>2, <1>3

\* Everything said is a message of the promise.
LEMMA SaidAreMessages ==
    ASSUME TypeOK
    PROVE  Said \subseteq AbsMessages
BY MessagesDiffer, IdsDiffer, SaidFacts DEF AgentsSay, TypeOK

\* The copies of a message: its sends, or its publications.
LEMMA CopiesFacts ==
    /\ Copies = [m \in AbsMessages |-> Copies[m]]
    /\ \A c \in ChatIds : Copies[InChatwoot(c)] = sent[c]
    /\ \A id \in MessageIds : Copies[InWhatsApp(id)] = Cardinality(Publications(id))
BY MessagesDiffer DEF Copies

\* What a handler acknowledged and somebody said has been copied, once.
LEMMA AcknowledgedIsCopied ==
    ASSUME CalmInv, NEW d \in Deliveries, Acknowledges(pc[d]), Subject(event[d]) \in Said
    PROVE  Copies[Subject(event[d])] = 1
<1> USE DEF CalmInv, CopyInv, OnceInv, IInv
<1>1. pc[d] \in {"ok", "duplicate", "skipped"} /\ pc[d] # "idle"
  BY DEF Acknowledges
<1>2. CASE IsC2W(d)
  <2>1. PICK c \in ChatIds : /\ c = event[d].chat /\ Subject(event[d]) = InChatwoot(c)
                            /\ KeyOf(d) = C2WKey(c)
    BY <1>1, <1>2, EventFacts DEF Subject, IsC2W
  <2>2. chat[c] # NoChat /\ chat[c].by = Agent /\ chat[c].dir = "out"
    BY <2>1, SaidFacts DEF AgentsSay, NoRowsAhead
  <2>3. table[C2WKey(c)].status = "sent"
    BY <1>1, <1>2, <2>1, <2>2 DEF ConfirmersArrived
  <2>4. sent[c] > 0 /\ sent[c] <= 1 /\ sent[c] \in Nat
    BY <2>2, <2>3 DEF SentMeansArrived, SentAtMostOnce, TypeOK
  <2> QED
    BY <2>1, <2>4, CopiesFacts
<1>3. CASE ~IsC2W(d)
  <2>1. /\ event[d].id \in MessageIds /\ event[d].own \in BOOLEAN
        /\ Subject(event[d]) = InWhatsApp(event[d].id)
        /\ KeyOf(d) = W2CKey(event[d].id, event[d].own)
    BY <1>1, <1>3, EventFacts DEF Subject, IsC2W
  <2>2. PICK w \in written : event[d].id = NativeId(w)
    BY <2>1, SaidFacts
  <2>3. w \in WaIds /\ \A c \in ChatIds : event[d].id # EvoId(c)
    BY <2>2, IdsDiffer DEF TypeOK
  <2>4. table[KeyOf(d)].status = "sent"
    BY <1>1, <1>3, <2>3 DEF ConfirmersArrived
  <2>5. Publications(NativeId(w)) # {}
    BY <2>1, <2>2, <2>4 DEF SentMeansArrived
  <2>6. Cardinality(Publications(NativeId(w))) <= 1
    BY <2>3 DEF WaIds, ManualPublishedAtMostOnce, IncomingPublishedAtMostOnce
  <2>7. Cardinality(Publications(NativeId(w))) = 1
    <3>1. IsFiniteSet(Publications(NativeId(w)))
      <4>1. IsFiniteSet(ChatIds)
        BY BridgeAssumption, FS_CardinalityType, FS_Interval DEF ChatIds
      <4>2. Publications(NativeId(w)) \subseteq ChatIds
        BY DEF Publications
      <4> QED
        BY <4>1, <4>2, FS_Subset
    <3> QED
      BY <2>5, <2>6, <3>1, FS_CardinalityType, FS_EmptySet
  <2> QED
    BY <2>1, <2>2, <2>7, CopiesFacts
<1> QED
  BY <1>2, <1>3

-----------------------------------------------------------------------------
(* The refinement: what a step changes.                                    *)

\* A step adds at most one message to Chatwoot.
LEMMA OneNewChat ==
    ASSUME TypeOK, [Next]_vars, NEW c \in ChatIds, chat'[c] # chat[c]
    PROVE  chat' = [chat EXCEPT ![c] = chat'[c]]
<1>1. PICK x \in ChatIds : \E m : NewChat(x, m)
  BY ChatChanges DEF AgentWrites, W2CCreateIncoming, W2CPublish
<1>2. \A y \in ChatIds : y # x => chat'[y] = chat[y]
  BY <1>1 DEF NewChat, TypeOK
<1>3. x = c
  BY <1>2
<1> QED
  BY <1>1, <1>3 DEF NewChat, TypeOK

\* An acknowledged webhook stays acknowledged.
LEMMA AcksLast ==
    ASSUME Calm, IInv, [Next]_vars, NEW d \in Deliveries, Acknowledges(pc[d])
    PROVE  pc'[d] = pc[d] /\ event'[d] = event[d]
<1> USE DEF IInv
<1>1. pc[d] \in {"ok", "duplicate", "skipped"}
  BY DEF Acknowledges
<1>2. ~Handler(d)
  BY <1>1 DEF Handler, Paused, Claim, ClaimReadStatus, Release, Complete, C2WAdmit,
     C2WJoin, C2WWaitTimeout, C2WLimited, C2WMark, C2WSend, W2CAdmit, W2COrigin,
     W2CEnsure, W2CCreateIncoming, W2CPublish, W2CSuppress, W2CPair, W2CFinish, W2CKeep
<1> QED
  BY <1>1, <1>2, CalmPlaces, WebhooksLast

\* One webhook at a time is acknowledged, by the steps that answer 200.
LEMMA NewAcks ==
    ASSUME Calm, IInv, [Next]_vars, NEW d \in Deliveries,
           Acknowledges(pc'[d]), ~Acknowledges(pc[d])
    PROVE  /\ Complete(d) \/ W2CFinish(d) \/ ClaimReadStatus(d) \/ C2WAdmit(d) \/ W2COrigin(d)
           /\ event'[d] = event[d] /\ event[d] # NoEvent
           /\ \A x \in Deliveries : x # d => pc'[x] \in {pc[x], "claim"}
<1> USE DEF IInv
<1>1. pc'[d] \in {"ok", "duplicate", "skipped"} /\ pc[d] # pc'[d]
  BY DEF Acknowledges
<1>2. Handler(d)
  BY <1>1, NoCrash, PlaceChanges
<1>3. Complete(d) \/ W2CFinish(d) \/ ClaimReadStatus(d) \/ C2WAdmit(d) \/ W2COrigin(d)
  BY <1>1, <1>2, HandlerGoes
<1>4. event'[d] = event[d] /\ event[d] # NoEvent
  BY <1>2, HandlerGoes, WebhooksLast, EventFacts
<1>5. \A x \in Deliveries : x # d => pc'[x] \in {pc[x], "claim"}
  BY <1>3 DEF Complete, W2CFinish, ClaimReadStatus, C2WAdmit, W2COrigin, Goto, DBFails,
              TypeOK
<1> QED
  BY <1>3, <1>4, <1>5

\* Receipts do not change while nobody answers 200.
LEMMA ReceiptsStay ==
    ASSUME Calm, IInv, [Next]_vars,
           \A d \in Deliveries : Acknowledges(pc'[d]) => Acknowledges(pc[d]),
           \A m \in Said' \ Said : \A d \in Deliveries : 
              Acknowledges(pc[d]) => Subject(event[d]) # m,
           Said \subseteq Said'
    PROVE  Receipted' = Receipted
<1>1. \A d \in Deliveries : Acknowledges(pc[d]) =>
         /\ pc'[d] = pc[d] /\ event'[d] = event[d]
         /\ event[d] # NoEvent
  <2>1. \A d \in Deliveries : Acknowledges(pc[d]) => pc[d] # "idle"
    BY DEF Acknowledges
  <2> QED
    BY <2>1, AcksLast, EventFacts DEF IInv
<1>2. \A m : m \in Receipted' <=> m \in Said' /\ \E d \in Deliveries :
         event'[d] # NoEvent /\ Subject(event'[d]) = m /\ Acknowledges(pc'[d])
  BY DEF Receipted, Subject, InChatwoot, InWhatsApp, Acknowledges
<1>3. \A m : m \in Receipted <=> m \in Said /\ \E d \in Deliveries :
         event[d] # NoEvent /\ Subject(event[d]) = m /\ Acknowledges(pc[d])
  BY DEF Receipted
<1>4. \A m : m \in Receipted => m \in Receipted'
  BY <1>1, <1>2, <1>3
<1>5. \A m : m \in Receipted' => m \in Receipted
  BY <1>1, <1>2, <1>3
<1> QED
  BY <1>4, <1>5

-----------------------------------------------------------------------------
(* The refinement: every step says, copies, receipts or stutters.          *)

\* Handlers change nothing of what people said.
LEMMA SaidChanges ==
    ASSUME IInv, [Next]_vars, Said' # Said
    PROVE  AgentWrites \/ \E w \in WaIds : PersonWrites(w)
<1> USE DEF IInv
<1> SUFFICES ASSUME ~AgentWrites, \A w \in WaIds : ~PersonWrites(w)
             PROVE  FALSE
  OBVIOUS
<1>1. written' = written
  <2>1. ASSUME NEW d \in Deliveries, Handler(d)
        PROVE  written' = written
    BY <2>1 DEF Handler, Paused, Claim, ClaimReadStatus, Release, Complete, C2WAdmit,
       C2WJoin, C2WWaitTimeout, C2WLimited, C2WMark, C2WSend, W2CAdmit, W2COrigin,
       W2CEnsure, W2CCreateIncoming, W2CPublish, W2CSuppress, W2CPair, W2CFinish,
       W2CKeep, platforms
  <2> QED
    BY <2>1, StepCases DEF SetPaused, Crash, ClaimLapses, Deliver, platforms, vars
<1>2. ASSUME NEW c \in ChatIds, chat'[c] # chat[c]
      PROVE  chat[c] = NoChat /\ chat'[c].by # Agent
  <2>1. chat[c] = NoChat
    BY <1>2, ChatChanges
  <2>2. PICK d \in Deliveries :
           (W2CCreateIncoming(d) \/ W2CPublish(d)) /\ chat'[c].by = event[d].id
    <3> DEFINE m == chat'[c]
    <3>1. PICK d \in Deliveries : 
            /\ W2CCreateIncoming(d) \/ W2CPublish(d) 
            /\ \E dir, t : m = [dir |-> dir, by |-> event[d].id, text |-> t]
      BY <1>2, ChatChanges
    <3> HIDE DEF m
    <3>2. m.by = event[d].id
      BY <3>1
    <3> QED
      BY <3>1, <3>2 DEF m
  <2>3. pc[d] # "idle" /\ ~IsC2W(d)
    BY <2>2 DEF W2CCreateIncoming, W2CPublish, PlacesFitEvents, IsOwn, IsC2W
  <2>4. event[d].id \in MessageIds
    BY <2>3, EventFacts
  <2> QED
    BY <2>1, <2>2, <2>4, IdsDiffer
<1>3. AgentsSay' = AgentsSay
  BY <1>2 DEF AgentsSay
<1> QED
  BY <1>1, <1>3 DEF Said, AgentsSay

LEMMA SayStep ==
    ASSUME Calm, IInv, IInv', [Next]_vars, Said' # Said
    PROVE  \E m \in AbsMessages : Promise!Say(m)
<1> USE DEF IInv
<1>1. CASE AgentWrites
  <2>1. PICK c \in ChatIds, t \in AgentTexts :
           NewChat(c, [dir |-> "out", by |-> Agent, text |-> t])
    BY <1>1 DEF AgentWrites
  <2>2. /\ chat[c] = NoChat
        /\ chat' = [chat EXCEPT ![c] = [dir |-> "out", by |-> Agent, text |-> t]]
    BY <2>1 DEF NewChat
  <2>3. chat'[c] = [dir |-> "out", by |-> Agent, text |-> t]
    BY <2>2 DEF TypeOK
  <2>4. chat'[c] # NoChat /\ chat'[c].by = Agent
    BY <2>3 DEF NoChat
  <2>5. AgentsSay' = AgentsSay \cup {c} /\ c \notin AgentsSay
    BY <2>2, <2>4 DEF AgentsSay, TypeOK
  <2>6. written' = written /\ sent' = sent /\ pc' = pc
    BY <1>1 DEF AgentWrites
  <2>7. Said' = Said \cup {InChatwoot(c)} /\ InChatwoot(c) \notin Said
    <3>1. Said' = {InChatwoot(x) : x \in AgentsSay'} \cup {InWhatsApp(NativeId(w)) : w \in written'}
      BY DEF Said, AgentsSay, InChatwoot, InWhatsApp, NativeId
    <3> QED
      BY <2>5, <2>6, <3>1, SaidFacts
  <2>8. ASSUME NEW id \in MessageIds
        PROVE  Publications(id)' = Publications(id)
    BY <2>2, <2>4, IdsDiffer DEF Publications, TypeOK
  <2>9. Copies' = Copies
    BY <2>6, <2>8 DEF Copies, AbsMessages, InChatwoot, InWhatsApp
  <2>10. Receipted' = Receipted
    <3>1. ASSUME NEW d \in Deliveries, Acknowledges(pc[d])
          PROVE  Subject(event[d]) # InChatwoot(c)
      <4>1. pc[d] # "idle"
        BY <3>1 DEF Acknowledges
      <4>2. IsC2W(d) => Subject(event[d]) = InChatwoot(event[d].chat) /\ event[d].chat # c
        BY <2>2, <4>1, EventFacts DEF Subject, IsC2W
      <4>3. ~IsC2W(d) => Subject(event[d]) = InWhatsApp(event[d].id)
        BY DEF Subject, IsC2W
      <4> QED
        BY <4>2, <4>3 DEF InChatwoot, InWhatsApp
    <3> QED
      BY <2>6, <2>7, <3>1, ReceiptsStay
  <2> QED
    BY <2>7, <2>9, <2>10, MessagesDiffer DEF Promise!Say
<1>2. ASSUME NEW w \in WaIds, PersonWrites(w)
      PROVE  Promise!Say(InWhatsApp(NativeId(w)))
  <2>1. w \notin written /\ written' = written \cup {w}
    BY <1>2 DEF PersonWrites
  <2>2. chat' = chat /\ sent' = sent /\ pc' = pc
    BY <1>2 DEF PersonWrites
  <2>3. Said' = Said \cup {InWhatsApp(NativeId(w))} /\ InWhatsApp(NativeId(w)) \notin Said
    <3>1. Said' = {InChatwoot(x) : x \in AgentsSay} \cup {InWhatsApp(NativeId(v)) : v \in written'}
      BY <2>2 DEF Said, AgentsSay, InChatwoot, InWhatsApp, NativeId
    <3>2. \A v \in written : NativeId(v) # NativeId(w)
      BY <2>1, NativeIdsDiffer DEF TypeOK
    <3> QED
      BY <2>1, <3>1, <3>2, SaidFacts
  <2>4. Copies' = Copies
    BY <2>2 DEF Copies, Publications
  <2>5. Receipted' = Receipted
    <3>1. ASSUME NEW d \in Deliveries, Acknowledges(pc[d])
          PROVE  Subject(event[d]) # InWhatsApp(NativeId(w))
      <4>1. pc[d] # "idle"
        BY <3>1 DEF Acknowledges
      <4>2. IsC2W(d) => Subject(event[d]) = InChatwoot(event[d].chat)
        BY DEF Subject, IsC2W
      <4>3. ~IsC2W(d) => Subject(event[d]) = InWhatsApp(event[d].id) /\ event[d].id # NativeId(w)
        <5>1. \A v \in written : NativeId(v) # NativeId(w)
          BY <2>1, NativeIdsDiffer DEF TypeOK
        <5> QED
          BY <4>1, <5>1, EventFacts, IdsDiffer DEF Subject, IsC2W
      <4> QED
        BY <4>2, <4>3 DEF InChatwoot, InWhatsApp
    <3> QED
      BY <2>2, <2>3, <3>1, ReceiptsStay
  <2> QED
    BY <2>3, <2>4, <2>5 DEF Promise!Say
<1>3. \A w \in WaIds : InWhatsApp(NativeId(w)) \in AbsMessages
  BY MessagesDiffer, IdsDiffer
<1> QED
  BY <1>1, <1>2, <1>3, SaidChanges

LEMMA SendStep ==
    ASSUME Calm, CalmInv, [Next]_vars, Said' = Said, NEW c \in ChatIds, sent'[c] # sent[c]
    PROVE  Promise!Copy(InChatwoot(c))
<1> USE DEF CalmInv, CopyInv, OnceInv, IInv
<1>1. PICK d \in Deliveries : C2WSend(d) /\ event[d].chat = c
  BY SentChanges
<1>2. pc[d] = "send" /\ IsC2W(d) /\ chat[c] # NoChat /\ chat[c].dir = "out"
  BY <1>1, EventFacts DEF C2WSend, PlacesFitEvents
<1>3. sent[c] = 0 /\ chat[c].by = Agent
  BY <1>1, <1>2 DEF SendsAreMarked, CopiesAreNotClaimed, Copied
<1>4. chat' = chat /\ event' = event
  BY <1>1 DEF C2WSend
<1>5. sent' = [sent EXCEPT ![c] = 1]
  <2>1. sent' = [sent EXCEPT ![c] = @ + 1]
    BY <1>1 DEF C2WSend, TypeOK
  <2> QED
    BY <1>3, <2>1
<1>6. InChatwoot(c) \in Said /\ Copies[InChatwoot(c)] = 0
  BY <1>2, <1>3, SaidFacts, CopiesFacts DEF AgentsSay
<1>7. Copies' = [Copies EXCEPT ![InChatwoot(c)] = 1]
  <2>1. \A id : Publications(id)' = Publications(id)
    BY <1>4 DEF Publications
  <2>2. ASSUME NEW m \in AbsMessages
        PROVE  (IF m.in = "chatwoot" THEN sent'[m.chat] ELSE Cardinality(Publications(m.id)))
                 = IF m = InChatwoot(c) THEN 1 ELSE Copies[m]
    <3>1. CASE m.in = "chatwoot"
      <4>1. PICK x \in ChatIds : m = InChatwoot(x)
        BY <3>1, MessagesDiffer
      <4>2. m.chat = x /\ (m = InChatwoot(c) <=> x = c)
        BY <4>1, MessagesDiffer
      <4> QED
        BY <1>5, <3>1, <4>1, <4>2, CopiesFacts DEF TypeOK
    <3>2. CASE m.in # "chatwoot"
      BY <3>2, MessagesDiffer DEF Copies
    <3> QED
      BY <3>1, <3>2
  <2>3. Copies' = [m \in AbsMessages |-> IF m.in = "chatwoot" THEN sent'[m.chat]
                                         ELSE Cardinality(Publications(m.id))]
    BY <2>1 DEF Copies, AbsMessages, InChatwoot, InWhatsApp
  <2> QED
    BY <2>2, <2>3, CopiesFacts, MessagesDiffer
<1>8. Receipted' = Receipted
  <2>1. \A x \in Deliveries : Acknowledges(pc'[x]) => Acknowledges(pc[x])
    <3>1. \A x \in Deliveries : x # d => pc'[x] = pc[x]
      BY <1>1 DEF C2WSend, Goto, TypeOK
    <3>2. pc'[d] \in {"complete", "error", "release"}
      BY <1>1, SendResult DEF Calm
    <3> QED
      BY <3>1, <3>2 DEF Acknowledges
  <2> QED
    BY <2>1, ReceiptsStay
<1> QED
  BY <1>6, <1>7, <1>8 DEF Promise!Copy

LEMMA PublishStep ==
    ASSUME Calm, CalmInv, [Next]_vars, Said' = Said, NEW id \in MessageIds,
           Publications(id)' # Publications(id)
    PROVE  Promise!Copy(InWhatsApp(id))
<1> USE DEF CalmInv, CopyInv, OnceInv, IInv
<1>1. PICK d \in Deliveries, c \in ChatIds :
          /\ W2CCreateIncoming(d) \/ W2CPublish(d)
          /\ event[d].id = id
          /\ chat[c] = NoChat
          /\ Publications(id)' = Publications(id) \cup {c}
  BY PublicationChanges
<1>2. PICK w \in written : id = NativeId(w)
  <2>1. pc[d] \in {"create", "publish"} /\ ~IsC2W(d)
    BY <1>1 DEF W2CCreateIncoming, W2CPublish, PlacesFitEvents, IsOwn, IsC2W
  <2>2. event[d] # NoEvent
    BY <2>1, EventFacts
  <2>3. \A x \in ChatIds : event[d].id # EvoId(x)
    BY <2>1, <2>2 DEF EchoesStop
  <2> QED
    BY <1>1, <2>1, <2>3, EventFacts
<1>3. Publications(id) = {}
  BY <1>1, <1>2, PublisherHolds, IncomingPublisher DEF TypeOK, WaIds
<1>4. Publications(id)' = {c}
  BY <1>1, <1>3
<1>5. sent' = sent
  BY <1>1 DEF W2CCreateIncoming, W2CPublish
<1>6. InWhatsApp(id) \in Said /\ Copies[InWhatsApp(id)] = 0
  BY <1>2, <1>3, SaidFacts, CopiesFacts, FS_EmptySet
<1>7. ASSUME NEW other \in MessageIds, other # id
      PROVE  Publications(other)' = Publications(other)
  <2>1. c \in Publications(id)' /\ chat'[c] # chat[c]
    BY <1>1, <1>4 DEF Publications
  <2>2. chat'[c].by = id
    BY <2>1 DEF Publications
  <2>3. chat' = [chat EXCEPT ![c] = chat'[c]]
    BY <2>1, OneNewChat
  <2>4. \A x \in ChatIds : x # c => chat'[x] = chat[x]
    BY <2>3 DEF TypeOK
  <2> QED
    BY <1>1, <1>7, <2>2, <2>4 DEF Publications
<1>8. Copies' = [Copies EXCEPT ![InWhatsApp(id)] = 1]
  <2>1. Copies' = [m \in AbsMessages |-> IF m.in = "chatwoot" THEN sent'[m.chat]
                                         ELSE Cardinality(Publications(m.id)')]
    BY DEF Copies, AbsMessages, InChatwoot, InWhatsApp, Publications
  <2>2. ASSUME NEW m \in AbsMessages
        PROVE  (IF m.in = "chatwoot" THEN sent'[m.chat] ELSE Cardinality(Publications(m.id)'))
                 = IF m = InWhatsApp(id) THEN 1 ELSE Copies[m]
    <3>1. CASE m.in = "chatwoot"
      BY <1>5, <3>1, MessagesDiffer DEF Copies
    <3>2. CASE m.in # "chatwoot"
      <4>1. PICK x \in MessageIds : m = InWhatsApp(x)
        BY <3>2, MessagesDiffer
      <4>2. m.id = x /\ (m = InWhatsApp(id) <=> x = id)
        BY <4>1, MessagesDiffer
      <4>3. CASE x = id
        <5>1. Publications(m.id)' = {c}
          BY <1>4, <4>2, <4>3 DEF Publications
        <5> QED
          BY <3>2, <4>2, <4>3, <5>1, FS_Singleton
      <4>4. CASE x # id
        <5>1. Publications(m.id)' = Publications(x)
          BY <1>7, <4>2, <4>4 DEF Publications
        <5> QED
          BY <3>2, <4>1, <4>2, <4>4, <5>1, CopiesFacts
      <4> QED
        BY <4>3, <4>4
    <3> QED
      BY <3>1, <3>2
  <2> QED
    BY <2>1, <2>2, CopiesFacts, MessagesDiffer
<1>9. Receipted' = Receipted
  <2>1. \A x \in Deliveries : x # d => pc'[x] = pc[x]
    BY <1>1 DEF W2CCreateIncoming, W2CPublish, Goto, TypeOK
  <2>2. pc'[d] \in {"complete", "keep", "release", "suppress", "finish"}
    BY <1>1, CreateCalm, PublishResult DEF Calm
  <2>3. \A x \in Deliveries : Acknowledges(pc'[x]) => Acknowledges(pc[x])
    BY <2>1, <2>2 DEF Acknowledges
  <2> QED
    BY <2>3, ReceiptsStay
<1> QED
  BY <1>6, <1>8, <1>9 DEF Promise!Copy

LEMMA CopyStep ==
    ASSUME Calm, CalmInv, [Next]_vars, Said' = Said, Copies' # Copies
    PROVE  \E m \in AbsMessages : Promise!Copy(m)
<1>1. CASE \E c \in ChatIds : sent'[c] # sent[c]
  BY <1>1, SendStep, MessagesDiffer
<1>2. CASE \E id \in MessageIds : Publications(id)' # Publications(id)
  BY <1>2, PublishStep, MessagesDiffer
<1>3. CASE /\ \A c \in ChatIds : sent'[c] = sent[c]
           /\ \A id \in MessageIds : Publications(id)' = Publications(id)
  <2>1. Copies' = [m \in AbsMessages |-> IF m.in = "chatwoot" THEN sent'[m.chat]
                                         ELSE Cardinality(Publications(m.id)')]
    BY DEF Copies, AbsMessages, InChatwoot, InWhatsApp, Publications
  <2>2. ASSUME NEW m \in AbsMessages
        PROVE  (IF m.in = "chatwoot" THEN sent'[m.chat] ELSE Cardinality(Publications(m.id)'))
                 = IF m.in = "chatwoot" THEN sent[m.chat] ELSE Cardinality(Publications(m.id))
    <3>1. CASE m.in = "chatwoot"
      BY <1>3, <3>1, MessagesDiffer
    <3>2. CASE m.in # "chatwoot"
      <4>1. PICK x \in MessageIds : m = InWhatsApp(x) /\ m.id = x
        BY <3>2, MessagesDiffer
      <4>2. Publications(m.id)' = Publications(x)
        BY <1>3, <4>1 DEF Publications
      <4> QED
        BY <3>2, <4>1, <4>2
    <3> QED
      BY <3>1, <3>2
  <2>3. Copies' = Copies
    BY <2>1, <2>2 DEF Copies
  <2> QED
    BY <2>3
<1> QED
  BY <1>1, <1>2, <1>3

\* Whatever is acknowledged has been copied once, or nobody said it.
ReceiptsAreDue ==
    \A d \in Deliveries : Acknowledges(pc[d]) /\ Subject(event[d]) \in Said =>
        Copies[Subject(event[d])] = 1

\* CalmInv makes the receipts due in the next state too.
LEMMA ReceiptsDueNext ==
    CalmInv' => ReceiptsAreDue'
<1>1. CalmInv => ReceiptsAreDue
  BY AcknowledgedIsCopied DEF ReceiptsAreDue
<1> QED
  BY <1>1, PTL

LEMMA ReceiptStep ==
    ASSUME Calm, CalmInv, CalmInv', [Next]_vars, Said' = Said, Copies' = Copies,
           Receipted' # Receipted
    PROVE  \E m \in AbsMessages : Promise!Receipt(m)
<1> USE DEF CalmInv, CopyInv, OnceInv, IInv
<1>1. PICK d \in Deliveries : Acknowledges(pc'[d]) /\ ~Acknowledges(pc[d])
  BY ReceiptsStay
<1>2. /\ event'[d] = event[d] /\ event[d] # NoEvent
      /\ \A x \in Deliveries : x # d => pc'[x] \in {pc[x], "claim"}
  BY <1>1, NewAcks
<1>3. \A x \in Deliveries : x # d /\ Acknowledges(pc'[x]) => Acknowledges(pc[x])
  BY <1>2 DEF Acknowledges
<1>4. \A x \in Deliveries : Acknowledges(pc[x]) => event'[x] = event[x] /\ Acknowledges(pc'[x])
                                                   /\ event[x] # NoEvent
  <2>1. \A x \in Deliveries : Acknowledges(pc[x]) => pc[x] # "idle"
    BY DEF Acknowledges
  <2> QED
    BY <2>1, AcksLast, EventFacts
<1> DEFINE m == Subject(event[d])
<1>5. \A n : n \in Receipted' <=> n \in Said /\ \E x \in Deliveries :
         event'[x] # NoEvent /\ Subject(event'[x]) = n /\ Acknowledges(pc'[x])
  BY DEF Receipted, Subject, InChatwoot, InWhatsApp, Acknowledges
<1>6. \A n : n \in Receipted <=> n \in Said /\ \E x \in Deliveries :
         event[x] # NoEvent /\ Subject(event[x]) = n /\ Acknowledges(pc[x])
  BY DEF Receipted
<1>7. \A n : n \in Receipted' <=> n \in Receipted \/ (n = m /\ m \in Said)
  <2>1. ASSUME NEW n, n \in Receipted
        PROVE  n \in Receipted'
    BY <2>1, <1>4, <1>5, <1>6
  <2>2. m \in Said => m \in Receipted'
    BY <1>1, <1>2, <1>5
  <2>3. ASSUME NEW n, n \in Receipted', n # m
        PROVE  n \in Receipted
    <3>1. PICK x \in Deliveries :
             event'[x] # NoEvent /\ Subject(event'[x]) = n /\ Acknowledges(pc'[x])
      BY <2>3, <1>5
    <3>2. x # d
      BY <1>2, <2>3, <3>1
    <3>3. Acknowledges(pc[x]) /\ event'[x] = event[x]
      BY <1>3, <1>4, <3>1, <3>2
    <3> QED
      BY <1>5, <1>6, <2>3, <3>1, <3>3
  <2>4. m \in Receipted' => m \in Said
    BY <1>5
  <2> QED
    BY <2>1, <2>2, <2>3, <2>4
<1>8. m \in Said
  <2>1. m \notin Said => Receipted' = Receipted
    BY <1>7
  <2> QED
    BY <2>1
<1>9. Receipted' = Receipted \cup {m}
  BY <1>7, <1>8
<1>10. m \in AbsMessages
  BY <1>8, SaidAreMessages
<1>11. Copies[m] = 1
  BY <1>1, <1>2, <1>8, ReceiptsDueNext DEF ReceiptsAreDue, Subject, InChatwoot, InWhatsApp,
     Acknowledges
<1> QED
  BY <1>8, <1>9, <1>10, <1>11 DEF Promise!Receipt

\* Every step of a calm bridge is a step of Crossing or leaves it alone.
LEMMA CrossingStep ==
    ASSUME Calm
    PROVE  CalmInv /\ CalmInv' /\ [Next]_vars => [Promise!Next]_<<Said, Copies, Receipted>>
<1> SUFFICES ASSUME CalmInv, CalmInv', [Next]_vars
             PROVE  Promise!Next \/ UNCHANGED <<Said, Copies, Receipted>>
  OBVIOUS
<1>1. CASE Said' # Said
  BY <1>1, SayStep DEF CalmInv, CopyInv, OnceInv, Promise!Next
<1>2. CASE Said' = Said /\ Copies' # Copies
  BY <1>2, CopyStep DEF Promise!Next
<1>3. CASE Said' = Said /\ Copies' = Copies /\ Receipted' # Receipted
  BY <1>3, ReceiptStep DEF Promise!Next
<1> QED
  BY <1>1, <1>2, <1>3

\* The two handlers, their claims and the registry of manual publications
\* implement Crossing: what people write is copied once, what the bridge
\* wrote is never copied, and 200 is answered only for what was copied.
THEOREM CrossingImplemented ==
    ASSUME Calm, ~MayStall
    PROVE  Spec => ImplementsCrossing
<1>1. Init => Promise!Init
  <2> SUFFICES ASSUME Init PROVE Promise!Init
    OBVIOUS
  <2>1. \A c \in ChatIds : chat[c] = NoChat /\ sent[c] = 0
    BY DEF Init
  <2>2. Said = {}
    BY <2>1 DEF Init, Said
  <2>3. \A id : Cardinality(Publications(id)) = 0
    BY <2>1, FS_EmptySet DEF Publications
  <2>4. Copies = [m \in AbsMessages |-> 0]
    BY <2>1, <2>3, MessagesDiffer DEF Copies
  <2>5. Receipted = {}
    BY <2>2 DEF Receipted
  <2> QED
    BY <2>2, <2>4, <2>5 DEF Promise!Init
<1> QED
  BY <1>1, CrossingStep, CalmInvariant, PTL DEF Spec, ImplementsCrossing, Promise!Spec

=============================================================================
