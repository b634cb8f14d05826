--------------------------- MODULE BridgeOnceProofs ---------------------------
(***************************************************************************)
(* Bridge when no answer is garbled: whatever else happens to calls, the   *)
(* database and the process, nothing is sent or published twice and the    *)
(* echo of the bridge's own messages is never published.  With a garbled   *)
(* answer TLC refutes each of the three; run bridge_garbled shows it of    *)
(* the echo.                                                               *)
(***************************************************************************)
EXTENDS BridgeProofs

-----------------------------------------------------------------------------
(* The inductive invariant, on top of IInv.                                *)

Firm(row) == row.status \in {"processing", "sent"} /\ row.expires = IdempotencyTTL

\* From the mark on, a Chatwoot message's row is the marking handler's until
\* the message is sent, and afterwards it keeps the message's ID.
SendsAreMarked ==
    /\ \A d \in Deliveries :
        /\ pc[d] = "limit" /\ Holds(d) => table[KeyOf(d)].evo = NoMessage
        /\ pc[d] = "send" \/ (IsC2W(d) /\ pc[d] \in {"complete", "release"})
              => table[KeyOf(d)] = MarkedRow(d, EvoId(event[d].chat), IdempotencyTTL)
        /\ pc[d] = "send" \/ (IsC2W(d) /\ pc[d] = "release") => sent[event[d].chat] = 0
        /\ pc[d] = "pair" => table[C2WKey(made[d])] = ClaimedRow(d, IdempotencyTTL)
    /\ \A c \in ChatIds : sent[c] > 0 =>
        Firm(table[C2WKey(c)]) /\ table[C2WKey(c)].evo = EvoId(c)

\* The handler of an echo gets no further than the origin check.
EchoesStop ==
    \A d \in Deliveries, c \in ChatIds :
        event[d] # NoEvent /\ ~IsC2W(d) /\ event[d].id = EvoId(c) =>
            pc[d] \in {"start", "origin", "paused", "limited", "skipped", "error",
                       "crashed"}

\* An own handler that may still publish, or that publishes and must complete.
OwnAtWork(d) ==
    IsOwn(d) /\ \/ pc[d] \in {"ensure", "publish", "suppress", "pair", "release"}
                \/ pc[d] = "finish" /\ after[d] = "release"

NotYetPublished(d) ==
    IsOwn(d) /\ \/ pc[d] \in {"ensure", "publish", "release"}
                \/ pc[d] = "finish" /\ after[d] = "release"

\* The claim of a message typed on the phone is its handler's, and is given
\* back only while the message is not in Chatwoot.
OwnClaimsHold ==
    /\ \A d \in Deliveries : OwnAtWork(d) =>
          table[KeyOf(d)] = ClaimedRow(d, IdempotencyTTL)
    /\ \A d \in Deliveries : NotYetPublished(d) => Publications(event[d].id) = {}
    /\ \A w \in FromPhone : Publications(NativeId(w)) # {} =>
          Firm(table[W2CKey(NativeId(w), TRUE)])

OnceInv ==
    /\ IInv
    /\ SendsAreMarked
    /\ SentAtMostOnce
    /\ EchoesStop
    /\ NoLoopToChatwoot
    /\ OwnClaimsHold
    /\ ManualPublishedAtMostOnce

-----------------------------------------------------------------------------
(* Rows change by their holders.                                           *)

\* The fields of the rows that the table's operations write.
LEMMA RowFields ==
    /\ \A d, until :
        /\ ClaimedRow(d, until).status = "processing" /\ ClaimedRow(d, until).token = d
        /\ ClaimedRow(d, until).evo = NoMessage /\ ClaimedRow(d, until).expires = until
    /\ \A d, m, until :
        /\ MarkedRow(d, m, until).status = "processing" /\ MarkedRow(d, m, until).token = d
        /\ MarkedRow(d, m, until).evo = m /\ MarkedRow(d, m, until).expires = until
    /\ \A m, until :
        /\ SentRow(m, until).status = "sent" /\ SentRow(m, until).token = NoToken
        /\ SentRow(m, until).evo = m /\ SentRow(m, until).expires = until
    /\ \A row : ReleasedRow(row).status = "failed" /\ ReleasedRow(row).evo = NoMessage
BY DEF ClaimedRow, MarkedRow, SentRow, ReleasedRow

\* A row for the whole window changes only by the handler that holds it.
LEMMA FirmRows ==
    ASSUME TypeOK, [Next]_vars, NEW k \in Keys, Firm(table[k]), table'[k] # table[k]
    PROVE  \E d \in Deliveries :
              /\ ActiveClaim(table[k], d)
              /\ \/ /\ k = KeyOf(d)
                    /\ Release(d) \/ C2WLimited(d) \/ C2WMark(d) \/ Complete(d) \/ W2CPair(d)
                 \/ k = C2WKey(made[d]) /\ W2CPair(d)
<1>1. ~ClaimLapses(k)
  BY DEF ClaimLapses, Firm, IdempotencyTTL, TwoMinutes
<1>2. ~Claimable(table[k], Now)
  BY DEF Claimable, Firm, IdempotencyTTL, Now
<1> QED
  BY <1>1, <1>2, RowChanges

\* A handler comes to hold a changed row only by its own statement.
LEMMA HeldRows ==
    ASSUME TypeOK, [Next]_vars, NEW k \in Keys, NEW d \in Deliveries,
           ActiveClaim(table'[k], d), table'[k] # table[k]
    PROVE  \/ ClaimLapses(k) /\ table'[k] = [table[k] EXCEPT !.expires = Lapsed]
           \/ k = KeyOf(d) /\ Claim(d)
           \/ /\ k = KeyOf(d) /\ C2WMark(d)
              /\ table'[k] = MarkedRow(d, EvoId(event[d].chat), IdempotencyTTL)
           \/ k = C2WKey(made[d]) /\ W2CSuppress(d)
<1> DEFINE row == table'[k]
<1>1. \/ ClaimLapses(k) /\ row = [table[k] EXCEPT !.expires = Lapsed]
      \/ \E x \in Deliveries : \E until :
            k = KeyOf(x) /\ Claim(x) /\ row = ClaimedRow(x, until)
      \/ \E x \in Deliveries :
            k = KeyOf(x) /\ C2WMark(x)
              /\ row = MarkedRow(x, EvoId(event[x].chat), IdempotencyTTL)
      \/ \E x \in Deliveries : \E until :
            k = C2WKey(made[x]) /\ W2CSuppress(x) /\ row = ClaimedRow(x, until)
      \/ row = ReleasedRow(table[k])
      \/ \E m : row = SentRow(m, IdempotencyTTL)
  <2> HIDE DEF row
  <2> QED
    BY RowChanges DEF row
<1>2. row.status = "processing" /\ row.token = d
  BY DEF ActiveClaim
<1> HIDE DEF row
<1>3. CASE ClaimLapses(k) /\ row = [table[k] EXCEPT !.expires = Lapsed]
  BY <1>3 DEF row
<1>4. ASSUME NEW x \in Deliveries, NEW until, k = KeyOf(x), Claim(x),
             row = ClaimedRow(x, until)
      PROVE  x = d
  BY <1>2, <1>4, RowFields
<1>5. ASSUME NEW x \in Deliveries, k = KeyOf(x), C2WMark(x),
             row = MarkedRow(x, EvoId(event[x].chat), IdempotencyTTL)
      PROVE  x = d
  BY <1>2, <1>5, RowFields
<1>6. ASSUME NEW x \in Deliveries, NEW until, k = C2WKey(made[x]), W2CSuppress(x),
             row = ClaimedRow(x, until)
      PROVE  x = d
  BY <1>2, <1>6, RowFields
<1>7. row # ReleasedRow(table[k]) /\ \A m : row # SentRow(m, IdempotencyTTL)
  BY <1>2, RowFields
<1> QED
  BY <1>1, <1>3, <1>4, <1>5, <1>6, <1>7 DEF row

\* A handler that holds a row for the whole window keeps it until it acts on it.
LEMMA OwnRowStays ==
    ASSUME TypeOK, [Next]_vars, NEW k \in Keys, NEW d \in Deliveries,
           Firm(table[k]), ActiveClaim(table[k], d),
           pc[d] \notin {"release", "limit", "complete", "pair"}
    PROVE  table'[k] = table[k]
<1>1. \A x \in Deliveries : ActiveClaim(table[k], x) => x = d
  BY DEF ActiveClaim
<1>2. ~(Release(d) \/ C2WLimited(d) \/ C2WMark(d) \/ Complete(d) \/ W2CPair(d))
  BY DEF Release, C2WLimited, C2WMark, Complete, W2CPair
<1> QED
  BY <1>1, <1>2, FirmRows

-----------------------------------------------------------------------------
(* Chatwoot -> WhatsApp.                                                   *)

\* How a send ends, when no answer is garbled.
LEMMA SendResult ==
    ASSUME "garbled" \notin Outcomes, TypeOK, NEW d \in Deliveries, C2WSend(d),
           event[d].chat \in ChatIds
    PROVE  /\ pc[d] = "send" /\ pc'[d] \in {"complete", "error", "release"}
           /\ sent' = sent \/ sent' = [sent EXCEPT ![event[d].chat] = @ + 1]
           /\ pc'[d] = "release" => sent' = sent
<1>1. PICK out \in Outcomes :
         /\ sent' = IF Performed(out)
                       THEN [sent EXCEPT ![event[d].chat] = @ + 1] ELSE sent
         /\ Goto(d, CASE out = "ok"      -> "complete"
                      [] Transport(out)  -> "error"
                      [] OTHER           -> "release")
  BY DEF C2WSend
<1>2. pc[d] = "send" /\ pc'[d] \in {"complete", "error", "release"}
  BY <1>1 DEF C2WSend, Goto, TypeOK
<1>3. ASSUME pc'[d] = "release" PROVE ~Performed(out)
  <2>1. out # "ok" /\ ~Transport(out)
    BY <1>1, <1>3 DEF Goto, Transport, TypeOK
  <2> QED
    BY <2>1 DEF Performed, Transport
<1> QED
  BY <1>1, <1>2, <1>3

\* Only one handler is about to send a message, and only once.
LEMMA OneSender ==
    ASSUME IInv, SendsAreMarked, NEW d \in Deliveries, NEW x \in Deliveries,
           pc[d] = "send" \/ (IsC2W(d) /\ pc[d] \in {"complete", "release"}),
           pc[x] = "send", event[x].chat = event[d].chat
    PROVE  x = d
<1>1. IsC2W(d) /\ IsC2W(x) /\ pc[d] # "idle" /\ pc[x] # "idle"
  BY DEF IInv, PlacesFitEvents
<1>2. KeyOf(d) = KeyOf(x)
  BY <1>1, EventFacts DEF IInv
<1>3. table[KeyOf(d)].token = d /\ table[KeyOf(x)].token = x
  BY RowFields DEF SendsAreMarked
<1> QED
  BY <1>2, <1>3

\* Whoever comes to a send, or from it, has its mark in the row; and what is not
\* on its way to Complete has not been sent.
LEMMA MarksStep ==
    ASSUME "garbled" \notin Outcomes, IInv, SendsAreMarked, [Next]_vars,
           NEW d \in Deliveries, pc[d] # "idle",
           pc'[d] = "send" \/ (IsC2W(d) /\ pc'[d] \in {"complete", "release"})
    PROVE  /\ table'[KeyOf(d)] = MarkedRow(d, EvoId(event[d].chat), IdempotencyTTL)
           /\ pc'[d] # "complete" => sent'[event[d].chat] = 0
<1> USE DEF IInv
<1> DEFINE k == KeyOf(d)
           c == event[d].chat
<1>1. k \in Keys /\ event'[d] = event[d]
  BY EventFacts, WebhooksLast
<1>2. CASE pc[d] = "send" \/ (IsC2W(d) /\ pc[d] \in {"complete", "release"})
  <2>1. IsC2W(d) /\ c \in ChatIds
    BY <1>2, EventFacts DEF PlacesFitEvents
  <2>2. table[k] = MarkedRow(d, EvoId(c), IdempotencyTTL)
    BY <1>2 DEF SendsAreMarked
  <2>3. Firm(table[k]) /\ ActiveClaim(table[k], d)
    BY <2>2, RowFields DEF Firm, ActiveClaim
  <2>4. pc[d] = "send" \/ pc'[d] = pc[d]
    <3>1. pc[d] \in {"complete", "release"} /\ Handler(d) => pc'[d] \in {"ok", "error"}
      BY DEF Handler, Paused, Claim, ClaimReadStatus, Release, Complete, C2WAdmit,
         C2WJoin, C2WWaitTimeout, C2WLimited, C2WMark, C2WSend, W2CAdmit, W2COrigin,
         W2CEnsure, W2CCreateIncoming, W2CPublish, W2CSuppress, W2CPair, W2CFinish,
         W2CKeep, Goto, DBFails, TypeOK
    <3> QED
      BY <1>2, <3>1, PlaceChanges
  <2>5. table'[k] = table[k]
    <3>1. CASE pc[d] = "send"
      BY <1>1, <2>3, <3>1, OwnRowStays
    <3>2. CASE pc'[d] = pc[d] /\ pc[d] # "send"
      <4>1. ~(Release(d) \/ C2WLimited(d) \/ C2WMark(d) \/ Complete(d) \/ W2CPair(d))
        BY <3>2 DEF Release, C2WLimited, C2WMark, Complete, W2CPair, Goto, DBFails, TypeOK
      <4>2. \A x \in Deliveries : ActiveClaim(table[k], x) => x = d
        BY <2>3 DEF ActiveClaim
      <4> QED
        BY <1>1, <2>3, <4>1, <4>2, FirmRows
    <3> QED
      BY <2>4, <3>1, <3>2
  <2>6. pc'[d] # "complete" => sent'[c] = 0
    <3>1. CASE C2WSend(d)
      BY <2>1, <3>1, SendResult DEF SendsAreMarked
    <3>2. CASE ~C2WSend(d)
      <4>1. sent'[c] = sent[c]
        BY <1>2, <2>1, <3>2, SentChanges, OneSender DEF C2WSend
      <4>2. pc'[d] # "complete" => pc[d] # "complete"
        BY <1>2, <2>4
      <4> QED
        BY <1>2, <2>1, <4>1, <4>2 DEF SendsAreMarked
    <3> QED
      BY <3>1, <3>2
  <2> QED
    BY <2>2, <2>5, <2>6
<1>3. CASE C2WMark(d)
  <2>1. pc[d] = "limit" /\ IsC2W(d) /\ c \in ChatIds /\ Holds(d) /\ k = C2WKey(c)
    <3>1. pc[d] = "limit" /\ IsC2W(d)
      BY <1>3 DEF C2WMark, PlacesFitEvents
    <3>2. pc'[d] \in {"error", "send"} /\ (pc'[d] = "send" => Holds(d))
      BY <1>3 DEF C2WMark, Goto, DBFails, TypeOK
    <3> QED
      BY <3>1, <3>2, EventFacts
  <2>2. table'[k] = MarkedRow(d, EvoId(c), IdempotencyTTL)
    BY <1>1, <1>3, <2>1 DEF C2WMark, Goto, SetRow, DBFails, TypeOK
  <2>3. sent[c] = 0
    <3>1. table[k].evo = NoMessage
      BY <2>1 DEF SendsAreMarked
    <3> QED
      BY <2>1, <3>1, IdsDiffer DEF SendsAreMarked, TypeOK
  <2>4. sent' = sent
    BY <1>3 DEF C2WMark, platforms
  <2> QED
    BY <2>2, <2>3, <2>4
<1>4. C2WSend(d) => pc[d] = "send"
  BY DEF C2WSend
<1>5. IsC2W(d) => ~(W2CCreateIncoming(d) \/ W2CEnsure(d) \/ W2CFinish(d))
  BY DEF W2CCreateIncoming, W2CEnsure, W2CFinish, PlacesFitEvents, IsOwn, IsC2W
<1> QED
  BY <1>2, <1>3, <1>4, <1>5, PlaceChanges, HandlerGoes

\* A claim that has come to the limiter bears no mark yet.
LEMMA LimitStep ==
    ASSUME IInv, SendsAreMarked, [Next]_vars, NEW d \in Deliveries, pc[d] # "idle",
           pc'[d] = "limit", ActiveClaim(table'[KeyOf(d)], d)
    PROVE  table'[KeyOf(d)].evo = NoMessage
<1> USE DEF IInv
<1>1. KeyOf(d) \in Keys
  BY EventFacts
<1>2. CASE Claim(d)
  <2>1. pc[d] = "claim"
    BY <1>2 DEF Claim
  <2>2. pc'[d] = "limit" => \E until : table'[KeyOf(d)] = ClaimedRow(d, until)
    <3>1. ~Claimable(table[KeyOf(d)], Now) \/ MayFailDB \/ table' =
             [table EXCEPT ![KeyOf(d)] = ClaimedRow(d, IF IsOwn(d) THEN IdempotencyTTL
                                                                   ELSE TwoMinutes)]
      BY <1>2 DEF Claim, SetRow, DBFails
    <3>2. pc'[d] = "limit" => table' =
             [table EXCEPT ![KeyOf(d)] = ClaimedRow(d, IF IsOwn(d) THEN IdempotencyTTL
                                                                   ELSE TwoMinutes)]
      BY <1>2 DEF Claim, SetRow, DBFails, Goto, TypeOK
    <3> QED
      BY <1>1, <3>2 DEF TypeOK
  <2> QED
    BY <2>2, RowFields
<1>3. CASE pc[d] = "limit"
  <2>1. CASE table'[KeyOf(d)] = table[KeyOf(d)]
    BY <1>3, <2>1 DEF SendsAreMarked, Holds
  <2>2. CASE table'[KeyOf(d)] = [table[KeyOf(d)] EXCEPT !.expires = Lapsed]
    <3>1. table[KeyOf(d)] \in Rows(Deliveries, MessageIds)
      BY <1>1 DEF TypeOK
    <3>2. ActiveClaim(table[KeyOf(d)], d) /\ table'[KeyOf(d)].evo = table[KeyOf(d)].evo
      BY <2>2, <3>1 DEF ActiveClaim, Rows
    <3> QED
      BY <1>3, <3>2 DEF SendsAreMarked, Holds
  <2>3. ~Claim(d) /\ ~W2CSuppress(d)
    BY <1>3 DEF Claim, W2CSuppress
  <2>4. C2WMark(d) => pc'[d] # "limit"
    BY DEF C2WMark, Goto, DBFails, TypeOK
  <2> QED
    BY <1>1, <2>1, <2>2, <2>3, <2>4, HeldRows
<1> QED
  BY <1>2, <1>3, PlaceChanges, HandlerGoes

\* Whoever comes to the pair holds the row of the message it has published.
LEMMA PairClaimStep ==
    ASSUME IInv, SendsAreMarked, [Next]_vars, NEW d \in Deliveries, pc'[d] = "pair"
    PROVE  table'[C2WKey(made'[d])] = ClaimedRow(d, IdempotencyTTL)
<1> USE DEF IInv
<1>1. CASE W2CSuppress(d)
  <2>1. pc[d] = "suppress" /\ made[d] \in ChatIds /\ made' = made
    BY <1>1 DEF W2CSuppress, MadeIsMine
  <2>2. C2WKey(made[d]) \in Keys
    BY <2>1, KeysDiffer
  <2> QED
    BY <1>1, <2>1, <2>2 DEF W2CSuppress, Goto, SetRow, DBFails, TypeOK
<1>2. CASE pc[d] = "pair"
  <2>1. made[d] \in ChatIds /\ C2WKey(made[d]) \in Keys
    BY <1>2, KeysDiffer DEF MadeIsMine
  <2>2. table[C2WKey(made[d])] = ClaimedRow(d, IdempotencyTTL)
    BY <1>2 DEF SendsAreMarked
  <2>3. Firm(table[C2WKey(made[d])]) /\ ActiveClaim(table[C2WKey(made[d])], d)
    BY <2>2, RowFields DEF Firm, ActiveClaim
  <2>4. ~(Release(d) \/ C2WLimited(d) \/ C2WMark(d) \/ Complete(d) \/ W2CPair(d))
    BY <1>2 DEF Release, C2WLimited, C2WMark, Complete, W2CPair, Goto, TypeOK
  <2>5. \A x \in Deliveries : ActiveClaim(table[C2WKey(made[d])], x) => x = d
    BY <2>3 DEF ActiveClaim
  <2>6. table'[C2WKey(made[d])] = table[C2WKey(made[d])]
    BY <2>1, <2>3, <2>4, <2>5, FirmRows
  <2>7. made'[d] = made[d]
    <3>1. ASSUME NEW x \in Deliveries, Handler(x)
          PROVE  W2CPublish(x) \/ made' = made
      BY <3>1 DEF Handler, Paused, Claim, ClaimReadStatus, Release, Complete, C2WAdmit,
         C2WJoin, C2WWaitTimeout, C2WLimited, C2WMark, C2WSend, W2CAdmit, W2COrigin,
         W2CEnsure, W2CCreateIncoming, W2CSuppress, W2CPair, W2CFinish, W2CKeep
    <3>2. ASSUME NEW x \in Deliveries, W2CPublish(x)
          PROVE  x # d /\ made'[d] = made[d]
      BY <1>2, <3>2 DEF W2CPublish, TypeOK
    <3> QED
      BY <3>1, <3>2, StepCases DEF AgentWrites, SetPaused, Crash, PersonWrites,
                                   ClaimLapses, Deliver, vars
  <2> QED
    BY <2>2, <2>6, <2>7
<1> QED
  BY <1>1, <1>2, PlaceChanges, HandlerGoes

\* The row of a message that was sent stays firm and keeps the message's ID.
LEMMA SentStaysMarked ==
    ASSUME "garbled" \notin Outcomes, IInv, SendsAreMarked, [Next]_vars,
           NEW c \in ChatIds, sent'[c] > 0
    PROVE  Firm(table'[C2WKey(c)]) /\ table'[C2WKey(c)].evo = EvoId(c)
<1> USE DEF IInv
<1> DEFINE k == C2WKey(c)
<1>1. k \in Keys /\ EvoId(c) # NoMessage
  BY KeysDiffer, IdsDiffer
<1>2. CASE sent'[c] # sent[c]
  <2>1. PICK d \in Deliveries : C2WSend(d) /\ event[d].chat = c
    BY <1>2, SentChanges
  <2>2. pc[d] = "send" /\ IsC2W(d) /\ table' = table
    BY <2>1 DEF C2WSend, PlacesFitEvents
  <2>3. table[k] = MarkedRow(d, EvoId(c), IdempotencyTTL)
    BY <2>1, <2>2, EventFacts DEF SendsAreMarked
  <2> QED
    BY <2>2, <2>3, RowFields DEF Firm
<1>3. CASE sent'[c] = sent[c] /\ table'[k] # table[k]
  <2>1. Firm(table[k]) /\ table[k].evo = EvoId(c)
    BY <1>3 DEF SendsAreMarked
  <2>2. PICK d \in Deliveries :
              /\ ActiveClaim(table[k], d)
              /\ \/ /\ k = KeyOf(d)
                    /\ Release(d) \/ C2WLimited(d) \/ C2WMark(d) \/ Complete(d) \/ W2CPair(d)
                 \/ k = C2WKey(made[d]) /\ W2CPair(d)
    BY <1>1, <1>3, <2>1, FirmRows
  <2>3. CASE W2CPair(d)
    <3>1. pc[d] = "pair" /\ k = C2WKey(made[d])
      BY <2>2, <2>3, PairFacts, WhoseKey
    <3> QED
      BY <1>1, <2>1, <3>1, RowFields DEF SendsAreMarked
  <2>4. CASE (C2WLimited(d) \/ C2WMark(d)) /\ k = KeyOf(d)
    <3>1. pc[d] = "limit" /\ Holds(d)
      BY <2>2, <2>4 DEF C2WLimited, C2WMark, Holds
    <3> QED
      BY <1>1, <2>1, <2>4, <3>1 DEF SendsAreMarked
  <2>5. CASE Release(d) /\ k = KeyOf(d)
    <3>1. pc[d] = "release" /\ IsC2W(d) /\ event[d].chat = c
      BY <2>5, WhoseKey DEF Release
    <3> QED
      BY <1>3, <3>1 DEF SendsAreMarked
  <2>6. CASE Complete(d) /\ k = KeyOf(d)
    <3>1. IsC2W(d) /\ event[d].chat = c
      BY <2>6, WhoseKey DEF Complete
    <3>2. table'[k] = SentRow(EvoId(c), IdempotencyTTL)
      BY <1>1, <1>3, <2>6, <3>1 DEF Complete, SetRow, DBFails, TypeOK
    <3> QED
      BY <3>2, RowFields DEF Firm
  <2> QED
    BY <2>2, <2>3, <2>4, <2>5, <2>6
<1>4. CASE sent'[c] = sent[c] /\ table'[k] = table[k]
  BY <1>4 DEF SendsAreMarked
<1> QED
  BY <1>2, <1>3, <1>4

LEMMA SendsAreMarkedStep ==
    ASSUME "garbled" \notin Outcomes, IInv, SendsAreMarked, [Next]_vars
    PROVE  SendsAreMarked'
<1> USE DEF IInv
<1>1. ASSUME NEW d \in Deliveries, pc[d] # "idle"
      PROVE  /\ pc'[d] = "limit" /\ Holds(d)' => table'[KeyOf(d)'].evo = NoMessage
             /\ pc'[d] = "send" \/ (IsC2W(d)' /\ pc'[d] \in {"complete", "release"})
                   => table'[KeyOf(d)'] = MarkedRow(d, EvoId(event'[d].chat), IdempotencyTTL)
             /\ pc'[d] = "send" \/ (IsC2W(d)' /\ pc'[d] = "release")
                   => sent'[event'[d].chat] = 0
             /\ pc'[d] = "pair" => table'[C2WKey(made'[d])] = ClaimedRow(d, IdempotencyTTL)
  <2>1. event'[d] = event[d] /\ IsC2W(d)' = IsC2W(d) /\ KeyOf(d)' = KeyOf(d)
    BY <1>1, WebhooksLast
  <2>2. Holds(d)' = ActiveClaim(table'[KeyOf(d)], d)
    BY <2>1 DEF Holds, ActiveClaim
  <2> QED
    BY <1>1, <2>1, <2>2, LimitStep, MarksStep, PairClaimStep
<1>2. ASSUME NEW d \in Deliveries, pc[d] = "idle"
      PROVE  pc'[d] \in {"idle", "start"}
  BY <1>2, PlaceChanges, HandlerGoes DEF Crash, Working
<1> QED
  BY <1>1, <1>2, SentStaysMarked DEF SendsAreMarked

LEMMA SentOnceStep ==
    ASSUME "garbled" \notin Outcomes, IInv, SendsAreMarked, SentAtMostOnce, [Next]_vars
    PROVE  SentAtMostOnce'
<1> SUFFICES ASSUME NEW c \in ChatIds, sent'[c] # sent[c]
             PROVE  sent'[c] <= 1
  BY DEF SentAtMostOnce
<1>1. PICK d \in Deliveries : C2WSend(d) /\ event[d].chat = c
  BY SentChanges DEF IInv
<1>2. sent[c] = 0
  BY <1>1 DEF C2WSend, SendsAreMarked
<1> QED
  BY <1>2, SentChanges DEF IInv

-----------------------------------------------------------------------------
(* Echoes.                                                                 *)

LEMMA EchoesStopStep ==
    ASSUME IInv, SendsAreMarked, EchoesStop, [Next]_vars
    PROVE  EchoesStop'
<1> USE DEF IInv
<1> DEFINE Stops == {"start", "origin", "paused", "limited", "skipped", "error", "crashed"}
<1> SUFFICES ASSUME NEW d \in Deliveries, NEW c \in ChatIds,
                    event'[d] # NoEvent, ~IsC2W(d)', event'[d].id = EvoId(c)
             PROVE  pc'[d] \in Stops
  BY DEF EchoesStop
<1>1. CASE pc[d] = "idle"
  BY <1>1, PlaceChanges, HandlerGoes, EventChanges DEF EventsAreAnnounced, Crash, Working
<1>2. CASE pc[d] # "idle"
  <2>1. event'[d] = event[d] /\ ~IsC2W(d)
    BY <1>2, WebhooksLast
  <2>2. pc[d] \in Stops /\ IsOwn(d) /\ sent[c] > 0
    <3>1. \A w \in written : event[d].id # NativeId(w)
      BY <2>1, IdsDiffer DEF TypeOK
    <3> QED
      BY <1>2, <2>1, <3>1, EventFacts, IdsDiffer DEF EchoesStop
  <2>3. CASE Handler(d)
    <3>1. Paused(d) \/ W2CAdmit(d) \/ W2COrigin(d)
      BY <2>1, <2>2, <2>3 DEF Handler, Claim, ClaimReadStatus, Release, Complete,
         C2WAdmit, C2WJoin, C2WWaitTimeout, C2WLimited, C2WMark, C2WSend, W2CEnsure,
         W2CCreateIncoming, W2CPublish, W2CSuppress, W2CPair, W2CFinish, W2CKeep
    <3>2. CASE Paused(d)
      BY <3>2 DEF Paused, Goto, TypeOK
    <3>3. CASE W2CAdmit(d)
      BY <2>2, <3>3 DEF W2CAdmit, Goto, TypeOK
    <3>4. CASE W2COrigin(d)
      <4>1. RecognisesEcho(table[C2WKey(c)], event[d].id, Now)
        BY <2>1, <2>2 DEF RecognisesEcho, SendsAreMarked, Firm, Now, IdempotencyTTL
      <4> QED
        BY <3>4, <4>1 DEF W2COrigin, Goto, TypeOK
    <3> QED
      BY <3>1, <3>2, <3>3, <3>4
  <2> QED
    BY <2>2, <2>3, PlaceChanges
<1> QED
  BY <1>1, <1>2

-----------------------------------------------------------------------------
(* WhatsApp -> Chatwoot, the messages typed on the phone.                  *)

\* A publication in Chatwoot is one new message of a creating or publishing
\* handler.
LEMMA PublicationChanges ==
    ASSUME TypeOK, [Next]_vars, NEW id \in MessageIds,
           Publications(id)' # Publications(id)
    PROVE  \E d \in Deliveries, c \in ChatIds :
              /\ W2CCreateIncoming(d) \/ W2CPublish(d)
              /\ event[d].id = id
              /\ chat[c] = NoChat
              /\ Publications(id)' = Publications(id) \cup {c}
<1>1. PICK c \in ChatIds : c \in Publications(id)' /\ chat'[c] # chat[c]
  BY PlatformsLast DEF Publications
<1>2. chat[c] = NoChat /\ chat'[c].by = id
  BY <1>1, ChatChanges DEF Publications
<1>3. ~AgentWrites
  <2>1. AgentWrites => chat'[c].by = Agent
    <3>1. \A t : [dir |-> "out", by |-> Agent, text |-> t].by = Agent
      OBVIOUS
    <3>2. ASSUME AgentWrites
          PROVE  \E t : chat'[c] = [dir |-> "out", by |-> Agent, text |-> t]
      BY <1>1, <3>2 DEF AgentWrites, NewChat, TypeOK
    <3> QED
      BY <3>1, <3>2
  <2> QED
    BY <1>2, <2>1, IdsDiffer
<1>4. PICK d \in Deliveries : W2CCreateIncoming(d) \/ W2CPublish(d)
  BY <1>1, <1>3, ChatChanges
<1>5. PICK x \in ChatIds : /\ chat[x] = NoChat
                          /\ chat' = [chat EXCEPT ![x] = chat'[x]]
                          /\ chat'[x].by = event[d].id
  <2>1. \A dir, t : [dir |-> dir, by |-> event[d].id, text |-> t].by = event[d].id
    OBVIOUS
  <2>2. PICK x \in ChatIds :
           \E dir, t : NewChat(x, [dir |-> dir, by |-> event[d].id, text |-> t])
    BY <1>1, <1>4 DEF W2CCreateIncoming, W2CPublish
  <2>3. PICK dir, t : NewChat(x, [dir |-> dir, by |-> event[d].id, text |-> t])
    BY <2>2
  <2>4. chat'[x] = [dir |-> dir, by |-> event[d].id, text |-> t]
    BY <2>3 DEF NewChat, TypeOK
  <2> QED
    BY <2>1, <2>3, <2>4 DEF NewChat
<1>6. x = c
  BY <1>1, <1>5 DEF TypeOK
<1>7. event[d].id = id
  BY <1>2, <1>5, <1>6 DEF TypeOK
<1>8. \A y \in ChatIds : y # c => chat'[y] = chat[y]
  BY <1>5, <1>6 DEF TypeOK
<1>9. Publications(id)' = Publications(id) \cup {c}
  BY <1>1, <1>8 DEF Publications
<1> QED
  BY <1>2, <1>4, <1>7, <1>9

LEMMA NoLoopToChatwootStep ==
    ASSUME IInv, EchoesStop, NoLoopToChatwoot, [Next]_vars
    PROVE  NoLoopToChatwoot'
<1> SUFFICES ASSUME NEW c \in ChatIds, Publications(EvoId(c))' # Publications(EvoId(c))
             PROVE  FALSE
  BY DEF NoLoopToChatwoot
<1>1. PICK d \in Deliveries :
         (W2CCreateIncoming(d) \/ W2CPublish(d)) /\ event[d].id = EvoId(c)
  BY PublicationChanges, IdsDiffer DEF IInv
<1>2. pc[d] \in {"create", "publish"}
  BY <1>1 DEF W2CCreateIncoming, W2CPublish
<1>3. event[d] # NoEvent /\ ~IsC2W(d)
  BY <1>2, EventFacts DEF IInv, PlacesFitEvents, IsOwn, IsC2W
<1> QED
  BY <1>1, <1>2, <1>3 DEF EchoesStop

\* How a publication ends, when no answer is garbled: if the message may be in
\* Chatwoot the claim is kept.
LEMMA PublishResult ==
    ASSUME "garbled" \notin Outcomes, TypeOK, NEW d \in Deliveries, W2CPublish(d)
    PROVE  /\ pc[d] = "publish" /\ pc'[d] \in {"suppress", "finish"}
           /\ table' = table /\ event' = event
           /\ after'[d] = "release" => chat' = chat
           /\ after'[d] \in {"keep", "release"}
<1>1. PICK out \in Outcomes :
          IF Performed(out)
            THEN \E c \in ChatIds :
                   /\ NewChat(c, [dir |-> "out", by |-> event[d].id, text |-> Text(d)])
                   /\ made' = [made EXCEPT ![d] = IF out = "ok" THEN c ELSE 0]
                   /\ Goto(d, IF out = "ok" THEN "suppress" ELSE "finish")
                   /\ after' = [after EXCEPT ![d] =
                                  IF out = "garbled" THEN "release" ELSE "keep"]
            ELSE /\ Goto(d, "finish")
                 /\ after' = [after EXCEPT ![d] =
                                IF Transport(out) THEN "keep" ELSE "release"]
                 /\ UNCHANGED <<chat, made>>
  BY DEF W2CPublish
<1>2. pc[d] = "publish" /\ table' = table /\ event' = event
  BY DEF W2CPublish
<1>3. CASE Performed(out)
  BY <1>1, <1>2, <1>3 DEF Goto, TypeOK
<1>4. CASE ~Performed(out)
  BY <1>1, <1>2, <1>4 DEF Goto, TypeOK
<1> QED
  BY <1>3, <1>4

\* An own handler at work keeps its claim until it acts on it.
LEMMA OwnAtWorkStep ==
    ASSUME "garbled" \notin Outcomes, IInv, OwnClaimsHold, [Next]_vars,
           NEW d \in Deliveries, pc[d] # "idle", OwnAtWork(d)'
    PROVE  /\ table'[KeyOf(d)] = ClaimedRow(d, IdempotencyTTL)
           /\ OwnAtWork(d) \/ Claim(d)
<1> USE DEF IInv
<1>1. IsOwn(d) /\ ~IsC2W(d) /\ KeyOf(d) \in Keys
  BY WebhooksLast, EventFacts DEF OwnAtWork
<1>2. pc'[d] \in {"ensure", "publish", "suppress", "pair", "release"}
        \/ (pc'[d] = "finish" /\ after'[d] = "release")
  BY DEF OwnAtWork
<1>3. ASSUME OwnAtWork(d), ~W2CPair(d)
      PROVE  table'[KeyOf(d)] = ClaimedRow(d, IdempotencyTTL)
  <2>1. table[KeyOf(d)] = ClaimedRow(d, IdempotencyTTL)
    BY <1>3 DEF OwnClaimsHold
  <2>2. Firm(table[KeyOf(d)]) /\ ActiveClaim(table[KeyOf(d)], d)
    BY <2>1, RowFields DEF Firm, ActiveClaim
  <2>3. ~(C2WLimited(d) \/ C2WMark(d) \/ Complete(d))
    BY <1>3 DEF C2WLimited, C2WMark, Complete, OwnAtWork
  <2>4. ~Release(d)
    BY <1>2 DEF Release, Goto, TypeOK
  <2>5. \A x \in Deliveries : ActiveClaim(table[KeyOf(d)], x) => x = d
    BY <2>2 DEF ActiveClaim
  <2> QED
    BY <1>1, <1>3, <2>1, <2>2, <2>3, <2>4, <2>5, FirmRows
<1>4. W2CPair(d) => FALSE
  <2>1. W2CPair(d) => /\ pc'[d] = "finish" /\ pc[d] = "pair"
                      /\ after'[d] \in {after[d], "ok"}
    BY DEF W2CPair, Goto, TypeOK
  <2>2. pc[d] = "pair" => after[d] = "keep"
    BY DEF MadeIsMine
  <2> QED
    BY <1>2, <2>1, <2>2
<1>5. CASE Claim(d)
  <2>1. pc'[d] # "error" /\ pc'[d] # "lost"
    BY <1>2
  <2>2. table' = [table EXCEPT ![KeyOf(d)] = ClaimedRow(d, IdempotencyTTL)]
    BY <1>1, <1>5, <2>1 DEF Claim, SetRow, Goto, DBFails, TypeOK
  <2> QED
    BY <1>1, <1>5, <2>2 DEF TypeOK
<1>6. CASE Handler(d) /\ ~Claim(d)
  <2>1. /\ ~C2WSend(d) /\ ~W2CCreateIncoming(d)
    BY <1>1 DEF C2WSend, W2CCreateIncoming, PlacesFitEvents
  <2>2. W2CEnsure(d) \/ W2CFinish(d) \/ W2CPublish(d) \/ W2CSuppress(d)
    BY <1>2, <1>4, <1>6, <2>1, HandlerGoes
  <2>3. CASE W2CEnsure(d)
    BY <1>1, <1>3, <2>3 DEF W2CEnsure, OwnAtWork, W2CPair
  <2>4. CASE W2CPublish(d)
    BY <1>1, <1>3, <1>4, <2>4 DEF W2CPublish, OwnAtWork
  <2>5. CASE W2CSuppress(d)
    BY <1>1, <1>3, <1>4, <2>5 DEF W2CSuppress, OwnAtWork
  <2>6. CASE W2CFinish(d)
    <3>1. pc[d] = "finish" /\ pc'[d] = after[d]
      BY <2>6 DEF W2CFinish
    <3> QED
      BY <1>1, <1>2, <1>3, <1>4, <3>1 DEF OwnAtWork, TypeOK
  <2> QED
    BY <2>2, <2>3, <2>4, <2>5, <2>6
<1>7. CASE pc'[d] = pc[d] /\ ~Handler(d)
  <2>1. after'[d] = after[d]
    BY <1>7, AfterChanges DEF Handler
  <2>2. OwnAtWork(d)
    BY <1>1, <1>2, <1>7, <2>1 DEF OwnAtWork
  <2> QED
    BY <1>3, <1>4, <2>2
<1> QED
  BY <1>2, <1>5, <1>6, <1>7, PlaceChanges

\* The handler that publishes a message typed on the phone holds its claim.
LEMMA PublisherHolds ==
    ASSUME IInv, OwnClaimsHold, EchoesStop, NEW w \in FromPhone, NEW d \in Deliveries,
           W2CCreateIncoming(d) \/ W2CPublish(d), event[d].id = NativeId(w)
    PROVE  /\ W2CPublish(d) /\ pc[d] = "publish"
           /\ KeyOf(d) = W2CKey(NativeId(w), TRUE)
           /\ table[KeyOf(d)] = ClaimedRow(d, IdempotencyTTL)
           /\ Publications(NativeId(w)) = {}
<1> USE DEF IInv
<1>1. pc[d] \in {"create", "publish"} /\ ~IsC2W(d)
  BY DEF W2CCreateIncoming, W2CPublish, PlacesFitEvents, IsOwn, IsC2W
<1>2. event[d].own = TRUE
  <2>1. w \in WaIds /\ \A c \in ChatIds : event[d].id # EvoId(c)
    BY IdsDiffer DEF WaIds
  <2>2. \A v \in written : event[d].id = NativeId(v) => v = w
    BY <2>1, NativeIdsDiffer DEF TypeOK
  <2> QED
    BY <1>1, <2>1, <2>2, EventFacts
<1>3. IsOwn(d) /\ KeyOf(d) = W2CKey(NativeId(w), TRUE)
  BY <1>1, <1>2, EventFacts
<1>4. W2CPublish(d) /\ pc[d] = "publish"
  BY <1>1, <1>3 DEF W2CCreateIncoming, W2CPublish, PlacesFitEvents
<1>5. OwnAtWork(d) /\ NotYetPublished(d)
  BY <1>3, <1>4 DEF OwnAtWork, NotYetPublished
<1> QED
  BY <1>3, <1>4, <1>5 DEF OwnClaimsHold

\* The handler that is about to publish an own message is the first to do so.
LEMMA NotYetPublishedStep ==
    ASSUME "garbled" \notin Outcomes, IInv, OwnClaimsHold, EchoesStop, NoLoopToChatwoot,
           [Next]_vars, NEW d \in Deliveries, pc[d] # "idle", NotYetPublished(d)'
    PROVE  Publications(event[d].id)' = {}
<1> USE DEF IInv
<1>1. OwnAtWork(d)' /\ IsOwn(d) /\ ~IsC2W(d) /\ event[d].id \in MessageIds
  BY WebhooksLast, EventFacts DEF OwnAtWork, NotYetPublished
<1>2. Publications(event[d].id) = {}
  <2>1. CASE Claim(d)
    <3>1. Claimable(table[KeyOf(d)], Now)
      <4>1. pc'[d] # "error" /\ pc'[d] # "lost"
        BY DEF NotYetPublished
      <4> QED
        BY <2>1, <4>1 DEF Claim, Goto, DBFails, TypeOK
    <3>2. ~Firm(table[KeyOf(d)])
      BY <3>1 DEF Firm, Claimable, IdempotencyTTL, Now
    <3>3. CASE \E c \in ChatIds : event[d].id = EvoId(c)
      BY <3>3 DEF NoLoopToChatwoot
    <3>4. ASSUME NEW w \in written, event[d].id = NativeId(w), event[d].own = (w \in FromPhone)
          PROVE  Publications(event[d].id) = {}
      <4>1. w \in FromPhone /\ KeyOf(d) = W2CKey(NativeId(w), TRUE)
        BY <1>1, <3>4, EventFacts DEF IsOwn
      <4> QED
        BY <3>2, <3>4, <4>1 DEF OwnClaimsHold
    <3> QED
      BY <1>1, <3>3, <3>4, EventFacts
  <2>2. CASE OwnAtWork(d)
    <3>1. CASE NotYetPublished(d)
      BY <3>1 DEF OwnClaimsHold
    <3>2. CASE pc[d] \in {"suppress", "pair"}
      <4>1. pc'[d] \in {"suppress", "pair", "finish", "crashed"}
        <5>1. CASE Handler(d)
          <6>1. W2CSuppress(d) \/ W2CPair(d)
            BY <3>2, <5>1 DEF Handler, Paused, Claim, ClaimReadStatus, Release,
               Complete, C2WAdmit, C2WJoin, C2WWaitTimeout, C2WLimited, C2WMark,
               C2WSend, W2CAdmit, W2COrigin, W2CEnsure, W2CCreateIncoming, W2CPublish,
               W2CFinish, W2CKeep
          <6> QED
            BY <6>1 DEF W2CSuppress, W2CPair, Goto, DBFails, TypeOK
        <5> QED
          BY <3>2, <5>1, PlaceChanges
      <4>2. after[d] = "keep" /\ after'[d] \in {"keep", "ok"}
        <5>1. after[d] = "keep" /\ ~W2CPublish(d)
          BY <3>2 DEF MadeIsMine, W2CPublish
        <5> QED
          BY <5>1, AfterChanges
      <4> QED
        BY <4>1, <4>2 DEF NotYetPublished
    <3> QED
      BY <2>2, <3>1, <3>2 DEF OwnAtWork, NotYetPublished
  <2> QED
    BY <1>1, <2>1, <2>2, OwnAtWorkStep
<1>3. PICK id \in MessageIds : id = event[d].id /\ id = event'[d].id
  BY <1>1, WebhooksLast
<1>4. SUFFICES ASSUME Publications(id)' # Publications(id)
               PROVE  FALSE
  BY <1>2, <1>3 DEF Publications
<1>5. PICK x \in Deliveries : (W2CCreateIncoming(x) \/ W2CPublish(x)) /\ event[x].id = id
  BY <1>4, PublicationChanges
<1>6. \A c \in ChatIds : id # EvoId(c)
  <2>1. pc[x] \in {"create", "publish"} /\ ~IsC2W(x)
    BY <1>5 DEF W2CCreateIncoming, W2CPublish, PlacesFitEvents, IsOwn, IsC2W
  <2>2. event[x] # NoEvent
    BY <2>1, EventFacts
  <2> QED
    BY <1>5, <2>1, <2>2 DEF EchoesStop
<1>7. PICK w \in FromPhone : id = NativeId(w) /\ KeyOf(d) = W2CKey(NativeId(w), TRUE)
  BY <1>1, <1>3, <1>6, EventFacts DEF IsOwn
<1>8. W2CPublish(x) /\ table[KeyOf(d)] = ClaimedRow(x, IdempotencyTTL)
  BY <1>5, <1>7, PublisherHolds
<1>9. x = d
  <2>1. table' = table
    BY <1>8 DEF W2CPublish
  <2>2. table[KeyOf(d)] = ClaimedRow(d, IdempotencyTTL)
    BY <1>1, <2>1, OwnAtWorkStep
  <2> QED
    BY <1>8, <2>2 DEF ClaimedRow
<1>10. pc'[d] = "finish" /\ after'[d] = "release"
  BY <1>8, <1>9, PublishResult DEF NotYetPublished
<1>11. chat' = chat
  BY <1>8, <1>9, <1>10, PublishResult
<1> QED
  BY <1>4, <1>11 DEF Publications

\* The row of a published own message can no longer be claimed.
LEMMA PublishedStaysFirm ==
    ASSUME IInv, OwnClaimsHold, EchoesStop, [Next]_vars, NEW w \in FromPhone,
           Publications(NativeId(w))' # {}
    PROVE  Firm(table'[W2CKey(NativeId(w), TRUE)])
<1> USE DEF IInv
<1> DEFINE k == W2CKey(NativeId(w), TRUE)
<1>1. k \in Keys /\ NativeId(w) \in MessageIds
  BY KeysDiffer, IdsDiffer DEF WaIds
<1>2. CASE Publications(NativeId(w))' # Publications(NativeId(w))
  <2>1. PICK d \in Deliveries :
           (W2CCreateIncoming(d) \/ W2CPublish(d)) /\ event[d].id = NativeId(w)
    BY <1>1, <1>2, PublicationChanges
  <2>2. table[k] = ClaimedRow(d, IdempotencyTTL) /\ W2CPublish(d)
    BY <2>1, PublisherHolds
  <2>3. table' = table
    BY <2>2 DEF W2CPublish
  <2>4. Firm(ClaimedRow(d, IdempotencyTTL))
    BY DEF Firm, ClaimedRow
  <2> QED
    BY <2>2, <2>3, <2>4
<1>3. CASE Publications(NativeId(w))' = Publications(NativeId(w)) /\ table'[k] = table[k]
  BY <1>3 DEF OwnClaimsHold
<1>4. CASE Publications(NativeId(w))' = Publications(NativeId(w)) /\ table'[k] # table[k]
  <2>1. Firm(table[k])
    BY <1>4 DEF OwnClaimsHold
  <2>2. PICK d \in Deliveries :
              \/ /\ k = KeyOf(d)
                 /\ Release(d) \/ C2WLimited(d) \/ C2WMark(d) \/ Complete(d) \/ W2CPair(d)
              \/ k = C2WKey(made[d]) /\ W2CPair(d)
    BY <1>1, <1>4, <2>1, FirmRows
  <2>3. k # C2WKey(made[d])
    BY KeysDiffer
  <2>4. pc[d] # "idle" /\ k = KeyOf(d)
    BY <2>2, <2>3 DEF Release, C2WLimited, C2WMark, Complete, W2CPair
  <2>5. ~IsC2W(d) /\ event[d].id = NativeId(w) /\ event[d].own = TRUE
    BY <1>1, <2>4, WhoseKey
  <2>6. IsOwn(d)
    BY <2>4, <2>5, EventFacts
  <2>7. ~(C2WLimited(d) \/ C2WMark(d) \/ Complete(d))
    BY <2>5, <2>6 DEF C2WLimited, C2WMark, Complete, PlacesFitEvents
  <2>8. ~Release(d)
    <3>1. Release(d) => NotYetPublished(d)
      BY <2>6 DEF Release, NotYetPublished
    <3> QED
      BY <1>4, <2>5, <3>1 DEF OwnClaimsHold
  <2>9. CASE W2CPair(d)
    <3>1. table'[k] = SentRow(NoMessage, IdempotencyTTL)
      <4>1. table' = [table EXCEPT ![KeyOf(d)] = SentRow(NoMessage, IdempotencyTTL),
                                   ![C2WKey(made[d])] = SentRow(NoMessage, IdempotencyTTL)]
        BY <1>4, <2>9 DEF W2CPair
      <4> QED
        BY <1>1, <2>3, <2>4, <4>1 DEF TypeOK
    <3> QED
      BY <3>1, RowFields DEF Firm
  <2> QED
    BY <2>2, <2>3, <2>7, <2>8, <2>9
<1> QED
  BY <1>2, <1>3, <1>4

LEMMA OwnClaimsStep ==
    ASSUME "garbled" \notin Outcomes, IInv, OwnClaimsHold, EchoesStop, NoLoopToChatwoot,
           [Next]_vars
    PROVE  OwnClaimsHold'
<1>1. ASSUME NEW d \in Deliveries, pc[d] = "idle"
      PROVE  ~OwnAtWork(d)' /\ ~NotYetPublished(d)'
  <2>1. pc'[d] \in {"idle", "start"}
    BY <1>1, PlaceChanges, HandlerGoes DEF Crash, Working, IInv
  <2> QED
    BY <2>1 DEF OwnAtWork, NotYetPublished
<1>2. ASSUME NEW d \in Deliveries, pc[d] # "idle"
      PROVE  KeyOf(d)' = KeyOf(d) /\ event'[d] = event[d]
  BY <1>2, WebhooksLast DEF IInv
<1>3. \A d \in Deliveries : OwnAtWork(d)' =>
         table'[KeyOf(d)'] = ClaimedRow(d, IdempotencyTTL)
  BY <1>1, <1>2, OwnAtWorkStep
<1>4. \A d \in Deliveries : NotYetPublished(d)' => Publications(event[d].id)' = {}
  BY <1>1, <1>2, NotYetPublishedStep
<1> QED
  BY <1>3, <1>4, PublishedStaysFirm DEF OwnClaimsHold

LEMMA ManualOnceStep ==
    ASSUME IInv, OwnClaimsHold, EchoesStop, ManualPublishedAtMostOnce, [Next]_vars
    PROVE  ManualPublishedAtMostOnce'
<1> SUFFICES ASSUME NEW w \in FromPhone,
                    Publications(NativeId(w))' # Publications(NativeId(w))
             PROVE  Cardinality(Publications(NativeId(w))') <= 1
  BY DEF ManualPublishedAtMostOnce
<1>1. NativeId(w) \in MessageIds
  BY IdsDiffer DEF WaIds
<1>2. PICK d \in Deliveries, c \in ChatIds :
         /\ W2CCreateIncoming(d) \/ W2CPublish(d)
         /\ event[d].id = NativeId(w)
         /\ Publications(NativeId(w))' = Publications(NativeId(w)) \cup {c}
  BY <1>1, PublicationChanges DEF IInv
<1>3. Publications(NativeId(w))' = {c}
  BY <1>2, PublisherHolds
<1> QED
  BY <1>3, FS_Singleton

-----------------------------------------------------------------------------
(* The theorems.                                                           *)

LEMMA InitOnce ==
    Init => OnceInv
<1> SUFFICES ASSUME Init PROVE OnceInv
  OBVIOUS
<1>1. IInv
  BY InitIInv
<1>2. \A c \in ChatIds : sent[c] = 0 /\ chat[c] = NoChat
  BY DEF Init
<1>3. \A id : Publications(id) = {}
  BY <1>2 DEF Publications
<1>4. SendsAreMarked /\ SentAtMostOnce
  BY <1>2 DEF Init, SendsAreMarked, SentAtMostOnce
<1>5. EchoesStop /\ NoLoopToChatwoot
  BY <1>3 DEF Init, EchoesStop, NoLoopToChatwoot
<1>6. OwnClaimsHold
  BY <1>3 DEF Init, OwnClaimsHold, OwnAtWork, NotYetPublished
<1>7. ManualPublishedAtMostOnce
  BY <1>3, FS_EmptySet DEF ManualPublishedAtMostOnce
<1> QED
  BY <1>1, <1>4, <1>5, <1>6, <1>7 DEF OnceInv

LEMMA NextOnce ==
    ASSUME "garbled" \notin Outcomes
    PROVE  OnceInv /\ [Next]_vars => OnceInv'
BY NextIInv, SendsAreMarkedStep, SentOnceStep, EchoesStopStep, NoLoopToChatwootStep,
   OwnClaimsStep, ManualOnceStep DEF OnceInv

\* The strengthened invariant of a bridge no answer of which is garbled.
THEOREM OnceInvariant ==
    ASSUME "garbled" \notin Outcomes
    PROVE  Spec => []OnceInv
BY InitOnce, NextOnce, PTL DEF Spec

\* Whatever is delivered again, however often the connector crashes and calls
\* end in transport errors: WhatsApp accepts a Chatwoot message once.
THEOREM SentOnce ==
    ASSUME "garbled" \notin Outcomes
    PROVE  Spec => []SentAtMostOnce
<1>1. OnceInv => SentAtMostOnce
  BY DEF OnceInv
<1> QED
  BY OnceInvariant, <1>1, PTL

\* The echo of a message the bridge sent is never published in Chatwoot, also
\* when it arrives before the send is answered or after its handler died.
THEOREM NoEchoPublished ==
    ASSUME "garbled" \notin Outcomes
    PROVE  Spec => []NoLoopToChatwoot
<1>1. OnceInv => NoLoopToChatwoot
  BY DEF OnceInv
<1> QED
  BY OnceInvariant, <1>1, PTL

\* A message typed on the connected phone appears in Chatwoot at most once,
\* even if the answer of its publication was lost.
THEOREM ManualOnce ==
    ASSUME "garbled" \notin Outcomes
    PROVE  Spec => []ManualPublishedAtMostOnce
<1>1. OnceInv => ManualPublishedAtMostOnce
  BY DEF OnceInv
<1> QED
  BY OnceInvariant, <1>1, PTL

=============================================================================
