-------------------------- MODULE IdempotencyProofs --------------------------
(***************************************************************************)
(* Theorems about Idempotency for every set of keys and attempts and every *)
(* value of the TTLs.                                                      *)
(***************************************************************************)
EXTENDS Idempotency, TLAPS

-----------------------------------------------------------------------------
(* The inductive invariant.                                                *)

\* Nobody has asked in the future.
BeganInThePast == \A a \in Attempts : began[a] <= now

\* The token in a processing row is the one granted last, for that key.
TokenIsLastGrant ==
    \A k \in Keys : table[k].status = "processing" =>
        /\ table[k].token \in Attempts
        /\ KeyOf[table[k].token] = k
        /\ lastGrant[k] = table[k].token

\* An audit row belongs to an attempt that has finished, and to its key.
LogIsHistory ==
    \A e \in bridgeLog :
        /\ e.key = KeyOf[e.token]
        /\ e.at <= now
        /\ pc[e.token] \in {"delivered", "gone"}

\* Inside its window a confirmation keeps its key sent.
WindowKeepsKeySent ==
    \A e \in bridgeLog :
        \/ e.at + IdempotencyTTL <= now
        \/ /\ table[e.key].status = "sent"
           /\ e.at + IdempotencyTTL <= table[e.key].expires

\* What an attempt that lost the upsert may read as sent lapses after it asked.
LostReadsLive ==
    \A a \in Attempts : pc[a] = "lost" /\ Row(a).status = "sent"
                            => began[a] <= Row(a).expires

IInv ==
    /\ TypeOK
    /\ BeganInThePast
    /\ TokenIsLastGrant
    /\ LogIsHistory
    /\ WindowKeepsKeySent
    /\ SentIsAudited
    /\ LostReadsLive
    /\ CompletedAnswerIsBacked
    /\ DeliveriesSpaced

-----------------------------------------------------------------------------
(* Type correctness.                                                       *)

\* The rows that the table's operations write are rows.
LEMMA RowTypes ==
    ASSUME NEW tok \in Attempts, NEW until \in Int,
           NEW m \in Keys \cup {NoMessage}, NEW row \in Rows(Attempts, Keys)
    PROVE  /\ AbsentRow \in Rows(Attempts, Keys)
           /\ ClaimedRow(tok, until) \in Rows(Attempts, Keys)
           /\ MarkedRow(tok, m, until) \in Rows(Attempts, Keys)
           /\ SentRow(m, until) \in Rows(Attempts, Keys)
           /\ ReleasedRow(row) \in Rows(Attempts, Keys)
BY DEF Rows, Statuses, AbsentRow, ClaimedRow, MarkedRow, SentRow, ReleasedRow

\* Keys and lifetimes are in range.
LEMMA ConstantTypes ==
    /\ \A a \in Attempts : KeyOf[a] \in Keys /\ TTLOf(a) \in Nat
    /\ IdempotencyTTL \in Nat
BY ConstantsAssumption DEF TTLOf

LEMMA TypeInit == Init => TypeOK
BY RowTypes, ConstantsAssumption DEF Init, TypeOK, Rows, Statuses, AbsentRow

LEMMA TypeStep == TypeOK /\ [Next]_vars => TypeOK'
<1> SUFFICES ASSUME TypeOK, [Next]_vars PROVE TypeOK'
  OBVIOUS
<1> USE ConstantTypes
<1>1. CASE UNCHANGED vars
  BY <1>1 DEF vars, TypeOK
<1>2. CASE Tick
  BY <1>2 DEF Tick, TypeOK
<1>3. CASE PurgeExpired
  <2>1. table' \in [Keys -> Rows(Attempts, Keys)]
    BY <1>3, ConstantsAssumption
    DEF PurgeExpired, TypeOK, Rows, Statuses, AbsentRow
  <2> QED
    BY <1>3, <2>1 DEF PurgeExpired, TypeOK
<1>4. ASSUME NEW a \in Attempts, Step(a) PROVE TypeOK'
  <2>1. CASE ClaimAcquire(a)
    <3>1. ClaimedRow(a, now + TTLOf(a)) \in Rows(Attempts, Keys)
      BY DEF TypeOK, ClaimedRow, Rows, Statuses
    <3> QED
      BY <2>1, <3>1 DEF ClaimAcquire, Answered, TypeOK
  <2>2. CASE ClaimConflict(a)
    BY <2>2 DEF ClaimConflict, TypeOK
  <2>3. CASE ClaimReadStatus(a)
    BY <2>3 DEF ClaimReadStatus, StatusAnswer, TypeOK
  <2>4. CASE MarkC2WOrigin(a)
    <3>1. MarkedRow(a, KeyOf[a], now + IdempotencyTTL) \in Rows(Attempts, Keys)
      BY DEF TypeOK, MarkedRow, Rows, Statuses
    <3> QED
      BY <2>4, <3>1 DEF MarkC2WOrigin, Answered, Refused, TypeOK
  <2>5. CASE CompleteDelivery(a)
    <3>1. CompletedRow(a) \in Rows(Attempts, Keys)
      BY DEF TypeOK, CompletedRow, SentRow, Rows, Statuses
    <3> QED
      BY <2>5, <3>1
      DEF CompleteDelivery, AuditOf, Answered, Refused, TypeOK
  <2>6. CASE ReleaseIdempotency(a)
    <3>1. ReleasedRow(Row(a)) \in Rows(Attempts, Keys)
      BY DEF TypeOK, Row, ReleasedRow, Rows, Statuses
    <3> QED
      BY <2>6, <3>1 DEF ReleaseIdempotency, Answered, Refused, TypeOK
  <2>7. CASE Abandon(a)
    BY <2>7 DEF Abandon, TypeOK
  <2>8. ASSUME NEW b \in Attempts, CompleteManualOutgoing(a, b)
        PROVE  TypeOK'
    <3>1. /\ CompletedRow(a) \in Rows(Attempts, Keys)
          /\ CompletedRow(b) \in Rows(Attempts, Keys)
      BY DEF TypeOK, CompletedRow, SentRow, Rows, Statuses
    <3> QED
      BY <2>8, <3>1 DEF CompleteManualOutgoing, AuditOf, TypeOK
  <2> QED
    BY <1>4, <2>1, <2>2, <2>3, <2>4, <2>5, <2>6, <2>7, <2>8 DEF Step
<1> QED
  BY <1>1, <1>2, <1>3, <1>4 DEF Next

\* The state of the claim protocol always has the shape the schema gives it.
THEOREM TypeCorrect == Spec => []TypeOK
<1>1. Init => TypeOK
  BY TypeInit
<1>2. TypeOK /\ [Next]_vars => TypeOK'
  BY TypeStep
<1> QED
  BY <1>1, <1>2, PTL DEF Spec

LEMMA BeganStep == TypeOK /\ BeganInThePast /\ Next => BeganInThePast'
<1> SUFFICES ASSUME TypeOK, BeganInThePast, Next PROVE BeganInThePast'
  OBVIOUS
<1> USE ConstantTypes DEF TypeOK, BeganInThePast
<1>1. CASE Tick
  BY <1>1 DEF Tick
<1>2. CASE PurgeExpired
  BY <1>2 DEF PurgeExpired, AbsentRow
<1>3. ASSUME NEW a \in Attempts, ClaimAcquire(a) PROVE BeganInThePast'
  BY <1>3 DEF ClaimAcquire, Answered, ClaimedRow
<1>4. ASSUME NEW a \in Attempts, ClaimConflict(a) PROVE BeganInThePast'
  BY <1>4 DEF ClaimConflict
<1>5. ASSUME NEW a \in Attempts, ClaimReadStatus(a) PROVE BeganInThePast'
  BY <1>5 DEF ClaimReadStatus, StatusAnswer
<1>6. ASSUME NEW a \in Attempts, MarkC2WOrigin(a) PROVE BeganInThePast'
  BY <1>6 DEF MarkC2WOrigin, Answered, Refused, MarkedRow, ActiveClaim
<1>7. ASSUME NEW a \in Attempts, CompleteDelivery(a) PROVE BeganInThePast'
  BY <1>7 DEF CompleteDelivery, ReadyToComplete, Answered, Refused, CompletedRow, SentRow, ActiveClaim, AuditOf
<1>8. ASSUME NEW a \in Attempts, ReleaseIdempotency(a) PROVE BeganInThePast'
  BY <1>8 DEF ReleaseIdempotency, Answered, Refused, ReleasedRow, ActiveClaim
<1>9. ASSUME NEW a \in Attempts, Abandon(a) PROVE BeganInThePast'
  BY <1>9 DEF Abandon, Running
<1>10. ASSUME NEW a \in Attempts, NEW b \in Attempts, CompleteManualOutgoing(a, b)
       PROVE  BeganInThePast'
  BY <1>10 DEF CompleteManualOutgoing, CompletedRow, SentRow, ActiveClaim, AuditOf
<1> QED
  BY <1>1, <1>2, <1>3, <1>4, <1>5, <1>6, <1>7, <1>8, <1>9, <1>10 DEF Next, Step

LEMMA GrantStep == TypeOK /\ TokenIsLastGrant /\ Next => TokenIsLastGrant'
<1> SUFFICES ASSUME TypeOK, TokenIsLastGrant, Next PROVE TokenIsLastGrant'
  OBVIOUS
<1> USE ConstantTypes DEF TypeOK, TokenIsLastGrant, Rows, Row
<1>1. CASE Tick
  BY <1>1 DEF Tick
<1>2. CASE PurgeExpired
  BY <1>2 DEF PurgeExpired, AbsentRow
<1>3. ASSUME NEW a \in Attempts, ClaimAcquire(a) PROVE TokenIsLastGrant'
  BY <1>3 DEF ClaimAcquire, Answered, ClaimedRow
<1>4. ASSUME NEW a \in Attempts, ClaimConflict(a) PROVE TokenIsLastGrant'
  BY <1>4 DEF ClaimConflict
<1>5. ASSUME NEW a \in Attempts, ClaimReadStatus(a) PROVE TokenIsLastGrant'
  BY <1>5 DEF ClaimReadStatus, StatusAnswer
<1>6. ASSUME NEW a \in Attempts, MarkC2WOrigin(a) PROVE TokenIsLastGrant'
  BY <1>6 DEF MarkC2WOrigin, Answered, Refused, MarkedRow, ActiveClaim
<1>7. ASSUME NEW a \in Attempts, CompleteDelivery(a) PROVE TokenIsLastGrant'
  BY <1>7 DEF CompleteDelivery, ReadyToComplete, Answered, Refused, CompletedRow, SentRow, ActiveClaim, AuditOf
<1>8. ASSUME NEW a \in Attempts, ReleaseIdempotency(a) PROVE TokenIsLastGrant'
  BY <1>8 DEF ReleaseIdempotency, Answered, Refused, ReleasedRow, ActiveClaim
<1>9. ASSUME NEW a \in Attempts, Abandon(a) PROVE TokenIsLastGrant'
  BY <1>9 DEF Abandon, Running
<1>10. ASSUME NEW a \in Attempts, NEW b \in Attempts, CompleteManualOutgoing(a, b)
       PROVE  TokenIsLastGrant'
  BY <1>10 DEF CompleteManualOutgoing, CompletedRow, SentRow, ActiveClaim, AuditOf
<1> QED
  BY <1>1, <1>2, <1>3, <1>4, <1>5, <1>6, <1>7, <1>8, <1>9, <1>10 DEF Next, Step

LEMMA HistoryStep == TypeOK /\ LogIsHistory /\ Next => LogIsHistory'
<1> SUFFICES ASSUME TypeOK, LogIsHistory, Next PROVE LogIsHistory'
  OBVIOUS
<1> USE ConstantTypes DEF TypeOK, LogIsHistory
<1>1. CASE Tick
  BY <1>1 DEF Tick
<1>2. CASE PurgeExpired
  BY <1>2 DEF PurgeExpired, AbsentRow
<1>3. ASSUME NEW a \in Attempts, ClaimAcquire(a) PROVE LogIsHistory'
  BY <1>3 DEF ClaimAcquire, Answered, ClaimedRow
<1>4. ASSUME NEW a \in Attempts, ClaimConflict(a) PROVE LogIsHistory'
  BY <1>4 DEF ClaimConflict
<1>5. ASSUME NEW a \in Attempts, ClaimReadStatus(a) PROVE LogIsHistory'
  BY <1>5 DEF ClaimReadStatus, StatusAnswer
<1>6. ASSUME NEW a \in Attempts, MarkC2WOrigin(a) PROVE LogIsHistory'
  BY <1>6 DEF MarkC2WOrigin, Answered, Refused, MarkedRow, ActiveClaim
<1>7. ASSUME NEW a \in Attempts, CompleteDelivery(a) PROVE LogIsHistory'
  BY <1>7 DEF CompleteDelivery, ReadyToComplete, Answered, Refused, CompletedRow, SentRow, ActiveClaim, AuditOf
<1>8. ASSUME NEW a \in Attempts, ReleaseIdempotency(a) PROVE LogIsHistory'
  BY <1>8 DEF ReleaseIdempotency, Answered, Refused, ReleasedRow, ActiveClaim
<1>9. ASSUME NEW a \in Attempts, Abandon(a) PROVE LogIsHistory'
  BY <1>9 DEF Abandon, Running
<1>10. ASSUME NEW a \in Attempts, NEW b \in Attempts, CompleteManualOutgoing(a, b)
       PROVE  LogIsHistory'
  BY <1>10 DEF CompleteManualOutgoing, CompletedRow, SentRow, ActiveClaim, AuditOf
<1> QED
  BY <1>1, <1>2, <1>3, <1>4, <1>5, <1>6, <1>7, <1>8, <1>9, <1>10 DEF Next, Step

LEMMA WindowStep == TypeOK /\ LogIsHistory /\ WindowKeepsKeySent /\ Next => WindowKeepsKeySent'
<1> SUFFICES ASSUME TypeOK, LogIsHistory, WindowKeepsKeySent, Next PROVE WindowKeepsKeySent'
  OBVIOUS
<1> USE ConstantTypes DEF TypeOK, WindowKeepsKeySent, LogIsHistory, Rows, Row
<1>1. CASE Tick
  BY <1>1 DEF Tick
<1>2. CASE PurgeExpired
  BY <1>2 DEF PurgeExpired, AbsentRow
<1>3. ASSUME NEW a \in Attempts, ClaimAcquire(a) PROVE WindowKeepsKeySent'
  BY <1>3 DEF ClaimAcquire, Answered, ClaimedRow, Claimable
<1>4. ASSUME NEW a \in Attempts, ClaimConflict(a) PROVE WindowKeepsKeySent'
  BY <1>4 DEF ClaimConflict
<1>5. ASSUME NEW a \in Attempts, ClaimReadStatus(a) PROVE WindowKeepsKeySent'
  BY <1>5 DEF ClaimReadStatus, StatusAnswer
<1>6. ASSUME NEW a \in Attempts, MarkC2WOrigin(a) PROVE WindowKeepsKeySent'
  BY <1>6 DEF MarkC2WOrigin, Answered, Refused, MarkedRow, ActiveClaim
<1>7. ASSUME NEW a \in Attempts, CompleteDelivery(a) PROVE WindowKeepsKeySent'
  BY <1>7 DEF CompleteDelivery, ReadyToComplete, Answered, Refused, CompletedRow, SentRow, ActiveClaim, AuditOf
<1>8. ASSUME NEW a \in Attempts, ReleaseIdempotency(a) PROVE WindowKeepsKeySent'
  BY <1>8 DEF ReleaseIdempotency, Answered, Refused, ReleasedRow, ActiveClaim
<1>9. ASSUME NEW a \in Attempts, Abandon(a) PROVE WindowKeepsKeySent'
  BY <1>9 DEF Abandon, Running
<1>10. ASSUME NEW a \in Attempts, NEW b \in Attempts, CompleteManualOutgoing(a, b)
       PROVE  WindowKeepsKeySent'
  BY <1>10 DEF CompleteManualOutgoing, CompletedRow, SentRow, ActiveClaim, AuditOf
<1> QED
  BY <1>1, <1>2, <1>3, <1>4, <1>5, <1>6, <1>7, <1>8, <1>9, <1>10 DEF Next, Step

LEMMA AuditStep == TypeOK /\ SentIsAudited /\ Next => SentIsAudited'
<1> SUFFICES ASSUME TypeOK, SentIsAudited, Next PROVE SentIsAudited'
  OBVIOUS
<1> USE ConstantTypes DEF TypeOK, SentIsAudited, Rows, Row
<1>1. CASE Tick
  BY <1>1 DEF Tick
<1>2. CASE PurgeExpired
  BY <1>2 DEF PurgeExpired, AbsentRow
<1>3. ASSUME NEW a \in Attempts, ClaimAcquire(a) PROVE SentIsAudited'
  BY <1>3 DEF ClaimAcquire, Answered, ClaimedRow
<1>4. ASSUME NEW a \in Attempts, ClaimConflict(a) PROVE SentIsAudited'
  BY <1>4 DEF ClaimConflict
<1>5. ASSUME NEW a \in Attempts, ClaimReadStatus(a) PROVE SentIsAudited'
  BY <1>5 DEF ClaimReadStatus, StatusAnswer
<1>6. ASSUME NEW a \in Attempts, MarkC2WOrigin(a) PROVE SentIsAudited'
  BY <1>6 DEF MarkC2WOrigin, Answered, Refused, MarkedRow, ActiveClaim
<1>7. ASSUME NEW a \in Attempts, CompleteDelivery(a) PROVE SentIsAudited'
  <2> SUFFICES ASSUME NEW k \in Keys, table'[k].status = "sent"
               PROVE  \E e \in bridgeLog' :
                         /\ e.key = k
                         /\ e.at + IdempotencyTTL = table'[k].expires
    OBVIOUS
  <2>1. bridgeLog \subseteq bridgeLog'
    BY <1>7 DEF CompleteDelivery, Refused
  <2>2. CASE table'[k] = table[k]
    BY <2>1, <2>2
  <2>3. CASE table'[k] # table[k]
    <3>1. /\ k = KeyOf[a]
          /\ table'[k].expires = now + IdempotencyTTL
          /\ AuditOf(a) \in bridgeLog'
      BY <1>7, <2>3 DEF CompleteDelivery, Refused, CompletedRow, SentRow
    <3> QED
      BY <3>1 DEF AuditOf
  <2> QED
    BY <2>2, <2>3
<1>8. ASSUME NEW a \in Attempts, ReleaseIdempotency(a) PROVE SentIsAudited'
  BY <1>8 DEF ReleaseIdempotency, Answered, Refused, ReleasedRow, ActiveClaim
<1>9. ASSUME NEW a \in Attempts, Abandon(a) PROVE SentIsAudited'
  BY <1>9 DEF Abandon, Running
<1>10. ASSUME NEW a \in Attempts, NEW b \in Attempts,
              CompleteManualOutgoing(a, b)
       PROVE  SentIsAudited'
  <2> SUFFICES ASSUME NEW k \in Keys, table'[k].status = "sent"
               PROVE  \E e \in bridgeLog' :
                         /\ e.key = k
                         /\ e.at + IdempotencyTTL = table'[k].expires
    OBVIOUS
  <2>1. bridgeLog \subseteq bridgeLog'
    BY <1>10 DEF CompleteManualOutgoing
  <2>2. CASE table'[k] = table[k]
    BY <2>1, <2>2
  <2>3. CASE table'[k] # table[k]
    <3>1. /\ k = KeyOf[a] \/ k = KeyOf[b]
          /\ table'[k].expires = now + IdempotencyTTL
          /\ AuditOf(a) \in bridgeLog' /\ AuditOf(b) \in bridgeLog'
      BY <1>10, <2>3 DEF CompleteManualOutgoing, CompletedRow, SentRow
    <3> QED
      BY <3>1 DEF AuditOf
  <2> QED
    BY <2>2, <2>3
<1> QED
  BY <1>1, <1>2, <1>3, <1>4, <1>5, <1>6, <1>7, <1>8, <1>9, <1>10 DEF Next, Step

LEMMA LostStep == TypeOK /\ BeganInThePast /\ LostReadsLive /\ Next => LostReadsLive'
<1> SUFFICES ASSUME TypeOK, BeganInThePast, LostReadsLive, Next PROVE LostReadsLive'
  OBVIOUS
<1> USE ConstantTypes DEF TypeOK, BeganInThePast, LostReadsLive, Rows, Row
<1>1. CASE Tick
  BY <1>1 DEF Tick
<1>2. CASE PurgeExpired
  BY <1>2 DEF PurgeExpired, AbsentRow
<1>3. ASSUME NEW a \in Attempts, ClaimAcquire(a) PROVE LostReadsLive'
  BY <1>3 DEF ClaimAcquire, Answered, ClaimedRow
<1>4. ASSUME NEW a \in Attempts, ClaimConflict(a) PROVE LostReadsLive'
  BY <1>4 DEF ClaimConflict, Claimable
<1>5. ASSUME NEW a \in Attempts, ClaimReadStatus(a) PROVE LostReadsLive'
  BY <1>5 DEF ClaimReadStatus, StatusAnswer
<1>6. ASSUME NEW a \in Attempts, MarkC2WOrigin(a) PROVE LostReadsLive'
  BY <1>6 DEF MarkC2WOrigin, Answered, Refused, MarkedRow, ActiveClaim
<1>7. ASSUME NEW a \in Attempts, CompleteDelivery(a) PROVE LostReadsLive'
  BY <1>7 DEF CompleteDelivery, ReadyToComplete, Answered, Refused, CompletedRow, SentRow, ActiveClaim, AuditOf
<1>8. ASSUME NEW a \in Attempts, ReleaseIdempotency(a) PROVE LostReadsLive'
  BY <1>8 DEF ReleaseIdempotency, Answered, Refused, ReleasedRow, ActiveClaim
<1>9. ASSUME NEW a \in Attempts, Abandon(a) PROVE LostReadsLive'
  BY <1>9 DEF Abandon, Running
<1>10. ASSUME NEW a \in Attempts, NEW b \in Attempts, CompleteManualOutgoing(a, b)
       PROVE  LostReadsLive'
  BY <1>10 DEF CompleteManualOutgoing, CompletedRow, SentRow, ActiveClaim, AuditOf
<1> QED
  BY <1>1, <1>2, <1>3, <1>4, <1>5, <1>6, <1>7, <1>8, <1>9, <1>10 DEF Next, Step

LEMMA AnswerStep == TypeOK /\ LostReadsLive /\ SentIsAudited /\ CompletedAnswerIsBacked /\ Next => CompletedAnswerIsBacked'
<1> SUFFICES ASSUME TypeOK, LostReadsLive, SentIsAudited, CompletedAnswerIsBacked, Next PROVE CompletedAnswerIsBacked'
  OBVIOUS
<1> USE ConstantTypes DEF TypeOK, LostReadsLive, SentIsAudited, CompletedAnswerIsBacked, Rows, Row
<1>1. CASE Tick
  BY <1>1 DEF Tick
<1>2. CASE PurgeExpired
  BY <1>2 DEF PurgeExpired, AbsentRow
<1>3. ASSUME NEW a \in Attempts, ClaimAcquire(a) PROVE CompletedAnswerIsBacked'
  BY <1>3 DEF ClaimAcquire, Answered, ClaimedRow
<1>4. ASSUME NEW a \in Attempts, ClaimConflict(a) PROVE CompletedAnswerIsBacked'
  BY <1>4 DEF ClaimConflict
<1>5. ASSUME NEW a \in Attempts, ClaimReadStatus(a) PROVE CompletedAnswerIsBacked'
  BY <1>5 DEF ClaimReadStatus, StatusAnswer
<1>6. ASSUME NEW a \in Attempts, MarkC2WOrigin(a) PROVE CompletedAnswerIsBacked'
  BY <1>6 DEF MarkC2WOrigin, Answered, Refused, MarkedRow, ActiveClaim
<1>7. ASSUME NEW a \in Attempts, CompleteDelivery(a) PROVE CompletedAnswerIsBacked'
  BY <1>7 DEF CompleteDelivery, ReadyToComplete, Answered, Refused, CompletedRow, SentRow, ActiveClaim, AuditOf
<1>8. ASSUME NEW a \in Attempts, ReleaseIdempotency(a) PROVE CompletedAnswerIsBacked'
  BY <1>8 DEF ReleaseIdempotency, Answered, Refused, ReleasedRow, ActiveClaim
<1>9. ASSUME NEW a \in Attempts, Abandon(a) PROVE CompletedAnswerIsBacked'
  BY <1>9 DEF Abandon, Running
<1>10. ASSUME NEW a \in Attempts, NEW b \in Attempts, CompleteManualOutgoing(a, b)
       PROVE  CompletedAnswerIsBacked'
  BY <1>10 DEF CompleteManualOutgoing, CompletedRow, SentRow, ActiveClaim, AuditOf
<1> QED
  BY <1>1, <1>2, <1>3, <1>4, <1>5, <1>6, <1>7, <1>8, <1>9, <1>10 DEF Next, Step

LEMMA SpacedStep == TypeOK /\ LogIsHistory /\ WindowKeepsKeySent /\ DeliveriesSpaced /\ Next => DeliveriesSpaced'
<1> SUFFICES ASSUME TypeOK, LogIsHistory, WindowKeepsKeySent, DeliveriesSpaced, Next PROVE DeliveriesSpaced'
  OBVIOUS
<1> USE ConstantTypes DEF TypeOK, LogIsHistory, WindowKeepsKeySent, DeliveriesSpaced, Rows, Row
<1>1. CASE Tick
  BY <1>1 DEF Tick
<1>2. CASE PurgeExpired
  BY <1>2 DEF PurgeExpired, AbsentRow
<1>3. ASSUME NEW a \in Attempts, ClaimAcquire(a) PROVE DeliveriesSpaced'
  BY <1>3 DEF ClaimAcquire, Answered, ClaimedRow
<1>4. ASSUME NEW a \in Attempts, ClaimConflict(a) PROVE DeliveriesSpaced'
  BY <1>4 DEF ClaimConflict
<1>5. ASSUME NEW a \in Attempts, ClaimReadStatus(a) PROVE DeliveriesSpaced'
  BY <1>5 DEF ClaimReadStatus, StatusAnswer
<1>6. ASSUME NEW a \in Attempts, MarkC2WOrigin(a) PROVE DeliveriesSpaced'
  BY <1>6 DEF MarkC2WOrigin, Answered, Refused, MarkedRow, ActiveClaim
<1>7. ASSUME NEW a \in Attempts, CompleteDelivery(a) PROVE DeliveriesSpaced'
  BY <1>7 DEF CompleteDelivery, ReadyToComplete, Answered, Refused, CompletedRow, SentRow, ActiveClaim, AuditOf
<1>8. ASSUME NEW a \in Attempts, ReleaseIdempotency(a) PROVE DeliveriesSpaced'
  BY <1>8 DEF ReleaseIdempotency, Answered, Refused, ReleasedRow, ActiveClaim
<1>9. ASSUME NEW a \in Attempts, Abandon(a) PROVE DeliveriesSpaced'
  BY <1>9 DEF Abandon, Running
<1>10. ASSUME NEW a \in Attempts, NEW b \in Attempts, CompleteManualOutgoing(a, b)
       PROVE  DeliveriesSpaced'
  BY <1>10 DEF CompleteManualOutgoing, CompletedRow, SentRow, ActiveClaim, AuditOf
<1> QED
  BY <1>1, <1>2, <1>3, <1>4, <1>5, <1>6, <1>7, <1>8, <1>9, <1>10 DEF Next, Step

LEMMA InvInit == Init => IInv
<1> SUFFICES ASSUME Init PROVE IInv
  OBVIOUS
<1>1. TypeOK
  BY TypeInit
<1> QED
  BY <1>1 DEF Init, IInv, BeganInThePast, TokenIsLastGrant, LogIsHistory,
              WindowKeepsKeySent, SentIsAudited, LostReadsLive,
              CompletedAnswerIsBacked, DeliveriesSpaced, AbsentRow

LEMMA InvStutter == IInv /\ UNCHANGED vars => IInv'
<1> SUFFICES ASSUME IInv, UNCHANGED vars PROVE IInv'
  OBVIOUS
<1> QED
  BY DEF vars, IInv, TypeOK, BeganInThePast, TokenIsLastGrant, LogIsHistory,
         WindowKeepsKeySent, SentIsAudited, LostReadsLive, Row,
         CompletedAnswerIsBacked, DeliveriesSpaced

LEMMA InvStep == IInv /\ [Next]_vars => IInv'
<1>1. CASE UNCHANGED vars
  BY <1>1, InvStutter
<1>2. IInv /\ Next => IInv'
  BY TypeStep, BeganStep, GrantStep, HistoryStep, WindowStep, AuditStep,
     LostStep, AnswerStep, SpacedStep DEF IInv
<1> QED
  BY <1>1, <1>2

\* The inductive invariant holds for any attempts, keys and lifetimes.
THEOREM Invariance == Spec => []IInv
<1> QED
  BY InvInit, InvStep, PTL DEF Spec

-----------------------------------------------------------------------------
(* The properties that follow from it.                                     *)

\* Two confirmations of one key are IdempotencyTTL apart: no slow handler,
\* takeover, purge or lost answer lets a webhook be confirmed twice inside
\* the window (ClaimIdempotency, CompleteDelivery, CompleteManualOutgoing).
THEOREM Spaced == Spec => []DeliveriesSpaced
<1>1. IInv => DeliveriesSpaced
  BY DEF IInv
<1> QED
  BY <1>1, Invariance, PTL

\* A row is sent only with the audit row of its confirmation, whichever of
\* the two completing transactions wrote it.
THEOREM Audited == Spec => []SentIsAudited
<1>1. IInv => SentIsAudited
  BY DEF IInv
<1> QED
  BY <1>1, Invariance, PTL

\* ClaimCompleted is answered only for a key with a confirmation in or after
\* the window the handler asked in, despite the separate SELECT.
THEOREM AnswerBacked == Spec => []CompletedAnswerIsBacked
<1>1. IInv => CompletedAnswerIsBacked
  BY DEF IInv
<1> QED
  BY <1>1, Invariance, PTL

LEMMA FencingStep ==
    ASSUME TypeOK, TokenIsLastGrant, [Next]_vars,
           NEW a \in Attempts, Running(a), pc'[a] \in {"delivered", "released"}
    PROVE  lastGrant[KeyOf[a]] = a
<1> USE ConstantTypes DEF TypeOK
<1>1. ActiveClaim(Row(a), a)
  <2>1. \/ \E x \in Attempts : CompleteDelivery(x) \/ ReleaseIdempotency(x)
        \/ \E x, y \in Attempts : CompleteManualOutgoing(x, y)
    BY DEF Next, Step, vars, Running, Tick, PurgeExpired, ClaimAcquire,
           ClaimConflict, ClaimReadStatus, StatusAnswer, MarkC2WOrigin,
           Abandon, Answered, Refused
  <2>2. CASE \E x \in Attempts : CompleteDelivery(x) \/ ReleaseIdempotency(x)
    BY <2>2 DEF CompleteDelivery, ReleaseIdempotency, Answered, Refused, Running
  <2>3. CASE \E x, y \in Attempts : CompleteManualOutgoing(x, y)
    BY <2>3 DEF CompleteManualOutgoing, Running
  <2> QED
    BY <2>1, <2>2, <2>3
<1> QED
  BY <1>1 DEF ActiveClaim, Row, TokenIsLastGrant

\* Only the attempt that acquired a key last completes or releases it: the
\* claim token fences off handlers whose claim was taken over.
THEOREM Fencing == Spec => SupersededNeverFinishes
<1>1. IInv /\ [Next]_vars =>
        [\A a \in Attempts :
            Running(a) /\ pc'[a] \in {"delivered", "released"}
                => lastGrant[KeyOf[a]] = a]_vars
  BY FencingStep DEF IInv
<1> QED
  BY <1>1, Invariance, PTL DEF Spec, SupersededNeverFinishes

-----------------------------------------------------------------------------
(* Mutual exclusion of the handlers of one key, while handlers are timely. *)

\* A handler ends before a claim made or marked after it began can lapse.
TimelyHandlers == HandlerTTL < ClaimTTL /\ HandlerTTL < IdempotencyTTL

HandlersInTime == \A a \in Attempts : Running(a) => now <= began[a] + HandlerTTL

HoldersOwnTheirRow ==
    \A a \in Attempts : pc[a] \in {"holding", "marked"} =>
        /\ ActiveClaim(Row(a), a)
        /\ began[a] + HandlerTTL < Row(a).expires

LEMMA InTimeStep ==
    ASSUME TypeOK, HandlersInTime, Next
    PROVE  HandlersInTime'
<1> USE ConstantTypes, ConstantsAssumption DEF TypeOK, HandlersInTime, Running
<1>1. CASE Tick
  BY <1>1 DEF Tick
<1>2. CASE PurgeExpired
  BY <1>2 DEF PurgeExpired, AbsentRow
<1>3. ASSUME NEW a \in Attempts, ClaimAcquire(a) PROVE HandlersInTime'
  BY <1>3 DEF ClaimAcquire, Answered, ClaimedRow
<1>4. ASSUME NEW a \in Attempts, ClaimConflict(a) PROVE HandlersInTime'
  BY <1>4 DEF ClaimConflict
<1>5. ASSUME NEW a \in Attempts, ClaimReadStatus(a) PROVE HandlersInTime'
  BY <1>5 DEF ClaimReadStatus, StatusAnswer
<1>6. ASSUME NEW a \in Attempts, MarkC2WOrigin(a) PROVE HandlersInTime'
  BY <1>6 DEF MarkC2WOrigin, Answered, Refused, MarkedRow, ActiveClaim
<1>7. ASSUME NEW a \in Attempts, CompleteDelivery(a) PROVE HandlersInTime'
  BY <1>7 DEF CompleteDelivery, ReadyToComplete, Answered, Refused, ActiveClaim
<1>8. ASSUME NEW a \in Attempts, ReleaseIdempotency(a) PROVE HandlersInTime'
  BY <1>8 DEF ReleaseIdempotency, Answered, Refused, ActiveClaim
<1>9. ASSUME NEW a \in Attempts, Abandon(a) PROVE HandlersInTime'
  BY <1>9 DEF Abandon
<1>10. ASSUME NEW a \in Attempts, NEW b \in Attempts, CompleteManualOutgoing(a, b)
       PROVE  HandlersInTime'
  BY <1>10 DEF CompleteManualOutgoing, ActiveClaim
<1> QED
  BY <1>1, <1>2, <1>3, <1>4, <1>5, <1>6, <1>7, <1>8, <1>9, <1>10 DEF Next, Step

LEMMA OwnStep ==
    ASSUME TimelyHandlers, TypeOK, BeganInThePast, HandlersInTime, HoldersOwnTheirRow, Next
    PROVE  HoldersOwnTheirRow'
<1> USE ConstantTypes, ConstantsAssumption DEF TimelyHandlers, TypeOK, BeganInThePast, HandlersInTime, HoldersOwnTheirRow, Running, Row, Rows, ActiveClaim
<1>1. CASE Tick
  BY <1>1 DEF Tick
<1>2. CASE PurgeExpired
  BY <1>2 DEF PurgeExpired, AbsentRow
<1>3. ASSUME NEW a \in Attempts, ClaimAcquire(a) PROVE HoldersOwnTheirRow'
  BY <1>3 DEF ClaimAcquire, Answered, ClaimedRow, Claimable, TTLOf
<1>4. ASSUME NEW a \in Attempts, ClaimConflict(a) PROVE HoldersOwnTheirRow'
  BY <1>4 DEF ClaimConflict
<1>5. ASSUME NEW a \in Attempts, ClaimReadStatus(a) PROVE HoldersOwnTheirRow'
  BY <1>5 DEF ClaimReadStatus, StatusAnswer
<1>6. ASSUME NEW a \in Attempts, MarkC2WOrigin(a) PROVE HoldersOwnTheirRow'
  BY <1>6 DEF MarkC2WOrigin, Answered, Refused, MarkedRow, ActiveClaim
<1>7. ASSUME NEW a \in Attempts, CompleteDelivery(a) PROVE HoldersOwnTheirRow'
  BY <1>7 DEF CompleteDelivery, ReadyToComplete, Answered, Refused, ActiveClaim
<1>8. ASSUME NEW a \in Attempts, ReleaseIdempotency(a) PROVE HoldersOwnTheirRow'
  BY <1>8 DEF ReleaseIdempotency, Answered, Refused, ActiveClaim
<1>9. ASSUME NEW a \in Attempts, Abandon(a) PROVE HoldersOwnTheirRow'
  BY <1>9 DEF Abandon
<1>10. ASSUME NEW a \in Attempts, NEW b \in Attempts, CompleteManualOutgoing(a, b)
       PROVE  HoldersOwnTheirRow'
  BY <1>10 DEF CompleteManualOutgoing, ActiveClaim
<1> QED
  BY <1>1, <1>2, <1>3, <1>4, <1>5, <1>6, <1>7, <1>8, <1>9, <1>10 DEF Next, Step

\* With the deployed bounds (30 seconds against 2 minutes and a day) at most
\* one handler of a key is between its claim and its completion, so the remote
\* effect is never in progress twice.  IDEMPOTENCY_TTL is not validated by the
\* configuration: the theorem names the bound it has to respect.
THEOREM Exclusion == ASSUME TimelyHandlers PROVE Spec => []OneHolder
<1> DEFINE J == IInv /\ HandlersInTime /\ HoldersOwnTheirRow
<1>1. Init => J
  BY InvInit DEF Init, HandlersInTime, HoldersOwnTheirRow, Running
<1>2. J /\ [Next]_vars => J'
  <2>1. CASE UNCHANGED vars
    BY <2>1, InvStutter DEF vars, HandlersInTime, HoldersOwnTheirRow, Running, Row
  <2>2. J /\ Next => J'
    BY InvStep, InTimeStep, OwnStep, TimelyHandlers DEF IInv
  <2> QED
    BY <2>1, <2>2
<1>3. J => OneHolder
  BY ConstantTypes DEF HoldersOwnTheirRow, OneHolder, ActiveClaim, Row
<1> QED
  BY <1>1, <1>2, <1>3, PTL DEF Spec

-----------------------------------------------------------------------------
(* The claim protocol implements the ledger.                               *)

\* An attempt that passes the fence may record its key in the ledger.
LEMMA ActiveIsOpen ==
    ASSUME IInv, NEW a \in Attempts, pc[a] \in {"holding", "marked"},
           ActiveClaim(Row(a), a)
    PROVE  Promise!Open(a) /\ Promise!Entry(a) = AuditOf(a)
<1>1. \A e \in bridgeLog : e.token # a
  BY DEF IInv, LogIsHistory
<1>2. \A e \in bridgeLog : e.key = KeyOf[a] => e.at + IdempotencyTTL <= now
  BY DEF IInv, WindowKeepsKeySent, ActiveClaim, Row
<1> QED
  BY <1>1, <1>2 DEF Promise!Open, Promise!Entry, AuditOf

LEMMA LedgerStep ==
    IInv /\ [Next]_vars => [Promise!LedgerNext]_<<now, bridgeLog>>
<1> SUFFICES ASSUME IInv, [Next]_vars
             PROVE  Promise!LedgerNext \/ UNCHANGED <<now, bridgeLog>>
  OBVIOUS
<1>1. CASE Tick
  BY <1>1 DEF Tick, Promise!LedgerNext, Promise!Advance
<1>2. ASSUME NEW a \in Attempts, CompleteDelivery(a), ActiveClaim(Row(a), a)
      PROVE  Promise!LedgerNext
  <2>1. Promise!Open(a) /\ Promise!Entry(a) = AuditOf(a)
    BY <1>2, ActiveIsOpen DEF CompleteDelivery, ReadyToComplete
  <2>2. Promise!Record({a})
    BY <1>2, <2>1 DEF CompleteDelivery, Promise!Record
  <2> QED
    BY <2>2 DEF Promise!LedgerNext
<1>3. ASSUME NEW a \in Attempts, NEW b \in Attempts,
             CompleteManualOutgoing(a, b),
             ActiveClaim(Row(a), a), ActiveClaim(Row(b), b)
      PROVE  Promise!LedgerNext
  <2>1. /\ Promise!Open(a) /\ Promise!Entry(a) = AuditOf(a)
        /\ Promise!Open(b) /\ Promise!Entry(b) = AuditOf(b)
    BY <1>3, ActiveIsOpen DEF CompleteManualOutgoing
  <2>2. Promise!Record({a, b})
    <3>1. /\ bridgeLog' = bridgeLog \cup {AuditOf(a), AuditOf(b)}
          /\ now' = now
          /\ KeyOf[a] # KeyOf[b]
      BY <1>3 DEF CompleteManualOutgoing
    <3> QED
      BY <2>1, <3>1 DEF Promise!Record
  <2> QED
    BY <2>2 DEF Promise!LedgerNext
<1>4. CASE UNCHANGED vars
  BY <1>4 DEF vars
<1>5. CASE PurgeExpired
  BY <1>5 DEF PurgeExpired
<1>6. ASSUME NEW a \in Attempts, Step(a)
      PROVE  Promise!LedgerNext \/ UNCHANGED <<now, bridgeLog>>
  <2>1. CASE CompleteDelivery(a)
    BY <2>1, <1>2 DEF CompleteDelivery, Refused
  <2>2. ASSUME NEW b \in Attempts, CompleteManualOutgoing(a, b)
        PROVE  Promise!LedgerNext \/ UNCHANGED <<now, bridgeLog>>
    BY <2>2, <1>3 DEF CompleteManualOutgoing
  <2> QED
    BY <1>6, <2>1, <2>2 DEF Step, ClaimAcquire, ClaimConflict, ClaimReadStatus,
       MarkC2WOrigin, ReleaseIdempotency, Abandon, Refused
<1> QED
  BY <1>1, <1>4, <1>5, <1>6 DEF Next

\* Whatever handlers, crashes, purges and slow clients do to the table, the
\* confirmations it hands out form a ledger in which no attempt appears twice
\* and no key twice within IdempotencyTTL.
THEOREM Refinement == Spec => ImplementsLedger
<1>1. Init => Promise!LedgerInit
  BY DEF Init, Promise!LedgerInit
<1>2. IInv /\ [Next]_vars => [Promise!LedgerNext]_<<now, bridgeLog>>
  BY LedgerStep
<1> QED
  BY <1>1, <1>2, Invariance, PTL DEF Spec, ImplementsLedger, Promise!Ledger

=============================================================================
