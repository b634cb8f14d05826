------------------------ MODULE SignedDeliveryProofs ------------------------
(***************************************************************************)
(* Theorems about SignedDelivery for every set of keys and attempts, every *)
(* timestamp, window and TTL, and any distance of the two clocks.          *)
(***************************************************************************)
EXTENDS SignedDelivery, IdempotencyProofs

-----------------------------------------------------------------------------
(* The claim protocol behind the check is the claim protocol.              *)

\* A step of the signed deliveries is a step of the claims, or leaves them
\* alone.
LEMMA StepIsClaimStep == [SignedNext]_signedVars => [Next]_vars
<1> SUFFICES ASSUME [SignedNext]_signedVars PROVE [Next]_vars
  OBVIOUS
<1>1. CASE UNCHANGED signedVars
  BY <1>1 DEF signedVars, vars
<1>2. CASE SignedTick
  BY <1>2 DEF SignedTick, Next
<1>3. CASE SignedPurge
  BY <1>3 DEF SignedPurge, Next
<1>4. ASSUME NEW a \in Attempts, Verify(a) \/ GiveUp(a) \/ SignedStep(a)
      PROVE  [Next]_vars
  <2>1. CASE Verify(a)
    BY <2>1 DEF Verify
  <2>2. CASE GiveUp(a)
    BY <2>2 DEF GiveUp
  <2>3. CASE SignedStep(a)
    BY <2>3 DEF SignedStep, Next
  <2> QED
    BY <1>4, <2>1, <2>2, <2>3
<1> QED
  BY <1>1, <1>2, <1>3, <1>4 DEF SignedNext

\* Putting the signature check in front of the claims adds no behaviour: every
\* theorem about Idempotency holds for it.
THEOREM Implementation == SignedSpec => ImplementsClaims
<1>1. SignedInit => Init
  BY DEF SignedInit
<1>2. [SignedNext]_signedVars => [Next]_vars
  BY StepIsClaimStep
<1> QED
  BY <1>1, <1>2, PTL DEF SignedSpec, ImplementsClaims, Spec

-----------------------------------------------------------------------------
(* The invariant behind SentOnceEver.                                      *)

\* A signature was accepted inside its window, and its handler is in time.
VerifiedInWindow ==
    \A a \in Attempts : verified[a] # Unverified =>
        /\ Signed(a)
        /\ verified[a] \in Nat /\ verified[a] <= now
        /\ verified[a] + ClockOffset - SignedAt[a] <= ReplayWindow
        /\ SignedAt[a] - (verified[a] + ClockOffset) <= ReplayWindow
        /\ AtWork(a) => now <= verified[a] + HandlerTTL

\* Nobody claims a C2W key without an accepted signature.
ClaimsAreVerified ==
    \A a \in Attempts : Signed(a) /\ pc[a] # "idle" => verified[a] # Unverified

\* What may have been sent was marked.
SendsAreMarked ==
    \A a \in sends : /\ Signed(a)
                     /\ pc[a] \notin {"idle", "holding", "lost"}

\* ... and keeps its key closed to everybody else for IdempotencyTTL.
Closed(a) ==
    /\ Row(a).status \in {"processing", "sent"}
    /\ verified[a] + IdempotencyTTL <= Row(a).expires
    /\ Row(a).status = "processing" => Row(a).token = a

SendsAreClosed ==
    \A a \in sends : Closed(a) \/ verified[a] + IdempotencyTTL <= now

SInv ==
    /\ SignedTypeOK
    /\ VerifiedInWindow
    /\ ClaimsAreVerified
    /\ SendsAreMarked
    /\ SendsAreClosed
    /\ SentOnceEver

LEMMA SignedTypeStep == SignedTypeOK /\ [SignedNext]_signedVars => SignedTypeOK'
<1> SUFFICES ASSUME SignedTypeOK, [SignedNext]_signedVars
             PROVE  SignedTypeOK'
  OBVIOUS
<1>1. TypeOK'
  BY StepIsClaimStep, TypeStep DEF SignedTypeOK
<1>2. verified' \in [Attempts -> Int] /\ sends' \subseteq Attempts
  <2>1. CASE UNCHANGED signedVars
    BY <2>1 DEF signedVars, SignedTypeOK
  <2>2. CASE SignedTick \/ SignedPurge
    BY <2>2 DEF SignedTick, SignedPurge, SignedTypeOK
  <2>3. ASSUME NEW a \in Attempts, Verify(a) \/ GiveUp(a)
        PROVE  verified' \in [Attempts -> Int] /\ sends' \subseteq Attempts
    <3>1. now \in Int /\ Unverified \in Int
      BY DEF SignedTypeOK, TypeOK, Unverified
    <3>2. sends' = sends /\ \E t \in {now, Unverified} :
                                verified' = [verified EXCEPT ![a] = t]
      BY <2>3 DEF Verify, GiveUp
    <3> QED
      BY <3>1, <3>2 DEF SignedTypeOK
  <2>4. ASSUME NEW a \in Attempts, SignedStep(a)
        PROVE  verified' \in [Attempts -> Int] /\ sends' \subseteq Attempts
    BY <2>4 DEF SignedStep, RecordSends, SignedTypeOK
  <2> QED
    BY <2>1, <2>2, <2>3, <2>4 DEF SignedNext
<1> QED
  BY <1>1, <1>2 DEF SignedTypeOK

-----------------------------------------------------------------------------
(* What a step of the claim protocol does to control and to a row.         *)

Started(b) == pc[b] \notin {"idle", "holding", "lost"}

\* The attempt that passes from holding to marked has just marked its row.
MarksItsRow(a) ==
    /\ Signed(a)
    /\ ActiveClaim(Row(a), a)
    /\ table' = [table EXCEPT ![KeyOf[a]] =
                   MarkedRow(a, KeyOf[a], now + IdempotencyTTL)]

\* How a step of one attempt moves it and the others.
LEMMA ControlStep ==
    ASSUME TypeOK, NEW a \in Attempts, Step(a), NEW b \in Attempts
    PROVE  /\ now' = now
           /\ pc[b] # "idle" => pc'[b] # "idle"
           /\ pc[b] = "idle" /\ pc'[b] # "idle" => b = a
           /\ Running(b)' => pc[b] = "idle" \/ Running(b)
           /\ Started(b) => Started(b)'
           /\ pc[b] = "holding" /\ pc'[b] = "marked" => b = a /\ MarksItsRow(a)
<1> USE DEF TypeOK, Running, Started
<1>1. CASE ClaimAcquire(a)
  BY <1>1 DEF ClaimAcquire, Answered
<1>2. CASE ClaimConflict(a)
  BY <1>2 DEF ClaimConflict
<1>3. CASE ClaimReadStatus(a)
  BY <1>3 DEF ClaimReadStatus, StatusAnswer
<1>4. CASE MarkC2WOrigin(a)
  BY <1>4 DEF MarkC2WOrigin, Answered, Refused, MarksItsRow, Signed
<1>5. CASE CompleteDelivery(a)
  BY <1>5 DEF CompleteDelivery, ReadyToComplete, Answered, Refused
<1>6. CASE ReleaseIdempotency(a)
  BY <1>6 DEF ReleaseIdempotency, Answered, Refused
<1>7. CASE Abandon(a)
  BY <1>7 DEF Abandon
<1>8. ASSUME NEW c \in Attempts, CompleteManualOutgoing(a, c)
      PROVE  /\ now' = now
             /\ pc[b] # "idle" => pc'[b] # "idle"
             /\ pc[b] = "idle" /\ pc'[b] # "idle" => b = a
             /\ Running(b)' => pc[b] = "idle" \/ Running(b)
             /\ Started(b) => Started(b)'
             /\ pc[b] = "holding" /\ pc'[b] = "marked" => b = a /\ MarksItsRow(a)
  BY <1>8 DEF CompleteManualOutgoing
<1> QED
  BY <1>1, <1>2, <1>3, <1>4, <1>5, <1>6, <1>7, <1>8 DEF Step

\* A row changes under a claim that has failed or lapsed, or by the hand of
\* the attempt whose token it carries.
Renewed(k, t) ==
    /\ table'[k].status \in {"processing", "sent"}
    /\ table'[k].status = "processing" => table'[k].token = t
    /\ table'[k].expires = now + IdempotencyTTL

\* How a step changes the row of a key: a claim on a free row, or its holder's
\* renewal or release.
LEMMA RowStep ==
    ASSUME TypeOK, NEW a \in Attempts, Step(a), NEW k \in Keys
    PROVE  \/ table'[k] = table[k]
           \/ Claimable(table[k], now)
           \/ \E t \in Attempts :
                 /\ ActiveClaim(table[k], t)
                 /\ \/ Renewed(k, t)
                    \/ /\ table'[k].status = "failed"
                       /\ pc[t] \in {"holding", "marked"}
<1> USE ConstantTypes DEF TypeOK, Row
<1>1. CASE ClaimAcquire(a)
  BY <1>1 DEF ClaimAcquire
<1>2. CASE ClaimConflict(a) \/ ClaimReadStatus(a) \/ Abandon(a)
  BY <1>2 DEF ClaimConflict, ClaimReadStatus, Abandon
<1>3. CASE MarkC2WOrigin(a)
  BY <1>3 DEF MarkC2WOrigin, Refused, MarkedRow, Renewed
<1>4. CASE CompleteDelivery(a)
  BY <1>4 DEF CompleteDelivery, Refused, CompletedRow, SentRow, Renewed
<1>5. CASE ReleaseIdempotency(a)
  BY <1>5 DEF ReleaseIdempotency, Refused, ReleasedRow
<1>6. ASSUME NEW b \in Attempts, CompleteManualOutgoing(a, b)
      PROVE  \/ table'[k] = table[k]
             \/ \E t \in Attempts : ActiveClaim(table[k], t) /\ Renewed(k, t)
  BY <1>6 DEF CompleteManualOutgoing, CompletedRow, SentRow, Renewed
<1> QED
  BY <1>1, <1>2, <1>3, <1>4, <1>5, <1>6 DEF Step

-----------------------------------------------------------------------------
(* The parts of the invariant, step by step.                               *)

\* Verification and giving up touch one attempt that has not claimed.
LEMMA IdleStep ==
    ASSUME SignedTypeOK, NEW a \in Attempts, Verify(a) \/ GiveUp(a)
    PROVE  /\ pc[a] = "idle" /\ UNCHANGED vars /\ sends' = sends
           /\ \A b \in Attempts : b # a => verified'[b] = verified[b]
           /\ \/ verified'[a] = Unverified
              \/ /\ verified'[a] = now /\ Signed(a)
                 /\ now + ClockOffset - SignedAt[a] <= ReplayWindow
                 /\ SignedAt[a] - (now + ClockOffset) <= ReplayWindow
<1>1. CASE Verify(a)
  <2>1. verified'[a] = now /\ \A b \in Attempts : b # a => verified'[b] = verified[b]
    BY <1>1 DEF Verify, SignedTypeOK
  <2>2. /\ now + ClockOffset - SignedAt[a] <= ReplayWindow
        /\ SignedAt[a] - (now + ClockOffset) <= ReplayWindow
    <3>1. VerifySignature(TRUE, SignedAt[a], now + ClockOffset, ReplayWindow)
      BY <1>1 DEF Verify
    <3>2. SignedAt[a] \in Int /\ now \in Int /\ ClockOffset \in Int /\ ReplayWindow \in Int
      BY ConstantsAssumption, SignedAssumption DEF SignedTypeOK, TypeOK
    <3> QED
      BY <3>1, <3>2 DEF VerifySignature
  <2> QED
    BY <1>1, <2>1, <2>2 DEF Verify
<1>2. CASE GiveUp(a)
  BY <1>2 DEF GiveUp, SignedTypeOK
<1> QED
  BY <1>1, <1>2

LEMMA WindowStepSigned ==
    SignedTypeOK /\ VerifiedInWindow /\ SignedNext => VerifiedInWindow'
<1> SUFFICES ASSUME SignedTypeOK, VerifiedInWindow, SignedNext,
                    NEW b \in Attempts, verified'[b] # Unverified
             PROVE  /\ Signed(b)
                    /\ verified'[b] \in Nat /\ verified'[b] <= now'
                    /\ verified'[b] + ClockOffset - SignedAt[b] <= ReplayWindow
                    /\ SignedAt[b] - (verified'[b] + ClockOffset) <= ReplayWindow
                    /\ AtWork(b)' => now' <= verified'[b] + HandlerTTL
  BY DEF VerifiedInWindow, Signed
<1> USE ConstantsAssumption, SignedAssumption
<1>t. now \in Nat /\ TypeOK
  BY DEF SignedTypeOK, TypeOK
<1>1. CASE SignedTick
  <2>1. /\ now' = now + 1 /\ verified' = verified /\ pc' = pc
        /\ AtWork(b) => now < verified[b] + HandlerTTL
    BY <1>1 DEF SignedTick, Tick
  <2>2. AtWork(b)' <=> AtWork(b)
    BY <2>1 DEF AtWork, Running
  <2> QED
    BY <2>1, <2>2, <1>t DEF VerifiedInWindow
<1>2. CASE SignedPurge
  <2>1. UNCHANGED <<now, verified, pc>>
    BY <1>2 DEF SignedPurge, PurgeExpired
  <2> QED
    BY <2>1 DEF VerifiedInWindow, AtWork, Running
<1>3. ASSUME NEW a \in Attempts, Verify(a) \/ GiveUp(a)
      PROVE  /\ Signed(b)
             /\ verified'[b] \in Nat /\ verified'[b] <= now'
             /\ verified'[b] + ClockOffset - SignedAt[b] <= ReplayWindow
             /\ SignedAt[b] - (verified'[b] + ClockOffset) <= ReplayWindow
             /\ AtWork(b)' => now' <= verified'[b] + HandlerTTL
  <2>1. now' = now /\ pc' = pc
    BY <1>3, IdleStep DEF vars
  <2>2. CASE b = a
    BY <1>3, <1>t, <2>1, <2>2, IdleStep
  <2>3. CASE b # a
    <3>1. verified'[b] = verified[b]
      BY <1>3, <2>3, IdleStep
    <3> QED
      BY <2>1, <3>1 DEF VerifiedInWindow, AtWork, Running
  <2> QED
    BY <2>2, <2>3
<1>4. ASSUME NEW a \in Attempts, SignedStep(a)
      PROVE  /\ Signed(b)
             /\ verified'[b] \in Nat /\ verified'[b] <= now'
             /\ verified'[b] + ClockOffset - SignedAt[b] <= ReplayWindow
             /\ SignedAt[b] - (verified'[b] + ClockOffset) <= ReplayWindow
             /\ AtWork(b)' => now' <= verified'[b] + HandlerTTL
  <2>1. Step(a) /\ verified' = verified
    BY <1>4 DEF SignedStep
  <2>2. /\ now' = now
        /\ pc[b] # "idle" => pc'[b] # "idle"
        /\ Running(b)' => pc[b] = "idle" \/ Running(b)
    BY <1>t, <2>1, ControlStep
  <2>3. AtWork(b)' => AtWork(b)
    BY <2>1, <2>2 DEF AtWork
  <2> QED
    BY <2>1, <2>2, <2>3 DEF VerifiedInWindow
<1> QED
  BY <1>1, <1>2, <1>3, <1>4 DEF SignedNext

LEMMA ClaimsStep ==
    SignedTypeOK /\ ClaimsAreVerified /\ SignedNext => ClaimsAreVerified'
<1> SUFFICES ASSUME SignedTypeOK, ClaimsAreVerified, SignedNext,
                    NEW b \in Attempts, Signed(b), pc'[b] # "idle"
             PROVE  verified'[b] # Unverified
  BY DEF ClaimsAreVerified, Signed
<1>1. CASE SignedTick \/ SignedPurge
  BY <1>1 DEF SignedTick, Tick, SignedPurge, PurgeExpired, ClaimsAreVerified
<1>2. ASSUME NEW a \in Attempts, Verify(a) \/ GiveUp(a)
      PROVE  verified'[b] # Unverified
  <2>1. pc' = pc /\ b # a /\ verified'[b] = verified[b]
    BY <1>2, IdleStep DEF vars
  <2> QED
    BY <2>1 DEF ClaimsAreVerified
<1>3. ASSUME NEW a \in Attempts, SignedStep(a)
      PROVE  verified'[b] # Unverified
  <2>1. /\ Step(a) /\ verified' = verified
        /\ Signed(a) => verified[a] # Unverified
    BY <1>3 DEF SignedStep
  <2>2. pc[b] = "idle" => b = a
    BY <2>1, ControlStep DEF SignedTypeOK
  <2> QED
    BY <2>1, <2>2 DEF ClaimsAreVerified
<1> QED
  BY <1>1, <1>2, <1>3 DEF SignedNext

LEMMA MarkedStep ==
    SignedTypeOK /\ SendsAreMarked /\ SignedNext => SendsAreMarked'
<1> SUFFICES ASSUME SignedTypeOK, SendsAreMarked, SignedNext, NEW b \in sends'
             PROVE  Signed(b) /\ Started(b)'
  BY DEF SendsAreMarked, Signed, Started
<1>1. CASE SignedTick \/ SignedPurge
  BY <1>1 DEF SignedTick, Tick, SignedPurge, PurgeExpired, SendsAreMarked, Started
<1>2. ASSUME NEW a \in Attempts, Verify(a) \/ GiveUp(a)
      PROVE  Signed(b) /\ Started(b)'
  BY <1>2, IdleStep DEF vars, SendsAreMarked, Started
<1>3. ASSUME NEW a \in Attempts, SignedStep(a)
      PROVE  Signed(b) /\ Started(b)'
  <2>1. Step(a) /\ b \in Attempts
    BY <1>3 DEF SignedStep, RecordSends, SignedTypeOK
  <2>2. CASE b \in sends
    BY <2>1, <2>2, ControlStep DEF SendsAreMarked, Started, SignedTypeOK
  <2>3. CASE b \notin sends
    <3>1. pc[b] = "holding" /\ pc'[b] = "marked"
      BY <1>3, <2>3 DEF SignedStep, RecordSends
    <3> QED
      BY <2>1, <3>1, ControlStep DEF SignedTypeOK, MarksItsRow, Started
  <2> QED
    BY <2>2, <2>3
<1> QED
  BY <1>1, <1>2, <1>3 DEF SignedNext

\* What was sent and was not refused stays closed until it is too old to be
\* accepted again.
LEMMA ClosedStep ==
    /\ SignedTypeOK /\ VerifiedInWindow /\ ClaimsAreVerified
    /\ SendsAreMarked /\ SendsAreClosed /\ SignedNext
    => SendsAreClosed'
<1> SUFFICES ASSUME SignedTypeOK, VerifiedInWindow, ClaimsAreVerified,
                    SendsAreMarked, SendsAreClosed, SignedNext,
                    NEW x \in sends'
             PROVE  Closed(x)' \/ verified'[x] + IdempotencyTTL <= now'
  BY DEF SendsAreClosed
<1> DEFINE Safe == Closed(x)' \/ verified'[x] + IdempotencyTTL <= now'
<1> USE ConstantTypes
<1>t. /\ now \in Nat /\ TypeOK
      /\ table \in [Keys -> Rows(Attempts, Keys)]
      /\ verified \in [Attempts -> Int]
  BY DEF SignedTypeOK, TypeOK
<1>1. CASE SignedTick
  <2>1. /\ x \in sends /\ now' = now + 1
        /\ verified' = verified /\ table' = table
    BY <1>1 DEF SignedTick, Tick
  <2>2. x \in Attempts
    BY <2>1 DEF SignedTypeOK
  <2> QED
    BY <1>t, <2>1, <2>2 DEF SendsAreClosed, Closed, Row
<1>2. CASE SignedPurge
  <2>1. /\ x \in sends /\ x \in Attempts
        /\ now' = now /\ verified' = verified
        /\ table' = [k \in Keys |-> IF table[k].expires < now
                                      THEN AbsentRow ELSE table[k]]
    BY <1>2 DEF SignedPurge, PurgeExpired, SignedTypeOK
  <2>2. CASE Row(x).expires < now
    BY <1>t, <2>1, <2>2 DEF SendsAreClosed, Closed, Row, Rows
  <2>3. CASE ~(Row(x).expires < now)
    BY <1>t, <2>1, <2>3 DEF SendsAreClosed, Closed, Row
  <2> QED
    BY <2>2, <2>3
<1>3. ASSUME NEW a \in Attempts, Verify(a) \/ GiveUp(a)
      PROVE  Safe
  <2>1. /\ pc[a] = "idle" /\ now' = now /\ table' = table /\ x \in sends
        /\ \A b \in Attempts : b # a => verified'[b] = verified[b]
    BY <1>3, IdleStep DEF vars
  <2>2. x \in Attempts /\ x # a
    BY <2>1 DEF SendsAreMarked, SignedTypeOK
  <2> QED
    BY <2>1, <2>2 DEF SendsAreClosed, Closed, Row
<1>4. ASSUME NEW a \in Attempts, SignedStep(a)
      PROVE  Safe
  <2>1. /\ Step(a) /\ verified' = verified /\ now' = now
        /\ x \in Attempts /\ KeyOf[x] \in Keys
    BY <1>4, <1>t, ControlStep DEF SignedStep, RecordSends, SignedTypeOK
  <2>2. CASE x \notin sends
    <3>1. pc[x] = "holding" /\ pc'[x] = "marked"
      BY <1>4, <2>2 DEF SignedStep, RecordSends
    <3>2. x = a /\ MarksItsRow(a)
      BY <1>t, <2>1, <3>1, ControlStep
    <3>3. table'[KeyOf[x]] = MarkedRow(x, KeyOf[x], now + IdempotencyTTL)
      BY <1>t, <2>1, <3>2 DEF MarksItsRow
    <3>4. verified[x] \in Nat /\ verified[x] <= now
      BY <2>1, <3>1, <3>2 DEF VerifiedInWindow, ClaimsAreVerified, MarksItsRow
    <3> QED
      BY <1>t, <2>1, <3>3, <3>4 DEF Closed, Row, MarkedRow
  <2>3. CASE x \in sends /\ ~Closed(x)
    BY <2>1, <2>3 DEF SendsAreClosed
  <2>4. CASE x \in sends /\ Closed(x) /\ verified[x] + IdempotencyTTL > now
    <3>1. /\ ~Claimable(Row(x), now)
          /\ Row(x).status = "processing" => Row(x).token = x
      BY <1>t, <2>1, <2>4 DEF Closed, Claimable, Row, Rows
    <3>2. verified[x] \in Nat /\ verified[x] <= now /\ Started(x)
      BY <2>1, <2>4 DEF VerifiedInWindow, ClaimsAreVerified, SendsAreMarked, Started
    <3>3. \/ table'[KeyOf[x]] = Row(x)
          \/ \E t \in Attempts :
                /\ ActiveClaim(Row(x), t)
                /\ \/ Renewed(KeyOf[x], t)
                   \/ /\ table'[KeyOf[x]].status = "failed"
                      /\ pc[t] \in {"holding", "marked"}
      BY <1>t, <2>1, <3>1, RowStep DEF Row
    <3>4. CASE table'[KeyOf[x]] = Row(x)
      BY <2>1, <2>4, <3>4 DEF Closed, Row
    <3>5. ASSUME ActiveClaim(Row(x), x), Renewed(KeyOf[x], x)
          PROVE  Safe
      BY <1>t, <2>1, <3>2, <3>5 DEF Closed, Row, Renewed
    <3>6. ASSUME ActiveClaim(Row(x), x),
                 table'[KeyOf[x]].status = "failed",
                 pc[x] \in {"holding", "marked"}
          PROVE  FALSE
      <4>1. Freed(x)
        BY <3>2, <3>6 DEF Freed, Started
      <4> QED
        BY <1>4, <2>1, <4>1 DEF SignedStep, RecordSends
    <3> QED
      BY <3>1, <3>3, <3>4, <3>5, <3>6 DEF ActiveClaim
  <2>5. CASE x \in sends /\ verified[x] + IdempotencyTTL <= now
    BY <2>1, <2>5
  <2> QED
    BY <1>t, <2>1, <2>2, <2>3, <2>4, <2>5
<1> QED
  BY <1>1, <1>2, <1>3, <1>4 DEF SignedNext

\* The attempt that marks is inside its window, so whoever sent this key
\* before it still keeps the key closed: there was nobody.
LEMMA OnceStep == SInv /\ SignedNext => SentOnceEver'
<1> SUFFICES ASSUME SInv, SignedNext, TTLOutlastsReplay,
                    NEW x \in sends', NEW y \in sends',
                    KeyOf[x] = KeyOf[y], x \notin sends, x # y
             PROVE  FALSE
  BY DEF SentOnceEver, SInv, TTLOutlastsReplay
<1> USE ConstantsAssumption, SignedAssumption
<1>t. now \in Nat /\ TypeOK
  BY DEF SInv, SignedTypeOK, TypeOK
<1>1. PICK a \in Attempts : SignedStep(a)
  BY IdleStep DEF SignedNext, SignedTick, SignedPurge, SInv
<1>2. /\ Step(a) /\ x \in Attempts
      /\ pc[x] = "holding" /\ pc'[x] = "marked"
  BY <1>1 DEF SignedStep, RecordSends
<1>3. x = a /\ MarksItsRow(x)
  BY <1>t, <1>2, ControlStep
<1>4. y \in sends
  <2>1. ASSUME y \notin sends PROVE FALSE
    <3>1. y \in Attempts /\ pc[y] = "holding" /\ pc'[y] = "marked"
      BY <1>1, <2>1 DEF SignedStep, RecordSends
    <3>2. y = a
      BY <1>t, <1>2, <3>1, ControlStep
    <3> QED
      BY <1>3, <3>2
  <2> QED
    BY <2>1
<1>5. y \in Attempts /\ pc[y] # "idle" /\ Signed(y)
  BY <1>4 DEF SInv, SignedTypeOK, SendsAreMarked
<1>6. /\ verified[x] \in Nat /\ now <= verified[x] + HandlerTTL
      /\ verified[x] + ClockOffset - SignedAt[x] <= ReplayWindow
  BY <1>2, <1>3 DEF SInv, VerifiedInWindow, ClaimsAreVerified, AtWork, Running, MarksItsRow
<1>7. /\ verified[y] \in Nat
      /\ SignedAt[y] - (verified[y] + ClockOffset) <= ReplayWindow
  BY <1>5 DEF SInv, VerifiedInWindow, ClaimsAreVerified
<1>8. verified[y] + IdempotencyTTL <= now
  BY <1>3, <1>4 DEF SInv, SendsAreClosed, Closed, MarksItsRow, ActiveClaim, Row
<1>9. /\ SignedAt[x] \in Int /\ SignedAt[y] \in Int
      /\ SignedAt[x] - SignedAt[y] <= EventSpread
  BY <1>2, <1>3, <1>5 DEF MarksItsRow
<1> QED
  BY <1>t, <1>6, <1>7, <1>8, <1>9 DEF TTLOutlastsReplay

LEMMA SInvStep == SInv /\ [SignedNext]_signedVars => SInv'
<1> SUFFICES ASSUME SInv, [SignedNext]_signedVars PROVE SInv'
  OBVIOUS
<1>1. CASE UNCHANGED signedVars
  BY <1>1
  DEF signedVars, SInv, SignedTypeOK, TypeOK, VerifiedInWindow, AtWork, Running,
      Signed, ClaimsAreVerified, SendsAreMarked, SendsAreClosed, Closed, Row,
      SentOnceEver, TTLOutlastsReplay
<1>2. CASE SignedNext
  BY <1>2, SignedTypeStep, WindowStepSigned, ClaimsStep, MarkedStep, ClosedStep,
     OnceStep DEF SInv
<1> QED
  BY <1>1, <1>2

LEMMA SInvInit == SignedInit => SInv
<1> SUFFICES ASSUME SignedInit PROVE SInv
  OBVIOUS
<1>1. SignedTypeOK
  BY TypeInit DEF SignedInit, SignedTypeOK, Unverified
<1>2. \A a \in Attempts : verified[a] = Unverified /\ pc[a] = "idle"
  BY DEF SignedInit, Init
<1> QED
  BY <1>1, <1>2
  DEF SignedInit, SInv, VerifiedInWindow, ClaimsAreVerified, SendsAreMarked,
      SendsAreClosed, SentOnceEver

\* For every replay window, TTL and distance of the clocks that satisfy
\* TTLOutlastsReplay, the signed webhooks of a message send it at most once,
\* ever, in however many requests they come.
THEOREM SentOnce == SignedSpec => []SentOnceEver
<1>1. SInv => SentOnceEver
  BY DEF SInv
<1> QED
  BY <1>1, SInvInit, SInvStep, PTL DEF SignedSpec

=============================================================================
