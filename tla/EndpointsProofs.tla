--------------------------- MODULE EndpointsProofs ---------------------------
(***************************************************************************)
(* Theorems about Endpoints for any tenants and contacts, any number of    *)
(* requests at the limiters and any rate: a webhook is worked for the      *)
(* tenant whose secret it carries and about the contact of its chat, and   *)
(* the limiters grant exactly what rate and burst allow.                   *)
(***************************************************************************)
EXTENDS Endpoints, FiniteSetTheorems, TLAPS

-----------------------------------------------------------------------------
(* The token bucket.                                                       *)

Capacity == Token * Burst(LimitPerMin)

Buckets == [credit : 0..Capacity, last : Nat]

\* A bucket has room for one message at least.
LEMMA CapacityType == Capacity \in Nat /\ Capacity >= Token /\ Token = 60
<1>1. Burst(LimitPerMin) \in Nat /\ Burst(LimitPerMin) >= 1
  BY EndpointsAssumption DEF Burst
<1> QED
  BY <1>1 DEF Capacity, Token

\* A second earns LimitPerMin units, up to the capacity.
LEMMA Filling ==
    ASSUME NEW b \in Buckets, NEW t \in Nat, b.last <= t
    PROVE  /\ Advanced(b, LimitPerMin, t) \in 0..Capacity
           /\ Advanced(b, LimitPerMin, t + 1)
                = Lesser(Capacity, Advanced(b, LimitPerMin, t) + LimitPerMin)
<1>1. /\ b.credit \in Nat /\ b.last \in Nat /\ LimitPerMin \in Nat
      /\ b.credit <= Capacity
  BY EndpointsAssumption, CapacityType DEF Buckets
<1>2. PICK earned \in Nat : earned = LimitPerMin * (t - b.last)
  <2>1. t - b.last \in Nat
    BY <1>1
  <2> QED
    BY <1>1, <2>1
<1>3. LimitPerMin * ((t + 1) - b.last) = earned + LimitPerMin
  BY <1>1, <1>2
<1>4. /\ Advanced(b, LimitPerMin, t) = Lesser(Capacity, b.credit + earned)
      /\ Advanced(b, LimitPerMin, t + 1)
           = Lesser(Capacity, b.credit + (earned + LimitPerMin))
  BY <1>2, <1>3 DEF Advanced, Capacity
<1> QED
  BY <1>1, <1>4, CapacityType DEF Lesser

\* A message that is let through costs a token, one that is refused nothing.
LEMMA Taking ==
    ASSUME NEW b \in Buckets, NEW t \in Nat, b.last <= t
    PROVE  LET after == AfterAllow(b, LimitPerMin, t)
           IN  /\ after \in Buckets /\ after.last <= t
               /\ Advanced(after, LimitPerMin, t)
                    = Advanced(b, LimitPerMin, t)
                      - (IF Allows(b, LimitPerMin, t) THEN Token ELSE 0)
<1> DEFINE held == Advanced(b, LimitPerMin, t)
           after == AfterAllow(b, LimitPerMin, t)
<1>1. held \in 0..Capacity
  BY Filling
<1>2. CASE Allows(b, LimitPerMin, t)
  <2>1. after = [credit |-> held - Token, last |-> t]
    BY <1>2 DEF AfterAllow
  <2>2. held >= Token
    BY <1>2 DEF Allows
  <2>3. held - Token \in 0..Capacity
    BY <1>1, <2>2, CapacityType
  <2> HIDE DEF held, after
  <2>4. after \in Buckets /\ after.last = t /\ after.credit = held - Token
    BY <2>1, <2>3 DEF Buckets
  <2>5. LimitPerMin * (t - after.last) = 0
    BY <2>4, EndpointsAssumption
  <2>6. Advanced(after, LimitPerMin, t) = Lesser(Capacity, after.credit + 0)
    BY <2>5 DEF Advanced, Capacity
  <2>7. Advanced(after, LimitPerMin, t) = held - Token
    BY <1>1, <2>3, <2>4, <2>6, CapacityType DEF Lesser
  <2> QED
    BY <1>2, <2>4, <2>7 DEF held, after
<1>3. CASE ~Allows(b, LimitPerMin, t)
  BY <1>1, <1>3, CapacityType DEF AfterAllow
<1> QED
  BY <1>2, <1>3

\* A limiter is born full.
LEMMA BornFull ==
    ASSUME NEW t \in Nat
    PROVE  /\ NewLimiter(LimitPerMin, t) \in Buckets
           /\ NewLimiter(LimitPerMin, t).last = t
           /\ Advanced(NewLimiter(LimitPerMin, t), LimitPerMin, t) = Capacity
<1> DEFINE new == NewLimiter(LimitPerMin, t)
<1>1. new = [credit |-> Capacity, last |-> t]
  BY DEF NewLimiter, Capacity
<1> HIDE DEF new
<1>2. new \in Buckets /\ new.last = t /\ new.credit = Capacity
  BY <1>1, CapacityType DEF Buckets
<1>3. LimitPerMin * (t - new.last) = 0
  BY <1>2, EndpointsAssumption
<1>4. Advanced(new, LimitPerMin, t) = Lesser(Capacity, new.credit + 0)
  BY <1>3 DEF Advanced, Capacity
<1> QED
  BY <1>2, <1>4, CapacityType DEF Lesser, new

-----------------------------------------------------------------------------
(* What a lane was granted.                                                *)

Answers == [at : Nat, ok : BOOLEAN]

\* Granted for a log by itself.
CallsGranted(s, i, j) == {k \in i..j : s[k].ok}
GrantedIn(s, i, j) == Cardinality(CallsGranted(s, i, j))

\* The granted calls of a stretch of a log are finitely many.
LEMMA CallsFinite ==
    ASSUME NEW s, NEW i \in Int, NEW j \in Int
    PROVE  /\ IsFiniteSet(CallsGranted(s, i, j))
           /\ Cardinality(CallsGranted(s, i, j)) \in Nat
           /\ j < i => CallsGranted(s, i, j) = {}
<1>1. IsFiniteSet(i..j)
  BY FS_Interval
<1>2. IsFiniteSet(CallsGranted(s, i, j))
  BY <1>1, FS_Subset DEF CallsGranted
<1>3. j < i => CallsGranted(s, i, j) = {}
  BY DEF CallsGranted
<1> QED
  BY <1>2, <1>3, FS_CardinalityType

\* Their number is a natural number, none for an empty stretch.
LEMMA GrantedType ==
    ASSUME NEW s, NEW i \in Int, NEW j \in Int
    PROVE  GrantedIn(s, i, j) \in Nat /\ (j < i => GrantedIn(s, i, j) = 0)
BY CallsFinite, FS_EmptySet DEF GrantedIn

\* Another answer changes nothing about earlier ones, and counts from then on.
LEMMA GrantedGrows ==
    ASSUME NEW s \in Seq(Answers), NEW e \in Answers, NEW i \in 1..(Len(s) + 1)
    PROVE  LET t == Append(s, e)
           IN  /\ \A j \in 0..Len(s) : GrantedIn(t, i, j) = GrantedIn(s, i, j)
               /\ GrantedIn(t, i, Len(s) + 1)
                    = GrantedIn(s, i, Len(s)) + (IF e.ok THEN 1 ELSE 0)
<1> DEFINE t == Append(s, e)
           n == Len(s)
<1>1. /\ n \in Nat /\ \A k \in 1..n : t[k] = s[k]
      /\ t[n + 1] = e /\ i \in Nat /\ i >= 1
  OBVIOUS
<1>2. ASSUME NEW j \in 0..n
      PROVE  GrantedIn(t, i, j) = GrantedIn(s, i, j)
  <2>1. \A k \in i..j : t[k] = s[k]
    BY <1>1
  <2>2. CallsGranted(t, i, j) = CallsGranted(s, i, j)
    BY <2>1 DEF CallsGranted
  <2> QED
    BY <2>2 DEF GrantedIn
<1>3. GrantedIn(t, i, n + 1) = GrantedIn(s, i, n) + (IF e.ok THEN 1 ELSE 0)
  <2> DEFINE before == CallsGranted(s, i, n)
             after  == CallsGranted(t, i, n + 1)
  <2>1. IsFiniteSet(before) /\ Cardinality(before) \in Nat
    BY <1>1, CallsFinite
  <2>2. i..(n + 1) = (i..n) \cup {n + 1}
    BY <1>1
  <2>3. \A k \in i..n : t[k] = s[k]
    BY <1>1
  <2>4. CASE e.ok
    <3>1. after = before \cup {n + 1} /\ n + 1 \notin before
      BY <1>1, <2>2, <2>3, <2>4 DEF CallsGranted
    <3>2. Cardinality(after) = Cardinality(before) + 1
      BY <2>1, <3>1, FS_AddElement
    <3> QED
      BY <2>4, <3>2 DEF GrantedIn
  <2>5. CASE ~e.ok
    <3>1. after = before
      BY <1>1, <2>2, <2>3, <2>5 DEF CallsGranted
    <3> QED
      BY <2>1, <2>5, <3>1 DEF GrantedIn
  <2> QED
    BY <2>4, <2>5
<1> QED
  BY <1>2, <1>3

-----------------------------------------------------------------------------
(* The books of one lane: its log s and what its limiter holds now.        *)

\* LimiterIsExact for the log s.
ExactLog(s) ==
    \A j \in DOMAIN s :
        /\ \A i \in 1..j : Token * GrantedIn(s, i, j)
                              <= Capacity + LimitPerMin * (s[j].at - s[i].at)
        /\ ~s[j].ok =>
              \E i \in 1..j : Token * (GrantedIn(s, i, j) + 1)
                                 > Capacity + LimitPerMin * (s[j].at - s[i].at)

\* What was granted since any earlier answer, and what the bucket holds, is at
\* most what it held when full and has earned since; and there is an answer
\* since which it is not less, or the bucket is full.
Balanced(s, held, t) ==
    /\ \A i \in DOMAIN s : Token * GrantedIn(s, i, Len(s)) + held
                              <= Capacity + LimitPerMin * (t - s[i].at)
    /\ \/ held = Capacity
       \/ \E i \in DOMAIN s : Token * GrantedIn(s, i, Len(s)) + held
                                 >= Capacity + LimitPerMin * (t - s[i].at)

\* Time passes.
LEMMA BalancedLater ==
    ASSUME NEW s \in Seq(Answers), NEW held \in 0..Capacity, NEW t \in Nat,
           Balanced(s, held, t), \A i \in DOMAIN s : s[i].at <= t
    PROVE  Balanced(s, Lesser(Capacity, held + LimitPerMin), t + 1)
<1> DEFINE more == Lesser(Capacity, held + LimitPerMin)
           g(i) == GrantedIn(s, i, Len(s))
           earned(i) == LimitPerMin * (t - s[i].at)
<1>1. LimitPerMin \in Nat /\ Capacity \in Nat /\ held \in Nat /\ held <= Capacity
  BY EndpointsAssumption, CapacityType
<1>2. \A i \in DOMAIN s : /\ g(i) \in Nat /\ earned(i) \in Nat
                          /\ LimitPerMin * ((t + 1) - s[i].at) = earned(i) + LimitPerMin
  <2> SUFFICES ASSUME NEW i \in DOMAIN s
               PROVE  /\ g(i) \in Nat /\ earned(i) \in Nat
                      /\ LimitPerMin * ((t + 1) - s[i].at) = earned(i) + LimitPerMin
    OBVIOUS
  <2>1. i \in Int /\ Len(s) \in Int /\ s[i].at \in Nat /\ t - s[i].at \in Nat
    <3>1. i \in 1..Len(s) /\ s[i] \in Answers /\ s[i].at <= t
      OBVIOUS
    <3> QED
      BY <3>1 DEF Answers
  <2>2. (t + 1) - s[i].at = (t - s[i].at) + 1
    BY <2>1
  <2> QED
    BY <1>1, <2>1, <2>2, GrantedType
<1>3. more = IF Capacity <= held + LimitPerMin THEN Capacity ELSE held + LimitPerMin
  BY DEF Lesser
<1>4. /\ \A i \in DOMAIN s : Token * g(i) + held <= Capacity + earned(i)
      /\ \/ held = Capacity
         \/ \E i \in DOMAIN s : Token * g(i) + held >= Capacity + earned(i)
  BY DEF Balanced
<1> HIDE DEF g, earned, more
<1>5. /\ \A i \in DOMAIN s : Token * g(i) + more <= Capacity + (earned(i) + LimitPerMin)
      /\ \/ more = Capacity
         \/ \E i \in DOMAIN s : Token * g(i) + more >= Capacity + (earned(i) + LimitPerMin)
  <2>1. /\ more \in Nat /\ more <= held + LimitPerMin
        /\ more = Capacity \/ more = held + LimitPerMin
    BY <1>1, <1>3
  <2>2. ASSUME NEW i \in DOMAIN s
        PROVE  Token * g(i) + more <= Capacity + (earned(i) + LimitPerMin)
    <3>1. Token * g(i) + held <= Capacity + earned(i) /\ g(i) \in Nat /\ earned(i) \in Nat
      BY <1>2, <1>4
    <3> QED
      BY <1>1, <2>1, <3>1 DEF Token
  <2>3. CASE more = Capacity
    BY <2>2, <2>3
  <2>4. CASE more # Capacity
    <3>1. more = held + LimitPerMin /\ held # Capacity
      BY <1>1, <1>3, <2>1, <2>4
    <3>2. PICK i \in DOMAIN s : Token * g(i) + held >= Capacity + earned(i)
      BY <1>4, <3>1
    <3>3. g(i) \in Nat /\ earned(i) \in Nat
      BY <1>2
    <3>4. Token * g(i) + more >= Capacity + (earned(i) + LimitPerMin)
      BY <1>1, <3>1, <3>2, <3>3 DEF Token
    <3> QED
      BY <2>2, <3>4
  <2> QED
    BY <2>3, <2>4
<1>6. /\ \A i \in DOMAIN s :
            Token * g(i) + more <= Capacity + LimitPerMin * ((t + 1) - s[i].at)
      /\ \/ more = Capacity
         \/ \E i \in DOMAIN s :
               Token * g(i) + more >= Capacity + LimitPerMin * ((t + 1) - s[i].at)
  BY <1>2, <1>5
<1> QED
  BY <1>6 DEF Balanced, g, more

\* A call of Allow: an answer for a full token is yes, and costs one.
LEMMA BalancedAnswer ==
    ASSUME NEW s \in Seq(Answers), NEW held \in 0..Capacity, NEW t \in Nat,
           Balanced(s, held, t), ExactLog(s), \A i \in DOMAIN s : s[i].at <= t,
           NEW e \in Answers, e = [at |-> t, ok |-> held >= Token]
    PROVE  /\ Balanced(Append(s, e), held - (IF held >= Token THEN Token ELSE 0), t)
           /\ ExactLog(Append(s, e))
<1> DEFINE u == Append(s, e)
           n == Len(s)
           left == held - (IF held >= Token THEN Token ELSE 0)
           g(i) == GrantedIn(s, i, n)
           h(i) == GrantedIn(u, i, n + 1)
           earned(i) == LimitPerMin * (t - u[i].at)
<1>1. /\ LimitPerMin \in Nat /\ Capacity \in Nat /\ Capacity >= Token /\ Token = 60
      /\ held \in Nat /\ held <= Capacity
  BY EndpointsAssumption, CapacityType
<1>2. /\ n \in Nat /\ Len(u) = n + 1 /\ DOMAIN u = 1..(n + 1) /\ DOMAIN s = 1..n
      /\ \A k \in 1..n : u[k] = s[k]
      /\ u[n + 1] = e /\ e.at = t /\ e.ok = (held >= Token)
  OBVIOUS
<1>3. \A i \in 1..(n + 1) : /\ h(i) = g(i) + (IF held >= Token THEN 1 ELSE 0)
                            /\ g(i) \in Nat /\ earned(i) \in Nat
  <2> SUFFICES ASSUME NEW i \in 1..(n + 1)
               PROVE  /\ h(i) = g(i) + (IF held >= Token THEN 1 ELSE 0)
                      /\ g(i) \in Nat /\ earned(i) \in Nat
    OBVIOUS
  <2>1. h(i) = g(i) + (IF e.ok THEN 1 ELSE 0)
    BY GrantedGrows
  <2>2. g(i) \in Nat
    BY <1>2, GrantedType
  <2>3. u[i].at \in Nat /\ t - u[i].at \in Nat
    <3>1. CASE i \in 1..n
      <4>1. s[i] \in Answers /\ s[i].at <= t /\ u[i] = s[i]
        BY <1>2, <3>1
      <4> QED
        BY <4>1 DEF Answers
    <3>2. CASE i = n + 1
      BY <1>2, <3>2
    <3> QED
      BY <3>1, <3>2
  <2>4. earned(i) \in Nat
    BY <1>1, <2>3
  <2> QED
    BY <1>2, <2>1, <2>2, <2>4
<1>4. g(n + 1) = 0 /\ earned(n + 1) = 0
  BY <1>1, <1>2, GrantedType
<1>5. /\ \A i \in 1..n : Token * g(i) + held <= Capacity + earned(i)
      /\ \/ held = Capacity
         \/ \E i \in 1..n : Token * g(i) + held >= Capacity + earned(i)
  BY <1>2 DEF Balanced
<1>6. \A j \in 1..n : \A i \in 1..j :
         GrantedIn(u, i, j) = GrantedIn(s, i, j) /\ u[i] = s[i] /\ u[j] = s[j]
  BY <1>2, GrantedGrows
<1> HIDE DEF g, h, earned, left
<1>7. left = IF held >= Token THEN held - Token ELSE held
  BY <1>1 DEF left
<1>8. \A i \in 1..(n + 1) : Token * g(i) + held <= Capacity + earned(i)
  BY <1>1, <1>2, <1>4, <1>5
<1>9. \A i \in 1..(n + 1) : Token * h(i) + left = Token * g(i) + held
  BY <1>1, <1>3, <1>7
<1>10. \A i \in 1..(n + 1) : Token * h(i) + left <= Capacity + earned(i)
  BY <1>8, <1>9
<1>11. \/ left = Capacity
       \/ \E i \in 1..(n + 1) : Token * h(i) + left >= Capacity + earned(i)
  <2>1. CASE held = Capacity
    <3>1. Token * h(n + 1) + left >= Capacity + earned(n + 1)
      BY <1>1, <1>2, <1>4, <1>9, <2>1
    <3> QED
      BY <1>2, <3>1
  <2>2. CASE \E i \in 1..n : Token * g(i) + held >= Capacity + earned(i)
    BY <1>2, <1>9, <2>2
  <2> QED
    BY <1>5, <2>1, <2>2
<1>12. Balanced(u, left, t)
  BY <1>2, <1>10, <1>11 DEF Balanced, h, earned
<1>13. ASSUME NEW j \in 1..(n + 1)
       PROVE  /\ \A i \in 1..j : Token * GrantedIn(u, i, j)
                                    <= Capacity + LimitPerMin * (u[j].at - u[i].at)
              /\ ~u[j].ok =>
                    \E i \in 1..j : Token * (GrantedIn(u, i, j) + 1)
                                       > Capacity + LimitPerMin * (u[j].at - u[i].at)
  <2>1. CASE j \in 1..n
    BY <1>2, <1>6, <2>1 DEF ExactLog
  <2>2. CASE j = n + 1
    <3>1. u[j].at = t /\ u[j].ok = (held >= Token)
      BY <1>2, <2>2
    <3>2. \A i \in 1..(n + 1) : Token * h(i) <= Capacity + earned(i)
      <4>1. left \in Nat
        BY <1>1, <1>7
      <4>2. \A a, b \in Nat : a + left <= b => a <= b
        BY <4>1
      <4>3. ASSUME NEW i \in 1..(n + 1)
            PROVE  Token * h(i) <= Capacity + earned(i)
        <5>1. Token * h(i) \in Nat /\ Capacity + earned(i) \in Nat
          BY <1>1, <1>3
        <5>2. Token * h(i) + left <= Capacity + earned(i)
          BY <1>10
        <5> QED
          BY <4>2, <5>1, <5>2
      <4> QED
        BY <4>3
    <3>3. ASSUME ~(held >= Token)
          PROVE  \E i \in 1..(n + 1) : Token * (h(i) + 1) > Capacity + earned(i)
      <4>1. left = held /\ held < Token /\ held # Capacity
        BY <1>1, <1>7, <3>3
      <4>2. PICK i \in 1..(n + 1) : Token * h(i) + left >= Capacity + earned(i)
        BY <1>11, <4>1
      <4>3. Token * (h(i) + 1) > Capacity + earned(i)
        BY <1>1, <1>3, <4>1, <4>2
      <4> QED
        BY <4>3
    <3> QED
      BY <2>2, <3>1, <3>2, <3>3 DEF h, earned
  <2> QED
    BY <1>2, <2>1, <2>2
<1>14. ExactLog(u)
  BY <1>2, <1>13 DEF ExactLog
<1> QED
  BY <1>12, <1>14 DEF left

-----------------------------------------------------------------------------
(* Evolution Go's reports and what the normalisation makes of them.        *)

\* The least of at most three positions is one of them.
LEMMA LeastPosition ==
    ASSUME NEW D \in SUBSET (1..3), D # {}
    PROVE  Min(D) \in D
<1>1. \E x \in D : \A y \in D : x <= y
  <2>1. CASE 1 \in D
    BY <2>1
  <2>2. CASE 1 \notin D /\ 2 \in D
    BY <2>2
  <2>3. CASE 1 \notin D /\ 2 \notin D
    <3>1. PICK x \in D : TRUE
      OBVIOUS
    <3>2. x = 3 /\ \A y \in D : y = 3
      BY <2>3
    <3> QED
      BY <3>1, <3>2
  <2> QED
    BY <2>1, <2>2, <2>3
<1> QED
  BY <1>1 DEF Min

\* FirstDirectJID finds a direct JID if there is one.
LEMMA FirstDirect ==
    ASSUME NEW s, NEW n \in 1..3, DOMAIN s = 1..n
    PROVE  /\ (\E i \in 1..n : IsDirectJID(s[i]))
                 => \E i \in 1..n : FirstDirectJID(s) = s[i] /\ IsDirectJID(s[i])
           /\ (\A i \in 1..n : ~IsDirectJID(s[i])) => FirstDirectJID(s) = NoJID
<1> DEFINE direct == {i \in DOMAIN s : IsDirectJID(s[i])}
<1>1. direct \in SUBSET (1..3)
  OBVIOUS
<1>2. FirstDirectJID(s) = IF direct = {} THEN NoJID ELSE s[Min(direct)]
  BY DEF FirstDirectJID
<1>3. ASSUME \E i \in 1..n : IsDirectJID(s[i])
      PROVE  \E i \in 1..n : FirstDirectJID(s) = s[i] /\ IsDirectJID(s[i])
  <2>1. direct # {}
    BY <1>3
  <2>2. Min(direct) \in direct
    BY <1>1, <2>1, LeastPosition
  <2> QED
    BY <1>2, <2>1, <2>2
<1>4. ASSUME \A i \in 1..n : ~IsDirectJID(s[i])
      PROVE  FirstDirectJID(s) = NoJID
  BY <1>2, <1>4
<1> QED
  BY <1>3, <1>4

\* FirstDirectJID of the two candidates of an own message ...
LEMMA FirstOfTwo ==
    ASSUME NEW a, NEW b
    PROVE  LET jid == FirstDirectJID(<<a, b>>)
           IN  /\ IsDirectJID(a) \/ IsDirectJID(b)
                     => jid \in {a, b} /\ IsDirectJID(jid)
               /\ ~IsDirectJID(a) /\ ~IsDirectJID(b) => jid = NoJID
<1> DEFINE s == <<a, b>>
<1>1. DOMAIN s = 1..2 /\ s[1] = a /\ s[2] = b /\ 1..2 = {1, 2}
  OBVIOUS
<1> HIDE DEF s
<1>2. /\ (\E i \in 1..2 : IsDirectJID(s[i]))
            => \E i \in 1..2 : FirstDirectJID(s) = s[i] /\ IsDirectJID(s[i])
      /\ (\A i \in 1..2 : ~IsDirectJID(s[i])) => FirstDirectJID(s) = NoJID
  BY <1>1, FirstDirect
<1> QED
  BY <1>1, <1>2 DEF s

\* ... and of the three candidates of a contact's.
LEMMA FirstOfThree ==
    ASSUME NEW a, NEW b, NEW c
    PROVE  LET jid == FirstDirectJID(<<a, b, c>>)
           IN  /\ IsDirectJID(a) \/ IsDirectJID(b) \/ IsDirectJID(c)
                     => jid \in {a, b, c} /\ IsDirectJID(jid)
               /\ ~IsDirectJID(a) /\ ~IsDirectJID(b) /\ ~IsDirectJID(c) => jid = NoJID
<1> DEFINE s == <<a, b, c>>
<1>1. DOMAIN s = 1..3 /\ s[1] = a /\ s[2] = b /\ s[3] = c /\ 1..3 = {1, 2, 3}
  OBVIOUS
<1> HIDE DEF s
<1>2. /\ (\E i \in 1..3 : IsDirectJID(s[i]))
            => \E i \in 1..3 : FirstDirectJID(s) = s[i] /\ IsDirectJID(s[i])
      /\ (\A i \in 1..3 : ~IsDirectJID(s[i])) => FirstDirectJID(s) = NoJID
  BY <1>1, FirstDirect
<1> QED
  BY <1>1, <1>2 DEF s

\* A payload has a key and an info of its message, and one of them names it.
LEMMA PayloadParts ==
    ASSUME NEW m \in Messages, NEW d \in Payloads(m)
    PROVE  /\ d \in [key : Keys(m), info : Infos(m), message : Contents(m)]
           /\ d.key \in Keys(m) /\ d.info \in Infos(m) /\ d.message \in Contents(m)
           /\ "id" \in {d.key.id, d.info.id} /\ IsFromMe(d) = m.own
BY DEF Payloads

\* normalizeMessageInfo writes the key's id and JID and nothing else.
LEMMA Normalized ==
    ASSUME NEW m \in Messages, NEW d \in Payloads(m)
    PROVE  LET data == NormalizeMessageInfo(d)
           IN  /\ data.key.id = IF d.key.id = "blank" THEN d.info.id ELSE d.key.id
               /\ data.key.remoteJid
                    = IF d.key.remoteJid = NoJID \/ IsLIDJID(d.key.remoteJid)
                      THEN SelectInfoJID(d.info, m.own) ELSE d.key.remoteJid
               /\ data.message = d.message /\ IsFromMe(data) = m.own
<1> DEFINE i == IF d.key.id = "blank" THEN d.info.id ELSE d.key.id
           j == IF d.key.remoteJid = NoJID \/ IsLIDJID(d.key.remoteJid)
                THEN SelectInfoJID(d.info, m.own) ELSE d.key.remoteJid
           data == NormalizeMessageInfo(d)
<1>1. /\ DOMAIN d = {"key", "info", "message"}
      /\ DOMAIN d.key = {"remoteJid", "fromMe", "id"}
      /\ IsFromMe(d) = m.own
  <2>1. DOMAIN d.key = {"remoteJid", "fromMe", "id"}
    BY PayloadParts DEF Keys, NoKey
  <2> QED
    BY <2>1, PayloadParts
<1>2. data = [d EXCEPT !.key.id = i, !.key.remoteJid = j]
  BY <1>1 DEF NormalizeMessageInfo
<1>3. data = [d EXCEPT !.key = [d.key EXCEPT !.id = i, !.remoteJid = j]]
  BY <1>1, <1>2, Zenon
<1> DEFINE key == [d.key EXCEPT !.id = i, !.remoteJid = j]
<1>4. key.id = i /\ key.remoteJid = j /\ key.fromMe = d.key.fromMe
  BY <1>1
<1>5. data = [d EXCEPT !.key = key]
  BY <1>3
<1> HIDE DEF key, i, j, data
<1>6. data.key = key /\ data.message = d.message /\ data.info = d.info
  BY <1>1, <1>5
<1>7. IsFromMe(data) = m.own
  BY <1>1, <1>4, <1>6 DEF IsFromMe
<1> QED
  BY <1>4, <1>6, <1>7 DEF i, j, data

\* The JID of a group is never taken for the one of a member.
LEMMA GroupJIDs ==
    ASSUME NEW m \in Messages, NEW d \in Payloads(m), m.chat # "direct"
    PROVE  IsNonDirectJID(NormalizeMessageInfo(d).key.remoteJid)
<1>1. m.chat \in {"group", "broadcast"}
  BY DEF Messages
<1>2. ChatJIDs(m) = {JID(Group, "g.us")} \/ ChatJIDs(m) = {JID(Group, "broadcast")}
  BY <1>1 DEF ChatJIDs
<1>3. \A j \in ChatJIDs(m) : IsNonDirectJID(j) /\ ~IsLIDJID(j) /\ j # NoJID
  <2>1. /\ \A j \in ChatJIDs(m) : j.server \in {"g.us", "broadcast"}
        /\ NoJID.server = ""
    BY <1>2 DEF JID, NoJID
  <2> QED
    BY <2>1 DEF IsNonDirectJID, IsLIDJID
<1>4. CASE d.key = NoKey
  <2>1. d.info.chat \in ChatJIDs(m)
    BY <1>4, PayloadParts DEF NoKey, Infos, NoInfo
  <2>2. SelectInfoJID(d.info, m.own) = d.info.chat
    BY <1>3, <2>1 DEF SelectInfoJID
  <2>3. d.key.remoteJid = NoJID
    BY <1>4 DEF NoKey
  <2> QED
    BY <1>3, <2>1, <2>2, <2>3, Normalized
<1>5. CASE d.key # NoKey
  <2>1. d.key.remoteJid \in ChatJIDs(m)
    BY <1>5, PayloadParts DEF Keys
  <2> QED
    BY <1>3, <2>1, Normalized
<1> QED
  BY <1>4, <1>5

\* Of the JIDs that info offers for the other side of a direct chat, those that
\* are direct are the contact's; and if the payload has the contact's number
\* there, it is found.
LEMMA InfoJIDs ==
    ASSUME NEW m \in Messages, NEW d \in Payloads(m), m.chat = "direct"
    PROVE  LET info == d.info
               jid == SelectInfoJID(info, m.own)
           IN  /\ jid \in {NoJID, Direct(m.contact)}
               /\ Direct(m.contact) \in {info.chat, info.sender, info.senderAlt,
                                         info.recipientAlt}
                     => jid = Direct(m.contact)
<1> DEFINE info == d.info
           D == Direct(m.contact)
           jid == SelectInfoJID(info, m.own)
<1>1. /\ IsDirectJID(D) /\ ~IsDirectJID(NoJID) /\ D # NoJID
      /\ \A n : ~IsDirectJID(Lid(n)) /\ ~IsNonDirectJID(Lid(n))
      /\ ~IsNonDirectJID(D) /\ ~IsNonDirectJID(NoJID)
  BY DEF Direct, Lid, JID, NoJID, IsDirectJID, IsNonDirectJID
<1>2. /\ info.chat \in {NoJID, D, Lid(m.contact)}
      /\ info.sender \in {NoJID, Direct(Sender(m)), Lid(Sender(m))}
      /\ info.senderAlt \in {NoJID, Direct(Sender(m))}
      /\ info.recipientAlt \in {NoJID, D}
      /\ info.recipientAlt # NoJID => m.own
  BY PayloadParts DEF Infos, NoInfo, ChatJIDs
<1>3. ~IsNonDirectJID(info.chat)
  BY <1>1, <1>2
<1>4. CASE m.own
  <2>1. jid = FirstDirectJID(<<info.chat, info.recipientAlt>>)
    BY <1>3, <1>4 DEF SelectInfoJID
  <2>2. D # Direct(Sender(m)) /\ D # Lid(Sender(m))
    BY <1>4, EventsAssumption DEF Sender, Direct, Lid, JID, Messages
  <2>3. D \in {info.chat, info.sender, info.senderAlt, info.recipientAlt}
          => D \in {info.chat, info.recipientAlt}
    BY <1>1, <1>2, <2>2
  <2> HIDE DEF info, D, jid
  <2> QED
    BY <1>1, <1>2, <2>1, <2>3, FirstOfTwo DEF info, D, jid
<1>5. CASE ~m.own
  <2>1. jid = FirstDirectJID(<<info.sender, info.senderAlt, info.chat>>)
    BY <1>3, <1>5 DEF SelectInfoJID
  <2>2. Sender(m) = m.contact /\ info.recipientAlt = NoJID
    BY <1>2, <1>5 DEF Sender
  <2> HIDE DEF info, D, jid
  <2> QED
    BY <1>1, <1>2, <2>1, <2>2, FirstOfThree DEF info, D, jid
<1> QED
  BY <1>4, <1>5

\* The same for the normalised key.
LEMMA DirectJIDs ==
    ASSUME NEW m \in Messages, NEW d \in Payloads(m), m.chat = "direct"
    PROVE  LET jid == NormalizeMessageInfo(d).key.remoteJid
           IN  /\ jid \in {NoJID, Direct(m.contact)}
               /\ Direct(m.contact) \in {d.key.remoteJid, d.info.chat, d.info.sender,
                                         d.info.senderAlt, d.info.recipientAlt}
                     => jid = Direct(m.contact)
<1>1. d.key.remoteJid \in {NoJID, Direct(m.contact), Lid(m.contact)}
  BY PayloadParts DEF Keys, NoKey, ChatJIDs
<1>2. /\ Direct(m.contact) # NoJID /\ ~IsLIDJID(Direct(m.contact))
      /\ IsLIDJID(Lid(m.contact)) /\ Direct(m.contact) # Lid(m.contact)
  BY DEF Direct, Lid, JID, NoJID, IsLIDJID
<1>3. CASE d.key.remoteJid = Direct(m.contact)
  BY <1>2, <1>3, Normalized
<1>4. CASE d.key.remoteJid # Direct(m.contact)
  <2>1. NormalizeMessageInfo(d).key.remoteJid = SelectInfoJID(d.info, m.own)
    BY <1>1, <1>2, <1>4, Normalized
  <2> QED
    BY <1>4, <2>1, InfoJIDs
<1> QED
  BY <1>3, <1>4

\* What DirectTextWithReason says of a report of message m.
LEMMA ReportIsUnderstood ==
    ASSUME NEW m \in Messages, NEW d \in Payloads(m), d # NoData, NEW e
    PROVE  LET text == DirectTextWithReason(e, d)
           IN  /\ text.result \in {"skip", "error", "text"}
               /\ m.chat # "direct" => text.result = "skip"
               /\ text.result = "text"
                     => /\ m.chat = "direct" /\ m.text /\ text.own = m.own
                        /\ text.remoteJid = Direct(m.contact)
               /\ /\ e \in MessageEvents /\ m.chat = "direct" /\ m.text
                  /\ Direct(m.contact) \in {d.key.remoteJid, d.info.chat, d.info.sender,
                                            d.info.senderAlt, d.info.recipientAlt}
                  => text.result = "text"
<1> DEFINE data == NormalizeMessageInfo(d)
           text == DirectTextWithReason(e, d)
<1>1. IncomingMessageText(data.message) = "text" <=> m.text
  <2>1. data.message = d.message
    BY Normalized
  <2>2. d.message \in Contents(m)
    BY PayloadParts
  <2> QED
    BY <2>1, <2>2 DEF Contents, IncomingMessageText, Messages
<1>2. data.key.id # "blank"
  BY PayloadParts, Normalized DEF Keys, NoKey
<1>3. /\ m.chat # "direct" => IsNonDirectJID(data.key.remoteJid)
      /\ m.chat = "direct" => data.key.remoteJid \in {NoJID, Direct(m.contact)}
      /\ /\ m.chat = "direct"
         /\ Direct(m.contact) \in {d.key.remoteJid, d.info.chat, d.info.sender,
                                   d.info.senderAlt, d.info.recipientAlt}
         => data.key.remoteJid = Direct(m.contact)
  BY GroupJIDs, DirectJIDs
<1>4. /\ ~IsNonDirectJID(Direct(m.contact)) /\ ~IsNonDirectJID(NoJID)
      /\ Direct(m.contact) # NoJID
  BY DEF Direct, JID, NoJID, IsNonDirectJID
<1>5. IsFromMe(data) = m.own
  BY Normalized
<1>6. text = IF e \notin MessageEvents THEN Skip
             ELSE IF \/ IsNonDirectJID(data.key.remoteJid)
                     \/ IncomingMessageText(data.message) # "text"
                  THEN Skip
             ELSE IF data.key.id = "blank" \/ data.key.remoteJid = NoJID THEN Broken
             ELSE Accepted(data.key, IsFromMe(data))
  BY DEF DirectTextWithReason
<1>7. /\ Skip.result = "skip" /\ Broken.result = "error"
      /\ Accepted(data.key, IsFromMe(data)).result = "text"
      /\ Accepted(data.key, IsFromMe(data)).remoteJid = data.key.remoteJid
      /\ Accepted(data.key, IsFromMe(data)).own = IsFromMe(data)
  BY DEF Skip, Broken, Accepted
<1> HIDE DEF data, text
<1> QED
  BY <1>1, <1>2, <1>3, <1>4, <1>5, <1>6, <1>7 DEF data, text

-----------------------------------------------------------------------------
(* The inductive invariant.                                                *)

\* What the webhooks have that the handlers go by.
IsAgentHook(w) ==
    /\ w.endpoint = "chatwoot" /\ w.age \in Nat
    /\ \A j \in {w.sourceID, w.identifier} : ParseDirectJID(j) \in {w.to, NoUser}

IsReport(w) ==
    /\ w.endpoint = "evolution" /\ w.said \in Messages
    /\ w.data \in Payloads(w.said) \cup {NoData}

\* What the endpoint has established about webhook w when it hands it to the
\* handler for tenant t.
AdmittedFor(w, t) ==
    /\ t \in Tenants \ Unsecured
    /\ w.endpoint = "chatwoot" => /\ t = GetTenantByChatwootInbox(CoreInbox(w))
                                  /\ w.signedBy = t /\ w.age <= ReplayWindow
    /\ w.endpoint = "evolution" => /\ w.path = t /\ w.secret
                                   /\ w.instance \in {NoTenant, t}

\* What the record of a request says about its webhook and its lane.
DeskStages == {"received", "admitted", "decided", "answered"}

Knows(x) ==
    /\ x.stage \in DeskStages \cup {"free", "creating", "allowing"}
    /\ x.stage \in DeskStages => IsAgentHook(x.hook) \/ IsReport(x.hook)
    /\ x.stage \in {"admitted", "decided"} => AdmittedFor(x.hook, x.tenant)
    /\ x.stage = "decided"
          => Handle(x.hook, x.tenant)
               = Decided(x.lane.tenant, x.lane.dir, x.contact, x.own)
    /\ x.stage = "answered" /\ x.tenant # NoTenant
          => Handle(x.hook, x.tenant).status = x.status /\ x.status # 0
    /\ x.stage \in {"decided", "creating", "allowing"} => x.lane \in Lanes

HandlersKnow == \A r \in Requests : Knows(req[r])

\* The variables are functions and sequences, and nothing in them is later
\* than now.
Shapes ==
    /\ now \in 0..MaxNow
    /\ req = [r \in Requests |-> req[r]]
    /\ limiters \in [Lanes -> 0..Len(bucket)]
    /\ bucket \in Seq(Buckets) /\ \A i \in DOMAIN bucket : bucket[i].last <= now
    /\ log \in [Lanes -> Seq(Answers)]
    /\ \A l \in Lanes : \A i \in DOMAIN log[l] : log[l][i].at <= now

AsksItsLimiter(x) ==
    x.stage = "allowing" => x.limiter = limiters[x.lane] /\ x.limiter # NoLimiter

\* Whoever wins the race to create it: a lane has one limiter for good, shares
\* it with no other lane, and every request of the lane asks that one.
LanesKeepTheirLimiter ==
    /\ \A l \in Lanes : limiters[l] = NoLimiter => log[l] = <<>>
    /\ \A l, m \in Lanes : limiters[l] = limiters[m] /\ limiters[l] # NoLimiter => l = m
    /\ \A r \in Requests : AsksItsLimiter(req[r])

\* What the limiter of lane l holds now.
Held(l) == Advanced(bucket[limiters[l]], LimitPerMin, now)

BooksBalance ==
    \A l \in Lanes : limiters[l] # NoLimiter => Balanced(log[l], Held(l), now)

BooksExact == \A l \in Lanes : ExactLog(log[l])

IInv ==
    /\ Shapes
    /\ HandlersKnow
    /\ LanesKeepTheirLimiter
    /\ BooksBalance
    /\ BooksExact

-----------------------------------------------------------------------------
(* The webhooks.                                                           *)

\* ParseDirectJID answers the user it was given, or none.
LEMMA ParsedUser == \A jid : ParseDirectJID(jid) \in {jid.user, NoUser}
BY DEF ParseDirectJID

\* Every webhook Chatwoot sends is an agent's message, however it is addressed.
LEMMA AgentHooks ==
    ASSUME NEW w \in ChatwootHooks
    PROVE  IsAgentHook(w)
<1>1. PICK t \in Tenants, c \in Contacts : w \in AgentMessages(t, c)
  BY DEF ChatwootHooks
<1> DEFINE plain == AgentMessage(t, c)
           ours == {NoJID, Direct(c), JID(c, ""), JID(NoUser, "uuid"),
                    JID(NoUser, "e-mail")}
<1>2. \A j \in ours : ParseDirectJID(j) \in {c, NoUser}
  <2>1. \A u, v : JID(u, v).user = u
    BY DEF JID
  <2>2. \A j \in ours : j.user \in {c, NoUser}
    BY <2>1 DEF Direct, NoJID
  <2> QED
    BY <2>2, ParsedUser
<1>3. /\ plain.endpoint = "chatwoot" /\ plain.age = 0 /\ plain.to = c
      /\ plain.sourceID \in ours /\ plain.identifier \in ours
      /\ DOMAIN plain = {"endpoint", "signedBy", "age", "inbox", "event", "type",
                         "private", "id", "to", "sourceID", "identifier"}
  BY DEF AgentMessage
<1>4. \/ \E i \in InboxFields : w = Naming(plain, i)
      \/ \E s \in Tenants \cup {NoTenant}, n \in {ReplayWindow, ReplayWindow + 1} :
            w = Signed(plain, s, n)
      \/ \E e \in {"message_created", "message_outgoing", "message_updated"},
            y \in {"incoming", "outgoing"}, p \in BOOLEAN, n \in {0, 1} :
            w = OfKind(plain, e, y, p, n)
      \/ \E s \in SourceIDs(c), j \in Identifiers(c) : w = Addressed(plain, s, j)
  BY <1>1 DEF AgentMessages
<1> HIDE DEF plain, ours
<1>5. CASE \E i \in InboxFields : w = Naming(plain, i)
  BY <1>2, <1>3, <1>5 DEF IsAgentHook, Naming
<1>6. CASE \E s \in Tenants \cup {NoTenant}, n \in {ReplayWindow, ReplayWindow + 1} :
             w = Signed(plain, s, n)
  <2>1. PICK s \in Tenants \cup {NoTenant}, n \in {ReplayWindow, ReplayWindow + 1} :
           w = Signed(plain, s, n)
    BY <1>6
  <2>2. /\ w.endpoint = "chatwoot" /\ w.age = n /\ w.to = c
        /\ w.sourceID = plain.sourceID /\ w.identifier = plain.identifier
    BY <1>3, <2>1 DEF Signed
  <2>3. n \in Nat
    BY EndpointsAssumption
  <2> QED
    BY <1>2, <1>3, <2>2, <2>3 DEF IsAgentHook
<1>7. CASE \E e \in {"message_created", "message_outgoing", "message_updated"},
             y \in {"incoming", "outgoing"}, p \in BOOLEAN, n \in {0, 1} :
             w = OfKind(plain, e, y, p, n)
  <2>1. /\ w.endpoint = "chatwoot" /\ w.age = 0 /\ w.to = c
        /\ w.sourceID = plain.sourceID /\ w.identifier = plain.identifier
    BY <1>3, <1>7 DEF OfKind
  <2> QED
    BY <1>2, <1>3, <2>1 DEF IsAgentHook
<1>8. CASE \E s \in SourceIDs(c), j \in Identifiers(c) : w = Addressed(plain, s, j)
  <2>1. PICK s \in ours, j \in ours : w = Addressed(plain, s, j)
    BY <1>8 DEF ours, SourceIDs, Identifiers
  <2>2. /\ w.endpoint = "chatwoot" /\ w.age = 0 /\ w.to = c
        /\ w.sourceID = s /\ w.identifier = j
    BY <1>3, <2>1 DEF Addressed
  <2> QED
    BY <1>2, <2>2 DEF IsAgentHook
<1> QED
  BY <1>4, <1>5, <1>6, <1>7, <1>8

\* A plain text and its payload are among those Evolution Go sends.
LEMMA PlainPayload ==
    ASSUME NEW c \in Contacts
    PROVE  /\ PlainText(c) \in Messages
           /\ [key |-> [remoteJid |-> Direct(c), fromMe |-> "false", id |-> "id"],
               info |-> NoInfo,
               message |-> [conversation |-> "text", extended |-> "absent"]]
                \in Payloads(PlainText(c))
<1> DEFINE m == PlainText(c)
           k == [remoteJid |-> Direct(c), fromMe |-> "false", id |-> "id"]
           x == [conversation |-> "text", extended |-> "absent"]
           d == [key |-> k, info |-> NoInfo, message |-> x]
<1>1. /\ m \in Messages /\ m.chat = "direct" /\ m.contact = c /\ ~m.own /\ m.text
      /\ m.own = FALSE
  BY DEF PlainText, Messages
<1>2. k \in Keys(m)
  BY <1>1 DEF Keys, ChatJIDs
<1>3. NoInfo \in Infos(m) /\ x \in Contents(m)
  BY <1>1 DEF Infos, Contents
<1>4. d.key.id = "id" /\ IsFromMe(d) = FALSE
  BY DEF IsFromMe, NoInfo
<1>5. d \in [key : Keys(m), info : Infos(m), message : Contents(m)]
  BY <1>2, <1>3
<1> QED
  BY <1>1, <1>4, <1>5 DEF Payloads

\* So is its report.
LEMMA PlainReports ==
    ASSUME NEW t \in Tenants, NEW c \in Contacts
    PROVE  /\ IsReport(PlainReport(t, c))
           /\ DOMAIN PlainReport(t, c) = {"endpoint", "path", "secret", "instance",
                                          "event", "said", "data"}
BY PlainPayload DEF PlainReport, Report, IsReport

\* Every webhook Evolution Go sends is a report of a message, or of nothing.
LEMMA Reports ==
    ASSUME NEW w \in EvolutionHooks
    PROVE  IsReport(w)
<1>1. \/ \E t \in Tenants, m \in Messages :
            \E d \in Payloads(m) \cup {NoData} : w = Report(t, m, d)
      \/ \E t \in Tenants, c \in Contacts : w \in OddReports(t, c)
  BY DEF EvolutionHooks
<1>2. CASE \E t \in Tenants, m \in Messages :
              \E d \in Payloads(m) \cup {NoData} : w = Report(t, m, d)
  <2>1. PICK t \in Tenants, m \in Messages :
           \E d \in Payloads(m) \cup {NoData} : w = Report(t, m, d)
    BY <1>2
  <2>2. PICK d \in Payloads(m) \cup {NoData} : w = Report(t, m, d)
    BY <2>1
  <2> QED
    BY <2>2 DEF Report, IsReport
<1>3. CASE \E t \in Tenants, c \in Contacts : w \in OddReports(t, c)
  <2>1. PICK t \in Tenants, c \in Contacts : w \in OddReports(t, c)
    BY <1>3
  <2> DEFINE plain == PlainReport(t, c)
  <2>2. \E p \in Tenants \cup {NoTenant}, b \in BOOLEAN, i \in Tenants \cup {NoTenant},
           e \in {"message", "connection"} :
           w = SentTo(plain, p, b, i, e)
    BY <2>1 DEF OddReports
  <2>3. /\ IsReport(plain)
        /\ DOMAIN plain = {"endpoint", "path", "secret", "instance", "event", "said",
                           "data"}
    BY PlainReports
  <2> HIDE DEF plain
  <2>4. w.endpoint = plain.endpoint /\ w.said = plain.said /\ w.data = plain.data
    BY <2>2, <2>3 DEF SentTo
  <2> QED
    BY <2>3, <2>4 DEF IsReport
<1> QED
  BY <1>1, <1>2, <1>3

\* No other webhooks arrive.
LEMMA HookShapes ==
    ASSUME NEW w \in Webhooks \cup PlainWebhooks
    PROVE  IsAgentHook(w) \/ IsReport(w)
<1>1. CASE w \in Webhooks
  BY <1>1, AgentHooks, Reports DEF Webhooks
<1>2. CASE w \in PlainWebhooks
  <2>1. PICK t \in Tenants, c \in Contacts : w \in {AgentMessage(t, c), PlainReport(t, c)}
    BY <1>2 DEF PlainWebhooks
  <2>2. CASE w = AgentMessage(t, c)
    <3>1. ParseDirectJID(Direct(c)) \in {c, NoUser}
      BY ParsedUser DEF Direct, JID
    <3> QED
      BY <2>2, <3>1 DEF AgentMessage, IsAgentHook
  <2> QED
    BY <2>1, <2>2, PlainReports
<1> QED
  BY <1>1, <1>2

-----------------------------------------------------------------------------
(* The steps of a request up to the limiter.                               *)

\* What the record of a request becomes in one of them: nothing else changes.
LEMMA DeskStep ==
    ASSUME IInv, NEW r \in Requests, NEW x, Knows(x), AsksItsLimiter(x),
           req' = [req EXCEPT ![r] = x], UNCHANGED <<now, limiters, bucket, log>>
    PROVE  IInv'
<1>1. /\ req' = [q \in Requests |-> req'[q]]
      /\ \A q \in Requests : req'[q] = IF q = r THEN x ELSE req[q]
  BY DEF IInv, Shapes
<1>2. HandlersKnow'
  BY <1>1 DEF IInv, HandlersKnow
<1>3. LanesKeepTheirLimiter'
  BY <1>1 DEF IInv, LanesKeepTheirLimiter, AsksItsLimiter
<1>4. Shapes'
  BY <1>1 DEF IInv, Shapes
<1>5. BooksBalance' /\ BooksExact'
  BY DEF IInv, BooksBalance, BooksExact, Held
<1> QED
  BY <1>2, <1>3, <1>4, <1>5 DEF IInv

\* A webhook that the endpoint lets in is admitted for the tenant whose secret
\* it carries.
LEMMA GateAdmits ==
    ASSUME NEW w, IsAgentHook(w) \/ IsReport(w), Gate(w).status = 0, now \in Nat
    PROVE  AdmittedFor(w, Gate(w).tenant)
<1>1. CASE IsAgentHook(w)
  <2> DEFINE inbox == InboxID(w.inbox)
             tenant == GetTenantByChatwootInbox(inbox)
  <2>1. /\ Gate(w).tenant = tenant
        /\ Gate(w).status =
             IF inbox = "none" THEN 400
             ELSE IF tenant = NoTenant THEN 404
             ELSE IF tenant \in Unsecured THEN 503
             ELSE IF ~VerifySignature(w.signedBy = tenant, now - w.age, now,
                                      ReplayWindow) THEN 401
             ELSE 0
    BY <1>1 DEF IsAgentHook, Gate, ChatwootGate
  <2>2. tenant \in Tenants \cup {NoTenant}
    BY DEF GetTenantByChatwootInbox
  <2> HIDE DEF inbox
  <2>3. /\ tenant # NoTenant /\ tenant \notin Unsecured
        /\ VerifySignature(w.signedBy = tenant, now - w.age, now, ReplayWindow)
    BY <2>1
  <2>4. w.signedBy = tenant /\ now - (now - w.age) <= ReplayWindow
    BY <2>3 DEF VerifySignature
  <2>5. w.age <= ReplayWindow
    BY <1>1, <2>4, EndpointsAssumption DEF IsAgentHook
  <2>6. w.endpoint = "chatwoot" /\ tenant = GetTenantByChatwootInbox(CoreInbox(w))
    BY <1>1 DEF IsAgentHook, CoreInbox, inbox
  <2> QED
    BY <2>1, <2>2, <2>3, <2>4, <2>5, <2>6 DEF AdmittedFor
<1>2. CASE IsReport(w)
  BY <1>2 DEF IsReport, Gate, EvolutionGate, AdmittedFor
<1> QED
  BY <1>1, <1>2

\* The handler decides with status 0 on a lane of the tenant, and only then.
LEMMA HandleDecides ==
    ASSUME NEW w, NEW t, AdmittedFor(w, t), IsAgentHook(w) \/ IsReport(w),
           Handle(w, t).status = 0
    PROVE  LET outcome == Handle(w, t)
           IN  /\ outcome.lane \in Lanes /\ outcome.lane.tenant = t
               /\ outcome = Decided(outcome.lane.tenant, outcome.lane.dir,
                                    outcome.contact, outcome.own)
<1>1. \A s \in {200, 500, 503} : Refused(s).status # 0
  BY DEF Refused
<1>2. \A tenant, dir, contact, own :
         LET d == Decided(tenant, dir, contact, own)
         IN  /\ d.lane = [tenant |-> tenant, dir |-> dir]
             /\ d.lane.tenant = tenant /\ d.lane.dir = dir
             /\ d.contact = contact /\ d.own = own
  BY DEF Decided
<1>3. \E dir \in Directions : \E contact, own : Handle(w, t) = Decided(t, dir, contact, own)
  <2>1. CASE IsAgentHook(w)
    <3>1. Handle(w, t) = HandleChatwootWebhook(w)
          /\ t = GetTenantByChatwootInbox(CoreInbox(w))
      BY <2>1 DEF IsAgentHook, Handle, AdmittedFor
    <3>2. Handle(w, t) = Decided(t, "c2w", ParseDirectJID(SourceID(w)), FALSE)
      BY <1>1, <3>1 DEF HandleChatwootWebhook
    <3> QED
      BY <3>2 DEF Directions
  <2>2. CASE IsReport(w)
    <3>1. Handle(w, t) = HandleEvogoWebhook(w, t)
      BY <2>2 DEF IsReport, Handle
    <3> DEFINE text == DirectTextWithReason(w.event, w.data)
    <3>2. Handle(w, t) = Decided(t, "w2c", ParseDirectJID(text.remoteJid), text.own)
      BY <1>1, <3>1 DEF HandleEvogoWebhook
    <3> QED
      BY <3>2 DEF Directions
  <2> QED
    BY <2>1, <2>2
<1>4. PICK dir \in Directions : \E contact, own : Handle(w, t) = Decided(t, dir, contact, own)
  BY <1>3
<1>5. PICK contact, own : Handle(w, t) = Decided(t, dir, contact, own)
  BY <1>4
<1>6. [tenant |-> t, dir |-> dir] \in Lanes
  BY DEF AdmittedFor, Lanes
<1> QED
  BY <1>2, <1>5, <1>6

LEMMA AuthenticateStep ==
    ASSUME IInv, NEW r \in Requests, Authenticate(r)
    PROVE  IInv'
<1> DEFINE w == req[r].hook
           gate == Gate(w)
           x == IF gate.status = 0
                THEN [stage |-> "admitted", hook |-> w, tenant |-> gate.tenant]
                ELSE Answered(w, NoTenant, gate.status)
<1>1. /\ req' = [req EXCEPT ![r] = x]
      /\ UNCHANGED <<now, limiters, bucket, log>>
  BY DEF Authenticate
<1>2. IsAgentHook(w) \/ IsReport(w)
  BY DEF Authenticate, IInv, HandlersKnow, Knows, DeskStages
<1>3. Knows(x) /\ AsksItsLimiter(x)
  <2>1. CASE gate.status = 0
    <3>1. AdmittedFor(w, gate.tenant)
      BY <1>2, <2>1, GateAdmits DEF IInv, Shapes
    <3> HIDE DEF gate, w
    <3> QED
      BY <1>2, <2>1, <3>1 DEF Knows, AsksItsLimiter, DeskStages
  <2>2. CASE gate.status # 0
    <3> HIDE DEF gate, w
    <3> QED
      BY <1>2, <2>2 DEF Knows, AsksItsLimiter, DeskStages, Answered
  <2> QED
    BY <2>1, <2>2
<1> HIDE DEF x
<1> QED
  BY <1>1, <1>3, DeskStep

LEMMA DecideStep ==
    ASSUME IInv, NEW r \in Requests, Decide(r)
    PROVE  IInv'
<1> DEFINE w == req[r].hook
           tenant == req[r].tenant
           outcome == Handle(w, tenant)
           x == IF outcome.status = 0
                THEN [stage |-> "decided", hook |-> w, tenant |-> tenant,
                      lane |-> outcome.lane, contact |-> outcome.contact,
                      own |-> outcome.own]
                ELSE Answered(w, tenant, outcome.status)
<1>1. /\ req' = [req EXCEPT ![r] = x]
      /\ UNCHANGED <<now, limiters, bucket, log>>
  BY DEF Decide
<1>2. /\ IsAgentHook(w) \/ IsReport(w)
      /\ AdmittedFor(w, tenant)
  BY DEF Decide, IInv, HandlersKnow, Knows, DeskStages
<1>3. Knows(x) /\ AsksItsLimiter(x)
  <2>1. CASE outcome.status = 0
    <3>1. /\ outcome.lane \in Lanes
          /\ outcome = Decided(outcome.lane.tenant, outcome.lane.dir, outcome.contact,
                               outcome.own)
      BY <1>2, <2>1, HandleDecides
    <3>2. /\ x.stage = "decided" /\ x.hook = w /\ x.tenant = tenant
          /\ x.lane = outcome.lane /\ x.contact = outcome.contact /\ x.own = outcome.own
      BY <2>1
    <3>3. Handle(x.hook, x.tenant) = Decided(x.lane.tenant, x.lane.dir, x.contact, x.own)
      BY <3>1, <3>2
    <3> HIDE DEF outcome, w, tenant, x
    <3> QED
      BY <1>2, <3>1, <3>2, <3>3 DEF Knows, AsksItsLimiter, DeskStages
  <2>2. CASE outcome.status # 0
    <3>1. /\ x.stage = "answered" /\ x.hook = w /\ x.tenant = tenant
          /\ x.status = outcome.status
      BY <2>2 DEF Answered
    <3>2. Handle(x.hook, x.tenant).status = x.status /\ x.status # 0
      BY <2>2, <3>1
    <3> HIDE DEF outcome, w, tenant, x
    <3> QED
      BY <1>2, <3>1, <3>2 DEF Knows, AsksItsLimiter, DeskStages
  <2> QED
    BY <2>1, <2>2
<1> HIDE DEF x
<1> QED
  BY <1>1, <1>3, DeskStep

LEMMA ReceiveStep ==
    ASSUME IInv, NEW r \in Requests, Receive(r)
    PROVE  IInv'
<1>1. PICK w \in Webhooks \cup PlainWebhooks :
         req' = [req EXCEPT ![r] = [stage |-> "received", hook |-> w]]
  BY DEF Receive
<1>2. UNCHANGED <<now, limiters, bucket, log>>
  BY DEF Receive
<1> DEFINE x == [stage |-> "received", hook |-> w]
<1>3. Knows(x) /\ AsksItsLimiter(x)
  BY HookShapes DEF Knows, AsksItsLimiter, DeskStages
<1> HIDE DEF x
<1> QED
  BY <1>1, <1>2, <1>3, DeskStep DEF x

\* The request ends.
LEMMA FreeStep ==
    ASSUME IInv, NEW r \in Requests, Paused(r) \/ Respond(r) \/ EndAtClaim(r)
    PROVE  IInv'
<1>1. req' = [req EXCEPT ![r] = Free] /\ UNCHANGED <<now, limiters, bucket, log>>
  BY DEF Paused, Respond, EndAtClaim
<1>2. Knows(Free) /\ AsksItsLimiter(Free)
  BY DEF Knows, AsksItsLimiter, DeskStages, Free
<1> QED
  BY <1>1, <1>2, DeskStep

LEMMA LoadStep ==
    ASSUME IInv, NEW r \in Requests, LoadLimiter(r)
    PROVE  IInv'
<1> DEFINE lane == req[r].lane
           x == IF limiters[lane] = NoLimiter
                THEN [stage |-> "creating", lane |-> lane]
                ELSE Allowing(lane, limiters[lane])
<1>1. req' = [req EXCEPT ![r] = x] /\ UNCHANGED <<now, limiters, bucket, log>>
  BY DEF LoadLimiter
<1>2. lane \in Lanes
  BY DEF LoadLimiter, IInv, HandlersKnow, Knows
<1>3. Knows(x) /\ AsksItsLimiter(x)
  BY <1>2 DEF Knows, AsksItsLimiter, DeskStages, Allowing
<1> HIDE DEF x
<1> QED
  BY <1>1, <1>3, DeskStep

-----------------------------------------------------------------------------
(* The steps at the limiter, and time.                                     *)

\* The limiter of a lane is one of those made, and its books are in range.
LEMMA LimiterOfLane ==
    ASSUME Shapes, NEW l \in Lanes, limiters[l] # NoLimiter
    PROVE  /\ limiters[l] \in 1..Len(bucket) /\ bucket[limiters[l]] \in Buckets
           /\ bucket[limiters[l]].last <= now /\ now \in Nat
           /\ Held(l) \in 0..Capacity
<1>1. limiters[l] \in 1..Len(bucket) /\ now \in Nat
  BY EndpointsAssumption DEF Shapes, NoLimiter
<1>2. bucket[limiters[l]] \in Buckets /\ bucket[limiters[l]].last <= now
  BY <1>1 DEF Shapes
<1> QED
  BY <1>1, <1>2, Filling DEF Held

LEMMA StoreStep ==
    ASSUME IInv, NEW r \in Requests, StoreLimiter(r)
    PROVE  IInv'
<1> DEFINE lane == req[r].lane
           new == NewLimiter(LimitPerMin, now)
           x == Allowing(lane, limiters'[lane])
<1>1. /\ bucket' = Append(bucket, new) /\ req' = [req EXCEPT ![r] = x]
      /\ limiters' = IF limiters[lane] = NoLimiter
                     THEN [limiters EXCEPT ![lane] = Len(bucket) + 1] ELSE limiters
      /\ now' = now /\ log' = log
  BY DEF StoreLimiter, LoadOrStore
<1>2. /\ lane \in Lanes /\ now \in Nat /\ bucket \in Seq(Buckets)
      /\ limiters \in [Lanes -> 0..Len(bucket)] /\ Len(bucket) \in Nat
  BY EndpointsAssumption DEF StoreLimiter, IInv, HandlersKnow, Knows, Shapes
<1>3. new \in Buckets /\ new.last = now /\ Advanced(new, LimitPerMin, now) = Capacity
  BY <1>2, BornFull
<1> HIDE DEF new, lane
<1>4. /\ bucket' \in Seq(Buckets) /\ Len(bucket') = Len(bucket) + 1
      /\ \A i \in 1..Len(bucket) : bucket'[i] = bucket[i]
      /\ bucket'[Len(bucket) + 1] = new
  BY <1>1, <1>2, <1>3
<1>5. /\ limiters' \in [Lanes -> 0..(Len(bucket) + 1)] /\ limiters'[lane] # NoLimiter
      /\ \A l \in Lanes \ {lane} : limiters'[l] = limiters[l]
  BY <1>1, <1>2 DEF NoLimiter
<1>x. /\ Knows(x) /\ x.lane = lane /\ x.limiter = limiters'[lane]
  BY <1>2 DEF Knows, DeskStages, Allowing
<1> HIDE DEF x
<1>6. /\ req' = [q \in Requests |-> req'[q]]
      /\ \A q \in Requests : req'[q] = IF q = r THEN x ELSE req[q]
  BY <1>1 DEF IInv, Shapes
<1>7. HandlersKnow'
  <2>1. Knows(x)
    BY <1>x
  <2> QED
    BY <1>6, <2>1 DEF IInv, HandlersKnow
<1>8. Shapes'
  <2>1. \A i \in DOMAIN bucket' : bucket'[i].last <= now
    BY <1>2, <1>3, <1>4 DEF IInv, Shapes
  <2> QED
    BY <1>1, <1>4, <1>5, <1>6, <2>1 DEF IInv, Shapes
<1>9. LanesKeepTheirLimiter'
  <2>1. \A l \in Lanes : limiters'[l] = NoLimiter => log'[l] = <<>>
    BY <1>1, <1>5 DEF IInv, LanesKeepTheirLimiter
  <2>2. \A l, m \in Lanes : limiters'[l] = limiters'[m] /\ limiters'[l] # NoLimiter => l = m
    <3>1. CASE limiters[lane] = NoLimiter
      <4>1. limiters'[lane] = Len(bucket) + 1
        BY <1>1, <1>2, <3>1
      <4>2. \A l \in Lanes \ {lane} : limiters'[l] \in 0..Len(bucket)
        BY <1>2, <1>5
      <4>3. \A l \in Lanes \ {lane} : limiters'[l] # limiters'[lane]
        BY <1>2, <4>1, <4>2
      <4> QED
        BY <1>5, <4>3 DEF IInv, LanesKeepTheirLimiter
    <3>2. CASE limiters[lane] # NoLimiter
      BY <1>1, <3>2 DEF IInv, LanesKeepTheirLimiter
    <3> QED
      BY <3>1, <3>2
  <2>3. ASSUME NEW q \in Requests, req'[q].stage = "allowing"
        PROVE  /\ req'[q].limiter = limiters'[req'[q].lane]
               /\ req'[q].limiter # NoLimiter
    <3>1. CASE q = r
      <4>1. req'[q].lane = lane /\ req'[q].limiter = limiters'[lane]
        BY <1>x, <1>6, <3>1
      <4> QED
        BY <1>5, <4>1
    <3>2. CASE q # r
      <4>1. /\ req'[q] = req[q] /\ req[q].lane \in Lanes
            /\ req[q].limiter = limiters[req[q].lane] /\ req[q].limiter # NoLimiter
        BY <1>6, <2>3, <3>2
           DEF IInv, HandlersKnow, Knows, LanesKeepTheirLimiter, AsksItsLimiter
      <4>2. limiters'[req[q].lane] = limiters[req[q].lane]
        BY <1>1, <1>5, <4>1
      <4> QED
        BY <4>1, <4>2
    <3> QED
      BY <3>1, <3>2
  <2> QED
    BY <2>1, <2>2, <2>3 DEF LanesKeepTheirLimiter, AsksItsLimiter
<1>10. BooksBalance'
  <2> SUFFICES ASSUME NEW l \in Lanes, limiters'[l] # NoLimiter
               PROVE  Balanced(log[l], Advanced(bucket'[limiters'[l]], LimitPerMin, now),
                               now)
    BY <1>1 DEF BooksBalance, Held
  <2>1. CASE limiters[l] # NoLimiter
    <3>1. limiters'[l] = limiters[l] /\ limiters[l] \in 1..Len(bucket)
      BY <1>1, <1>5, <2>1, LimiterOfLane DEF IInv
    <3>2. bucket'[limiters'[l]] = bucket[limiters[l]]
      BY <1>4, <3>1
    <3> QED
      BY <2>1, <3>2 DEF IInv, BooksBalance, Held
  <2>2. CASE limiters[l] = NoLimiter
    <3>1. l = lane /\ limiters'[l] = Len(bucket) + 1
      BY <1>1, <1>2, <1>5, <2>2
    <3>2. log[l] = <<>> /\ DOMAIN log[l] = {}
      BY <2>2 DEF IInv, LanesKeepTheirLimiter
    <3>3. Advanced(bucket'[limiters'[l]], LimitPerMin, now) = Capacity
      BY <1>3, <1>4, <3>1
    <3> QED
      BY <3>2, <3>3 DEF Balanced
  <2> QED
    BY <2>1, <2>2
<1>11. BooksExact'
  BY <1>1 DEF IInv, BooksExact
<1> QED
  BY <1>7, <1>8, <1>9, <1>10, <1>11 DEF IInv

LEMMA AllowStep ==
    ASSUME IInv, NEW r \in Requests, Allow(r)
    PROVE  IInv'
<1> DEFINE lane == req[r].lane
           lim == limiters[lane]
           b == bucket[lim]
           e == [at |-> now, ok |-> Allows(b, LimitPerMin, now)]
           after == AfterAllow(b, LimitPerMin, now)
<1>1. /\ lane \in Lanes /\ req[r].limiter = lim /\ lim # NoLimiter
  BY DEF Allow, IInv, HandlersKnow, Knows, LanesKeepTheirLimiter, AsksItsLimiter
<1>2. /\ log' = [log EXCEPT ![lane] = Append(log[lane], e)]
      /\ bucket' = [bucket EXCEPT ![lim] = after]
      /\ req' = [req EXCEPT ![r] = Free] /\ now' = now /\ limiters' = limiters
  BY <1>1 DEF Allow
<1>3. /\ lim \in 1..Len(bucket) /\ b \in Buckets /\ b.last <= now /\ now \in Nat
      /\ Held(lane) \in 0..Capacity
  BY <1>1, LimiterOfLane DEF IInv
<1>4. /\ after \in Buckets /\ after.last <= now
      /\ Advanced(after, LimitPerMin, now)
           = Held(lane) - (IF Allows(b, LimitPerMin, now) THEN Token ELSE 0)
  BY <1>3, Taking DEF Held
<1>5. e \in Answers /\ e = [at |-> now, ok |-> Held(lane) >= Token]
  <2>1. Allows(b, LimitPerMin, now) = (Held(lane) >= Token)
    BY DEF Allows, Held
  <2>2. (Held(lane) >= Token) \in BOOLEAN
    OBVIOUS
  <2> QED
    BY <1>3, <2>1, <2>2 DEF Answers
<1>6. /\ log \in [Lanes -> Seq(Answers)] /\ bucket \in Seq(Buckets)
      /\ \A l \in Lanes : \A i \in DOMAIN log[l] : log[l][i].at <= now
      /\ \A i \in DOMAIN bucket : bucket[i].last <= now
  BY DEF IInv, Shapes
<1>7. /\ Balanced(Append(log[lane], e),
                  Held(lane) - (IF Held(lane) >= Token THEN Token ELSE 0), now)
      /\ ExactLog(Append(log[lane], e))
  <2>1. Balanced(log[lane], Held(lane), now) /\ ExactLog(log[lane])
    BY <1>1 DEF IInv, BooksBalance, BooksExact
  <2>2. log[lane] \in Seq(Answers) /\ \A i \in DOMAIN log[lane] : log[lane][i].at <= now
    BY <1>1, <1>6
  <2> HIDE DEF e, lane
  <2> QED
    BY <1>3, <1>5, <2>1, <2>2, BalancedAnswer
<1>8. (IF Allows(b, LimitPerMin, now) THEN Token ELSE 0)
        = (IF Held(lane) >= Token THEN Token ELSE 0)
  BY DEF Allows, Held
<1> HIDE DEF e, after
<1>9. /\ log' \in [Lanes -> Seq(Answers)] /\ log'[lane] = Append(log[lane], e)
      /\ \A l \in Lanes \ {lane} : log'[l] = log[l]
  BY <1>1, <1>2, <1>5, <1>6
<1>10. /\ bucket' \in Seq(Buckets) /\ Len(bucket') = Len(bucket)
       /\ bucket'[lim] = after
       /\ \A i \in 1..Len(bucket) : i # lim => bucket'[i] = bucket[i]
  BY <1>2, <1>3, <1>4, <1>6
<1>11. /\ req' = [q \in Requests |-> req'[q]]
       /\ \A q \in Requests : req'[q] = IF q = r THEN Free ELSE req[q]
  BY <1>2 DEF IInv, Shapes
<1>12. HandlersKnow'
  BY <1>11 DEF IInv, HandlersKnow, Knows, Free, DeskStages
<1>13. Shapes'
  <2>1. \A l \in Lanes : \A i \in DOMAIN log'[l] : log'[l][i].at <= now
    <3>1. \A i \in DOMAIN Append(log[lane], e) : Append(log[lane], e)[i].at <= now
      <4>1. log[lane] \in Seq(Answers) /\ e.at = now
        BY <1>1, <1>6 DEF e
      <4>2. ASSUME NEW i \in 1..(Len(log[lane]) + 1)
            PROVE  Append(log[lane], e)[i].at <= now
        <5>1. CASE i \in 1..Len(log[lane])
          BY <1>1, <1>6, <4>1, <5>1
        <5>2. CASE i = Len(log[lane]) + 1
          BY <1>3, <4>1, <5>2
        <5> QED
          BY <4>1, <5>1, <5>2
      <4> QED
        BY <4>1, <4>2
    <3> QED
      BY <1>6, <1>9, <3>1
  <2>2. \A i \in DOMAIN bucket' : bucket'[i].last <= now
    BY <1>4, <1>6, <1>10
  <2>3. limiters' \in [Lanes -> 0..Len(bucket')]
    BY <1>2, <1>10 DEF IInv, Shapes
  <2> QED
    BY <1>2, <1>9, <1>10, <1>11, <2>1, <2>2, <2>3 DEF IInv, Shapes
<1>14. LanesKeepTheirLimiter'
  <2>1. \A l \in Lanes : limiters'[l] = NoLimiter => log'[l] = <<>>
    BY <1>1, <1>2, <1>9 DEF IInv, LanesKeepTheirLimiter
  <2>2. \A q \in Requests : AsksItsLimiter(req[q])
    BY DEF IInv, LanesKeepTheirLimiter
  <2>3. \A q \in Requests : req'[q].stage = "allowing"
                             => /\ req'[q].limiter = limiters[req'[q].lane]
                                /\ req'[q].limiter # NoLimiter
    BY <1>11, <2>2 DEF AsksItsLimiter, Free
  <2> QED
    BY <1>2, <2>1, <2>3 DEF IInv, LanesKeepTheirLimiter, AsksItsLimiter
<1>15. BooksBalance'
  <2> SUFFICES ASSUME NEW l \in Lanes, limiters[l] # NoLimiter
               PROVE  Balanced(log'[l], Advanced(bucket'[limiters[l]], LimitPerMin, now),
                               now)
    BY <1>2 DEF BooksBalance, Held
  <2>1. CASE l = lane
    BY <1>4, <1>7, <1>8, <1>9, <1>10, <2>1
  <2>2. CASE l # lane
    <3>1. limiters[l] # lim /\ limiters[l] \in 1..Len(bucket)
      BY <1>1, <2>2, LimiterOfLane DEF IInv, LanesKeepTheirLimiter
    <3> QED
      BY <1>9, <1>10, <2>2, <3>1 DEF IInv, BooksBalance, Held
  <2> QED
    BY <2>1, <2>2
<1>16. BooksExact'
  BY <1>7, <1>9 DEF IInv, BooksExact
<1> QED
  BY <1>12, <1>13, <1>14, <1>15, <1>16 DEF IInv

LEMMA TickStep ==
    ASSUME IInv, Tick
    PROVE  IInv'
<1>1. /\ now < MaxNow /\ now' = now + 1 /\ now \in Nat
      /\ UNCHANGED <<req, limiters, bucket, log>>
  BY EndpointsAssumption DEF Tick, IInv, Shapes
<1>2. Shapes'
  <2>1. now' \in 0..MaxNow
    BY <1>1, EndpointsAssumption
  <2>2. \A i \in DOMAIN bucket : bucket[i].last <= now + 1
    <3>1. \A i \in DOMAIN bucket : bucket[i] \in Buckets /\ bucket[i].last <= now
      BY DEF IInv, Shapes
    <3>2. \A i \in DOMAIN bucket : bucket[i].last \in Nat
      BY <3>1 DEF Buckets
    <3> QED
      BY <1>1, <3>1, <3>2
  <2>3. \A l \in Lanes : \A i \in DOMAIN log[l] : log[l][i].at <= now + 1
    <3>1. ASSUME NEW l \in Lanes, NEW i \in DOMAIN log[l]
          PROVE  log[l][i].at \in Nat /\ log[l][i].at <= now
      <4>1. log[l] \in Seq(Answers) /\ log[l][i].at <= now
        BY DEF IInv, Shapes
      <4>2. log[l][i] \in Answers
        BY <4>1
      <4> QED
        BY <4>1, <4>2 DEF Answers
    <3> QED
      BY <1>1, <3>1
  <2> QED
    BY <1>1, <2>1, <2>2, <2>3 DEF IInv, Shapes
<1>3. BooksBalance'
  <2> SUFFICES ASSUME NEW l \in Lanes, limiters[l] # NoLimiter
               PROVE  Balanced(log[l], Advanced(bucket[limiters[l]], LimitPerMin, now + 1),
                               now + 1)
    BY <1>1 DEF BooksBalance, Held
  <2>1. /\ bucket[limiters[l]] \in Buckets /\ bucket[limiters[l]].last <= now
        /\ Held(l) \in 0..Capacity
    BY LimiterOfLane DEF IInv
  <2>2. Advanced(bucket[limiters[l]], LimitPerMin, now + 1)
          = Lesser(Capacity, Held(l) + LimitPerMin)
    BY <1>1, <2>1, Filling DEF Held
  <2>3. /\ log[l] \in Seq(Answers) /\ \A i \in DOMAIN log[l] : log[l][i].at <= now
        /\ Balanced(log[l], Held(l), now)
    BY DEF IInv, Shapes, BooksBalance
  <2> QED
    BY <1>1, <2>1, <2>2, <2>3, BalancedLater
<1>4. HandlersKnow' /\ LanesKeepTheirLimiter' /\ BooksExact'
  BY <1>1 DEF IInv, HandlersKnow, LanesKeepTheirLimiter, AsksItsLimiter, BooksExact
<1> QED
  BY <1>2, <1>3, <1>4 DEF IInv

-----------------------------------------------------------------------------
(* The theorems.                                                           *)

LEMMA InitInv == Init => IInv
<1> SUFFICES ASSUME Init PROVE IInv
  OBVIOUS
<1>1. /\ now = 0 /\ req = [r \in Requests |-> Free] /\ bucket = <<>>
      /\ limiters = [l \in Lanes |-> NoLimiter] /\ log = [l \in Lanes |-> <<>>]
  BY DEF Init
<1>2. Shapes
  <2>1. now \in 0..MaxNow /\ bucket \in Seq(Buckets) /\ Len(bucket) = 0
    BY <1>1, EndpointsAssumption
  <2>2. /\ limiters \in [Lanes -> 0..Len(bucket)] /\ log \in [Lanes -> Seq(Answers)]
        /\ DOMAIN bucket = {} /\ \A l \in Lanes : DOMAIN log[l] = {}
    BY <1>1, <2>1 DEF NoLimiter
  <2> QED
    BY <1>1, <2>1, <2>2 DEF Shapes
<1>3. HandlersKnow
  BY <1>1 DEF HandlersKnow, Knows, Free, DeskStages
<1>4. LanesKeepTheirLimiter
  BY <1>1 DEF LanesKeepTheirLimiter, AsksItsLimiter, Free
<1>5. BooksBalance
  BY <1>1 DEF BooksBalance
<1>6. BooksExact
  BY <1>1 DEF BooksExact, ExactLog
<1> QED
  BY <1>2, <1>3, <1>4, <1>5, <1>6 DEF IInv

LEMMA NextInv == IInv /\ [Next]_vars => IInv'
<1> SUFFICES ASSUME IInv, [Next]_vars PROVE IInv'
  OBVIOUS
<1>1. CASE Tick
  BY <1>1, TickStep
<1>2. ASSUME NEW r \in Requests,
             \/ Receive(r) \/ Authenticate(r) \/ Paused(r) \/ Decide(r) \/ Respond(r)
             \/ EndAtClaim(r) \/ LoadLimiter(r) \/ StoreLimiter(r) \/ Allow(r)
      PROVE  IInv'
  BY <1>2, ReceiveStep, AuthenticateStep, DecideStep, FreeStep, LoadStep, StoreStep,
     AllowStep
<1>3. CASE UNCHANGED vars
  BY <1>3 DEF vars, IInv, Shapes, HandlersKnow, LanesKeepTheirLimiter, AsksItsLimiter,
              BooksBalance, BooksExact, Held
<1> QED
  BY <1>1, <1>2, <1>3 DEF Next

\* The inductive invariant holds for any tenants, contacts, requests and rate.
THEOREM Invariant == Spec => []IInv
BY InitInv, NextInv, PTL DEF Spec

\* The variables keep their types; a bucket never holds more than a burst.
THEOREM TypeCorrect == Spec => []TypeOK
<1>1. IInv => TypeOK
  <2> SUFFICES ASSUME IInv PROVE TypeOK
    OBVIOUS
  <2>1. now \in 0..MaxNow /\ limiters \in [Lanes -> 0..Len(bucket)]
    BY DEF IInv, Shapes
  <2>2. \A r \in Requests :
           /\ req[r].stage \in {"free", "received", "admitted", "decided", "answered",
                                "creating", "allowing"}
           /\ req[r].stage \in {"decided", "creating", "allowing"} => req[r].lane \in Lanes
    BY DEF IInv, HandlersKnow, Knows, DeskStages
  <2>3. ASSUME NEW i \in DOMAIN bucket
        PROVE  bucket[i].credit \in 0..Capacity /\ bucket[i].last \in 0..now
    <3>1. bucket[i] \in Buckets /\ bucket[i].last <= now
      BY DEF IInv, Shapes
    <3> QED
      BY <2>1, <3>1 DEF Buckets
  <2>4. ASSUME NEW l \in Lanes, NEW i \in DOMAIN log[l]
        PROVE  log[l][i].at \in 0..now /\ log[l][i].ok \in BOOLEAN
    <3>1. log[l] \in Seq(Answers) /\ log[l][i].at <= now
      BY DEF IInv, Shapes
    <3>2. log[l][i] \in Answers
      BY <3>1
    <3> QED
      BY <2>1, <3>1, <3>2 DEF Answers
  <2> QED
    BY <2>1, <2>2, <2>3, <2>4 DEF TypeOK, Range, Capacity
<1> QED
  BY <1>1, Invariant, PTL

\* Every tenant and direction gets what burst and rate allow and no more, and
\* is refused nothing else, however many first requests race to create its
\* limiter and whatever the other tenants send.
THEOREM LimiterExact == Spec => []LimiterIsExact
<1>1. IInv => LimiterIsExact
  <2> SUFFICES ASSUME IInv, NEW l \in Lanes, NEW j \in DOMAIN log[l]
               PROVE  /\ \A i \in 1..j : Token * Granted(l, i, j) <= Earned(l, i, j)
                      /\ ~log[l][j].ok =>
                            \E i \in 1..j : Token * (Granted(l, i, j) + 1) > Earned(l, i, j)
    BY DEF LimiterIsExact
  <2>1. ExactLog(log[l])
    BY DEF IInv, BooksExact
  <2>2. \A i : /\ Granted(l, i, j) = GrantedIn(log[l], i, j)
               /\ Earned(l, i, j) = Capacity + LimitPerMin * (log[l][j].at - log[l][i].at)
    BY DEF Granted, GrantedIn, CallsGranted, Earned, Capacity
  <2> QED
    BY <2>1, <2>2 DEF ExactLog
<1> QED
  BY <1>1, Invariant, PTL

\* The fields of what a handler decides.
LEMMA DecidedFields ==
    ASSUME NEW t, NEW dir, NEW c, NEW own
    PROVE  LET d == Decided(t, dir, c, own)
           IN  /\ d.status = 0 /\ d.lane.tenant = t /\ d.lane.dir = dir
               /\ d.contact = c /\ d.own = own
BY DEF Decided

\* The secret that let a webhook in is the secret of the tenant whose lane it
\* is on, whatever the other places of its payload name.
THEOREM TenantServed == Spec => []AuthenticatedTenantIsServed
<1>1. IInv => AuthenticatedTenantIsServed
  <2> SUFFICES ASSUME IInv, NEW r \in Requests, req[r].stage = "decided"
               PROVE  LET w == req[r].hook
                          served == req[r].lane.tenant
                      IN  /\ served \notin Unsecured
                          /\ w.endpoint = "chatwoot" =>
                                w.signedBy = served /\ w.age <= ReplayWindow
                          /\ w.endpoint = "evolution" =>
                                /\ w.path = served /\ w.secret
                                /\ w.instance \in {NoTenant, served}
    BY DEF AuthenticatedTenantIsServed
  <2> DEFINE w == req[r].hook
             t == req[r].tenant
             lane == req[r].lane
  <2>1. /\ AdmittedFor(w, t)
        /\ IsAgentHook(w) \/ IsReport(w)
        /\ Handle(w, t) = Decided(lane.tenant, lane.dir, req[r].contact, req[r].own)
    BY DEF IInv, HandlersKnow, Knows, DeskStages
  <2>2. Handle(w, t).status = 0 /\ Handle(w, t).lane.tenant = lane.tenant
    BY <2>1, DecidedFields
  <2>3. lane.tenant = t
    BY <2>1, <2>2, HandleDecides
  <2> QED
    BY <2>1, <2>3 DEF AdmittedFor
<1> QED
  BY <1>1, Invariant, PTL

\* The JID that names a contact's number is understood to name that contact.
LEMMA ContactNamed ==
    ASSUME NEW c \in Contacts
    PROVE  ParseDirectJID(Direct(c)) = c /\ c # NoUser
BY EventsAssumption DEF ParseDirectJID, Direct, JID, Digits, Numbers

\* What the handler answers to a report of Evolution Go.
LEMMA ReportOutcome ==
    ASSUME NEW w, IsReport(w), NEW t
    PROVE  LET outcome == Handle(w, t)
           IN  /\ w.data # NoData /\ w.said.chat # "direct" => outcome.status = 200
               /\ outcome.status = 0
                     => /\ w.said.chat = "direct" /\ w.said.text
                        /\ outcome = Decided(t, "w2c", w.said.contact, w.said.own)
               /\ /\ w.data # NoData /\ w.event \in MessageEvents
                  /\ w.said.chat = "direct" /\ w.said.text /\ NamesContact(w)
                  => outcome.status = 0
<1> DEFINE text == DirectTextWithReason(w.event, w.data)
           outcome == Handle(w, t)
<1>1. outcome = IF text.result = "skip" THEN Refused(200)
                ELSE IF text.result = "error" \/ ParseDirectJID(text.remoteJid) = NoUser
                THEN Refused(503)
                ELSE Decided(t, "w2c", ParseDirectJID(text.remoteJid), text.own)
  BY DEF IsReport, Handle, HandleEvogoWebhook
<1>2. /\ Refused(200).status = 200 /\ Refused(503).status = 503
      /\ \A c, own : Decided(t, "w2c", c, own).status = 0
  BY DecidedFields DEF Refused
<1>3. w.said \in Messages /\ w.said.contact \in Contacts
  BY DEF IsReport, Messages
<1>4. CASE w.data = NoData
  <2>1. text.result \in {"skip", "error"}
    BY <1>4 DEF DirectTextWithReason, Skip, Broken
  <2> HIDE DEF text, outcome
  <2> QED
    BY <1>1, <1>2, <1>4, <2>1 DEF text, outcome
<1>5. CASE w.data # NoData
  <2>1. w.data \in Payloads(w.said)
    BY <1>5 DEF IsReport
  <2>2. /\ text.result \in {"skip", "error", "text"}
        /\ w.said.chat # "direct" => text.result = "skip"
        /\ text.result = "text"
              => /\ w.said.chat = "direct" /\ w.said.text /\ text.own = w.said.own
                 /\ text.remoteJid = Direct(w.said.contact)
        /\ /\ w.event \in MessageEvents /\ w.said.chat = "direct" /\ w.said.text
           /\ NamesContact(w)
           => text.result = "text"
    BY <1>3, <1>5, <2>1, ReportIsUnderstood DEF NamesContact
  <2>3. /\ ParseDirectJID(Direct(w.said.contact)) = w.said.contact
        /\ w.said.contact # NoUser
    BY <1>3, ContactNamed
  <2> HIDE DEF text, outcome
  <2>4. CASE text.result = "text"
    <3>1. outcome = Decided(t, "w2c", w.said.contact, w.said.own)
      BY <1>1, <2>2, <2>3, <2>4
    <3> QED
      BY <1>2, <2>2, <2>4, <3>1 DEF outcome
  <2>5. CASE text.result # "text"
    <3>1. outcome.status \in {200, 503}
          /\ (text.result = "skip" => outcome.status = 200)
      BY <1>1, <1>2, <2>2, <2>5
    <3> QED
      BY <2>2, <2>5, <3>1 DEF outcome
  <2> QED
    BY <2>4, <2>5
<1> QED
  BY <1>4, <1>5

\* What the handler decides of an agent's message is about its addressee.
LEMMA AgentOutcome ==
    ASSUME NEW w, IsAgentHook(w), NEW t, Handle(w, t).status = 0
    PROVE  Handle(w, t).contact = w.to
<1> DEFINE contact == ParseDirectJID(SourceID(w))
<1>1. Refused(200).status # 0 /\ Refused(500).status # 0
  BY DEF Refused
<1>2. /\ contact # NoUser
      /\ Handle(w, t) = Decided(GetTenantByChatwootInbox(CoreInbox(w)), "c2w", contact,
                                FALSE)
  BY <1>1 DEF IsAgentHook, Handle, HandleChatwootWebhook
<1>3. contact \in {w.to, NoUser}
  BY DEF IsAgentHook, SourceID
<1>4. Handle(w, t).contact = contact
  BY <1>2 DEF Decided
<1> HIDE DEF contact
<1> QED
  BY <1>2, <1>3, <1>4

\* What goes on concerns the contact of its chat, on the right side of it: for
\* any numbers and LIDs, whichever contract and alternates Evolution Go used.
THEOREM ConversationRight == Spec => []RightConversation
<1>1. IInv => RightConversation
  <2> SUFFICES ASSUME IInv, NEW r \in Requests, req[r].stage = "decided"
               PROVE  LET w == req[r].hook
                      IN  IF w.endpoint = "chatwoot" THEN req[r].contact = w.to
                          ELSE /\ w.said.text
                               /\ req[r].contact = w.said.contact
                               /\ req[r].own = w.said.own
    BY DEF RightConversation
  <2> DEFINE w == req[r].hook
             t == req[r].tenant
             lane == req[r].lane
  <2>1. /\ IsAgentHook(w) \/ IsReport(w)
        /\ Handle(w, t) = Decided(lane.tenant, lane.dir, req[r].contact, req[r].own)
    BY DEF IInv, HandlersKnow, Knows, DeskStages
  <2>2. /\ Handle(w, t).status = 0 /\ Handle(w, t).contact = req[r].contact
        /\ Handle(w, t).own = req[r].own
    BY <2>1, DecidedFields
  <2>3. CASE IsAgentHook(w)
    BY <2>2, <2>3, AgentOutcome DEF IsAgentHook
  <2>4. CASE IsReport(w)
    <3>1. /\ w.said.text
          /\ Handle(w, t) = Decided(t, "w2c", w.said.contact, w.said.own)
      BY <2>2, <2>4, ReportOutcome
    <3>2. w.endpoint = "evolution"
      BY <2>4 DEF IsReport
    <3> QED
      BY <2>2, <3>1, <3>2, DecidedFields
  <2> QED
    BY <2>1, <2>3, <2>4
<1> QED
  BY <1>1, Invariant, PTL

\* Messages of groups and broadcasts end acknowledged, whatever JIDs of their
\* members they carry.
THEOREM GroupsOut == Spec => []GroupsStayOut
<1>1. IInv => GroupsStayOut
  <2> SUFFICES ASSUME IInv, NEW r \in Requests
               PROVE  /\ EndedReport(r) /\ req[r].hook.said.chat # "direct"
                            => req[r].status = 200
                      /\ req[r].stage = "decided" /\ req[r].hook.endpoint = "evolution"
                            => req[r].hook.said.chat = "direct"
    BY DEF GroupsStayOut
  <2> DEFINE w == req[r].hook
             t == req[r].tenant
  <2>1. Knows(req[r])
    BY DEF IInv, HandlersKnow
  <2>2. ASSUME EndedReport(r), w.said.chat # "direct"
        PROVE  req[r].status = 200
    <3>1. IsReport(w) /\ w.data # NoData /\ Handle(w, t).status = req[r].status
      BY <2>1, <2>2 DEF EndedReport, Knows, DeskStages, IsAgentHook
    <3> QED
      BY <2>2, <3>1, ReportOutcome
  <2>3. ASSUME req[r].stage = "decided", w.endpoint = "evolution"
        PROVE  w.said.chat = "direct"
    <3>1. /\ IsReport(w)
          /\ Handle(w, t) = Decided(req[r].lane.tenant, req[r].lane.dir,
                                    req[r].contact, req[r].own)
      BY <2>1, <2>3 DEF Knows, DeskStages, IsAgentHook
    <3> QED
      BY <3>1, ReportOutcome, DecidedFields
  <2> QED
    BY <2>2, <2>3
<1> QED
  BY <1>1, Invariant, PTL

\* A direct text that names the contact's number in any place is neither
\* dropped nor refused.
THEOREM TextsArrive == Spec => []DirectTextsArrive
<1>1. IInv => DirectTextsArrive
  <2> SUFFICES ASSUME IInv, NEW r \in Requests, EndedReport(r),
                      req[r].hook.event \in MessageEvents
               PROVE  LET w == req[r].hook
                      IN  ~(w.said.chat = "direct" /\ w.said.text /\ NamesContact(w))
    BY DEF DirectTextsArrive
  <2> DEFINE w == req[r].hook
             t == req[r].tenant
  <2>1. Knows(req[r])
    BY DEF IInv, HandlersKnow
  <2>2. IsReport(w) /\ w.data # NoData /\ Handle(w, t).status # 0
    BY <2>1 DEF EndedReport, Knows, DeskStages, IsAgentHook
  <2> QED
    BY <2>2, ReportOutcome
<1> QED
  BY <1>1, Invariant, PTL

=============================================================================
