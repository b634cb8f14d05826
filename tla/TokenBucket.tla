----------------------------- MODULE TokenBucket -----------------------------
(***************************************************************************)
(* rate.Limiter of golang.org/x/time/rate as getLimiter (internal/bridge/  *)
(* bridge.go) configures and uses it: LimitPerMin / 60 tokens a second and *)
(* a burst of a tenth of the limit.  Time is in whole seconds and credit   *)
(* in sixtieths of a token, so one second earns `limit` units of credit.   *)
(***************************************************************************)
EXTENDS Integers

Token == 60

Lesser(x, y) == IF x <= y THEN x ELSE y

\* At least one message, however small the limit.
Burst(limit) == IF limit \div 10 < 1 THEN 1 ELSE limit \div 10

\* Mutated form: the burst is a whole minute's limit.
NewLimiterWholeMinute(limit, t) == [credit |-> Token * limit, last |-> t]

\* A limiter is born full.
NewLimiter(limit, t) == [credit |-> Token * Burst(limit), last |-> t]

\* What the bucket holds at time t.
Advanced(bucket, limit, t) ==
    Lesser(Token * Burst(limit), bucket.credit + limit * (t - bucket.last))

\* Allow() answers true ...
Allows(bucket, limit, t) == Advanced(bucket, limit, t) >= Token

\* ... and takes one token; a refusal takes nothing.
AfterAllow(bucket, limit, t) ==
    IF Allows(bucket, limit, t)
    THEN [credit |-> Advanced(bucket, limit, t) - Token, last |-> t]
    ELSE bucket

=============================================================================
