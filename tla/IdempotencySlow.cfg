CONSTANTS
    c1 = c1  c2 = c2  o = o  s = s
    kc = kc  ko = ko
    Attempts <- SlowAttempts
    Keys = {kc, ko}
    KeyOf <- KeyOfAll
    KindOf <- KindOfAll
    ClaimTTL = 2
    IdempotencyTTL = 3
    HandlerTTL = 9
    MaxNow = 4
    NoToken = NoToken
    NoMessage = NoMessage
SPECIFICATION Spec
CHECK_DEADLOCK FALSE
INVARIANTS TypeOK DeliveriesSpaced SentIsAudited CompletedAnswerIsBacked
PROPERTIES SupersededNeverFinishes ImplementsLedger
