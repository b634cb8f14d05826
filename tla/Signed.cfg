CONSTANTS
    c1 = c1  c2 = c2  c3 = c3  o = o  s = s
    kc = kc  ko = ko
    Attempts = {c1, c2, c3}
    Keys = {kc}
    KeyOf <- KeyOfAll
    KindOf <- KindOfAll
    ClaimTTL = 2
    IdempotencyTTL = 5
    HandlerTTL = 1
    MaxNow = 7
    SignedAt <- MCSignedAt
    EventSpread = 1
    ReplayWindow = 1
    ClockOffset = 0
    NoToken = NoToken
    NoMessage = NoMessage
SPECIFICATION SignedFairSpec
CHECK_DEADLOCK FALSE
INVARIANTS OneHolder SentOnceEver
PROPERTIES OrphanedClaimLapses
