CONSTANTS
    d1 = d1  d2 = d2  d3 = d3  d4 = d4
    contact = contact  phone = phone  hello = hello
    Deliveries <- ThreeDeliveries
    AgentTexts = {hello}
    AgentMax = 1
    FromContact = {contact}
    FromPhone = {phone}
    TextOf <- MCTextOf
    Outcomes = {"ok", "lost", "unsent", "rejected"}
    MaxCrashes = 1
    MayLimit = TRUE
    MayFailDB = TRUE
    MayStall = TRUE
    MayPause = FALSE
    EnvPaused = FALSE
    NoToken = NoToken
    NoMessage = NoMessage
SPECIFICATION Spec
CHECK_DEADLOCK FALSE
SYMMETRY Symmetry
INVARIANTS NoLoopToChatwoot SentAtMostOnce ManualPublishedAtMostOnce
INVARIANTS AcknowledgedIsDelivered ManualPairIsAtomic RegistryIsExact
PROPERTIES AcknowledgedIsFinal
