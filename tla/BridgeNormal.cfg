CONSTANTS
    d1 = d1  d2 = d2  d3 = d3  d4 = d4
    contact = contact  phone = phone  hello = hello
    Deliveries <- FourDeliveries
    AgentTexts = {hello}
    AgentMax = 1
    FromContact = {contact}
    FromPhone = {phone}
    TextOf <- MCTextOf
    Outcomes = {"ok", "rejected"}
    MaxCrashes = 0
    MayLimit = FALSE
    MayFailDB = FALSE
    MayStall = FALSE
    MayPause = TRUE
    EnvPaused = FALSE
    NoToken = NoToken
    NoMessage = NoMessage
SPECIFICATION SwitchSpec
CHECK_DEADLOCK FALSE
SYMMETRY Symmetry
INVARIANTS TypeOK NoLoopToWhatsApp IncomingPublishedAtMostOnce
PROPERTIES ImplementsCrossing PauseHoldsBack
