CONSTANTS
    d1 = d1  d2 = d2  d3 = d3  d4 = d4
    contact = contact  phone = phone  hello = hello
    Deliveries <- TwoDeliveries
    AgentTexts = {hello}
    AgentMax = 1
    FromContact = {}
    FromPhone = {phone}
    TextOf <- MCTextOf
    Outcomes = {"ok", "lost", "garbled", "rejected"}
    MaxCrashes = 1
    MayLimit = TRUE
    MayFailDB = TRUE
    MayStall = TRUE
    MayPause = TRUE
    EnvPaused = FALSE
    NoToken = NoToken
    NoMessage = NoMessage
SPECIFICATION FairSpec
CHECK_DEADLOCK FALSE
PROPERTIES HandlersAnswer
