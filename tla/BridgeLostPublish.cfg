CONSTANTS
    d1 = d1  d2 = d2  d3 = d3  d4 = d4
    contact = contact  phone = phone  hello = hello
    Deliveries <- ThreeDeliveries
    AgentTexts = {hello}
    AgentMax = 0
    FromContact = {}
    FromPhone = {phone}
    TextOf <- MCTextOf
    Outcomes = {"ok", "lost"}
    MaxCrashes = 0
    MayLimit = FALSE
    MayFailDB = FALSE
    MayStall = FALSE
    MayPause = FALSE
    EnvPaused = FALSE
    NoToken = NoToken
    NoMessage = NoMessage
SPECIFICATION Spec
CHECK_DEADLOCK FALSE
INVARIANTS NoLoopToWhatsApp
