CONSTANTS
    h1 = h1  h2 = h2  adder = adder  starter = starter
    Handlers = {h1, h2}
    Adders = {}
    Starters = {}
    MaxContacts = 1
    MaxFaults = 0
    MayDelete = FALSE
SPECIFICATION Spec
CHECK_DEADLOCK FALSE
INVARIANTS OneOpenConversation
