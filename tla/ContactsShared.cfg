CONSTANTS
    h1 = h1  h2 = h2  adder = adder  starter = starter
    Handlers = {h1, h2}
    Adders = {adder}
    Starters = {starter}
    MaxContacts = 2
    MaxFaults = 1
    MayDelete = TRUE
SPECIFICATION FairSpec
CHECK_DEADLOCK FALSE
INVARIANTS TypeOK ConversationsAreAnswerable MapNamesBoundContact
PROPERTIES RetriesConverge
