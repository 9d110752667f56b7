CONSTANTS
    m1 = m1
    c1 = c1
    k1 = k1
    Msgs = {m1}
    Traffics <- EachWay
    Chat <- OneChat
    Media = {m1}
    Captioned = {}
    Pushers = {p1}
    Importers = {k1}
    NoImporter = noImporter
    NoMsg = noMsg
    Configs = {{"valid", "groups", "channels", "import"}}
    MaxAttempts = 2
    MaxOpen = 1
    MaxFaults = 1
SPECIFICATION FairSpec
INVARIANTS TypeOK DeadEarned OnlyAgentsRelayed
PROPERTIES ImplementsDelivery Redelivered
CHECK_DEADLOCK FALSE
