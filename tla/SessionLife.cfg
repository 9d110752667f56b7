CONSTANTS
    a1 = a1
    a2 = a2
    s1 = s1
    Ids = {s1}
    Admins = {a1, a2}
    Scenarios <- Lives
    MaxFaults = 2
    MaxDrops = 2
SPECIFICATION Spec
INVARIANTS TypeOK DatabaseHasRow   LossesAnnounced
CHECK_DEADLOCK FALSE
