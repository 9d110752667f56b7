CONSTANTS
    a1 = a1
    a2 = a2
    s1 = s1
    Ids = {s1}
    Admins = {a1, a2}
    Scenarios <- OneInstance
    MaxFaults = 1
    MaxDrops = 2
SPECIFICATION Spec
INVARIANT InstanceCanBeDeleted
CHECK_DEADLOCK FALSE
