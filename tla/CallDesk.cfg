CONSTANTS
    c1 = c1
    c2 = c2
    n1 = n1
    n2 = n2
    k1 = k1
    k2 = k2
    k3 = k3
    Clients = {c1, c2}
    Panels = {p1}
    Tasks = {n1, n2}
    Calls = {k1, k2}
    Numbers <- TwoNumbers
    Concurrency = 2
    Scenarios <- AtWork
    MaxCalls = 1
    Nobody = nobody
    Free = free
SPECIFICATION BroadcastSpec
INVARIANTS BroadcastTypeOK NoSendOnClosed  EndedIsRecorded  LeavesNoCall
CHECK_DEADLOCK FALSE
